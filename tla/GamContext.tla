----------------------------- MODULE GamContext -----------------------------
(***************************************************************************)
(* A whole executor: private and public pointers of one application over   *)
(* the same tables, the same heap, the same user thread and the same       *)
(* daemon (Context.hpp), and the operations that concern both kinds:       *)
(*                                                                         *)
(*   - publish, which turns private memory into public memory under a      *)
(*     fresh address, at the author or after a remote load;                *)
(*   - a pull that finds a pointer of the other kind, and the assignment   *)
(*     of a private pointer that holds no address to a public_ptr that     *)
(*     does: both silently forget a capability or a reference.             *)
(*                                                                         *)
(* The actions of each kind are those of PrivatePtr and PublicPtr (blocks  *)
(* of make_gam_unique, which no table knows of, are left out).  Their      *)
(* messages travel on the same three services; they are kept in two sets   *)
(* for each, because a handler tells them apart by the operation and by    *)
(* the address.  Answers carry neither: AnswersApart says that none can    *)
(* be taken for one of the other kind.                                     *)
(*                                                                         *)
(* The application pushes no pointer to the author of a public address,    *)
(* drops only counted references, and does not write back opened private   *)
(* pointers: PrivatePtr and PublicPtr show what happens otherwise.         *)
(***************************************************************************)
EXTENDS GamView, Integers, FiniteSets

CONSTANTS
    PrivateMakers, PublicMakers,    \* whose applications create pointers
    Content,    \* what applications write into private memory
    Handle,     \* names of references
    RcRange,    \* how many values an unsigned long long has
    MaxLost     \* bound on how often, and of how many addresses, one is lost

VARIABLES
    pvt, uniq, fwd,             \* the private pointers of the user threads
    pvtPap, pvtDmn, pvtMem,     \* their messages
    ptr, rc, busy,              \* the public pointers and their counts
    pubPap, pubDmn, pubMem,     \* their messages
    pub,        \* pub[e]: the publish its user thread waits in, or Null
    lost        \* lost[a]: capabilities or references of a lost so far

privateVars == <<pvt, uniq, fwd, pvtPap, pvtDmn, pvtMem>>
publicVars  == <<ptr, rc, busy, pubPap, pubDmn, pubMem>>
vars == <<tableVars, privateVars, publicVars, pub, lost>>

Pvt == INSTANCE PrivatePtr WITH
    pap <- pvtPap, dmn <- pvtDmn, mem <- pvtMem,
    Makers <- PrivateMakers, Readers <- Executor, Rewriters <- {},
    Routes <- {r \in Executor \X Executor : r[1] # r[2]}

Pub == INSTANCE PublicPtr WITH
    pap <- pubPap, dmn <- pubDmn, mem <- pubMem,
    Makers <- PublicMakers, Homing <- FALSE, Patient <- TRUE

(* A publish in progress: the private address, the public one, the block   *)
(* that is being filled and the author it is filled from.                  *)
Publishing == [p : Address, as : Address, lp : Cell, to : Executor]

(* What Pvt and Pub assume, of this application too *)
ASSUME ContextAssumption ==
    /\ Executor \subseteq Nat
    /\ PrivateMakers \subseteq Executor /\ PublicMakers \subseteq Executor
    /\ Content \subseteq Value
    /\ IsFiniteSet(Handle) /\ Null \notin Handle
    /\ RcRange \in Nat /\ RcRange > 2 * Cardinality(Handle) + MaxLost
    /\ Null \notin 0 .. RcRange - 1
    /\ Null \notin Pvt!Load \cup Pub!Pushing \cup Pub!Asking \cup Pub!Pointer
                   \cup Publishing
    /\ MaxLost \in Nat

Init ==
    /\ Pvt!Init
    /\ Pub!Init
    /\ pub = [e \in Executor |-> Null]
    /\ lost = [a \in Address |-> 0]

-----------------------------------------------------------------------------
(* The one user thread of e is not in the middle of anything. *)
Idle(e) == fwd[e] = Null /\ busy[e] = Null /\ pub[e] = Null

(* Bound: every publish in progress will find a handle. *)
HandlesLeft ==
    Cardinality(Pub!FreshHandles) >= Cardinality({e \in Executor : pub[e] # Null})

(* Faults of publish: the private entry stays; the private_ptr keeps its   *)
(* address; the count starts at zero.                                      *)
Remap_KeepsEntry(e, a, b, c) ==
    view' = [view EXCEPT ![e][b] = Pub!PublicEntry(e, c)]

Publicize_Unreleased(e, a, b) ==
    /\ UNCHANGED pvt
    /\ Pub!RcInit(e, b)
    /\ \E h \in Pub!FreshHandles : ptr' = [ptr EXCEPT ![h] = [p |-> b, at |-> e]]

Publicize_FromZero(e, a, b) ==
    /\ Pvt!Release(e, a)
    /\ rc' = [rc EXCEPT ![e][b] = 0]
    /\ \E h \in Pub!FreshHandles : ptr' = [ptr EXCEPT ![h] = [p |-> b, at |-> e]]

(* publish binds the block c to the fresh address b instead of a. *)
Remap(e, a, b, c) ==
    view' = [view EXCEPT ![e][a] = Null, ![e][b] = Pub!PublicEntry(e, c)]

(* What public_ptr does after publish: the private_ptr is neutralised, and *)
(* there is one public_ptr to b.                                           *)
Publicize(e, a, b) ==
    /\ Pvt!Release(e, a)
    /\ Pub!RcInit(e, b)
    /\ \E h \in Pub!FreshHandles : ptr' = [ptr EXCEPT ![h] = [p |-> b, at |-> e]]

(* publish by the author: the committed block moves to a fresh address *)
PublishAtHome(e, a) ==
    /\ Idle(e)
    /\ a \in pvt[e]
    /\ Pvt!AmOwner(e, a) /\ Pvt!AmAuthor(e, a)
    /\ view[e][a].child # Null /\ Pvt!HasParent(e, view[e][a].child)
    /\ \E b \in FreshAddresses :
        /\ issued' = issued \cup {b}
        /\ Remap(e, a, b, view[e][a].committed)
        /\ Publicize(e, a, b)
    /\ parent' = ParentsWithout(e, a)
    /\ UNCHANGED <<heap, uniq, fwd, pvtPap, pvtDmn, pvtMem,
                   busy, pubPap, pubDmn, pubMem, pub, lost>>

(* publish by another executor, first half: a fresh address and a block    *)
(* for it, and the remote-load request to the author.  (Nobody knows the   *)
(* address before publish returns; its entry appears with the second half.)*)
PublishRequest(e, a) ==
    /\ Idle(e)
    /\ a \in pvt[e]
    /\ Pvt!AmOwner(e, a) /\ ~Pvt!AmAuthor(e, a)
    /\ view[e][a].child = Null
    /\ \E b \in FreshAddresses, c \in FreeCells(e) :
        /\ issued' = issued \cup {b}
        /\ heap' = [heap EXCEPT ![e][c] = Default]
        /\ pub' = [pub EXCEPT ![e] = [p |-> a, as |-> b, lp |-> c,
                                      to |-> view[e][a].author]]
    /\ pvtDmn' = pvtDmn \cup {Pvt!RequestTo("RLOAD", e, a)}
    /\ UNCHANGED <<view, parent, pvt, uniq, fwd, pvtPap, pvtMem, publicVars, lost>>

(* Faults: the loaded value does not reach the block; the author is not    *)
(* told to release its copy.                                               *)
Fill_Nothing(e, c, v) == UNCHANGED heap

ReleaseCopy_Skipped(e, a, to) == UNCHANGED pvtDmn

Fill(e, c, v) == heap' = [heap EXCEPT ![e][c] = v]

(* forward_reset *)
ReleaseCopy(e, a, to) ==
    pvtDmn' = pvtDmn \cup {[op |-> "PVT_RESET", from |-> e, to |-> to, p |-> a]}

(* Second half: the block is filled, the author is told to release its     *)
(* copy, and the block is bound to the public address.                     *)
PublishAnswer(e, s) ==
    /\ pub[e] # Null
    /\ s \in pvtMem /\ s.to = e /\ s.from = pub[e].to
    /\ Mapped(e, pub[e].p)
    /\ Fill(e, pub[e].lp, s.value)
    /\ ReleaseCopy(e, pub[e].p, pub[e].to)
    /\ Remap(e, pub[e].p, pub[e].as, pub[e].lp)
    /\ Publicize(e, pub[e].p, pub[e].as)
    /\ pvtMem' = pvtMem \ {s}
    /\ pub' = [pub EXCEPT ![e] = Null]
    /\ UNCHANGED <<issued, parent, uniq, fwd, pvtPap,
                   busy, pubPap, pubDmn, pubMem, lost>>

(* One capability of, or one reference to, a is forgotten.  Bounds: how    *)
(* often of one address, and of how many.                                  *)
Lose(a) ==
    /\ lost[a] < MaxLost
    /\ Cardinality({b \in Address \ {a} : lost[b] > 0}) < MaxLost
    /\ lost' = [lost EXCEPT ![a] = @ + 1]

(* pull_public finds a private pointer, pull_private a public one: the     *)
(* message is consumed and the caller gets a null pointer.                 *)
PullPrivateAsPublic(e, m) ==
    /\ Idle(e)
    /\ m \in pvtPap /\ m.to = e
    /\ pvtPap' = pvtPap \ {m}
    /\ Lose(m.p)
    /\ UNCHANGED <<tableVars, pvt, uniq, fwd, pvtDmn, pvtMem, publicVars, pub>>

PullPublicAsPrivate(e, m) ==
    /\ Idle(e)
    /\ m \in pubPap /\ m.to = e
    /\ pubPap' = pubPap \ {m}
    /\ Lose(m.p)
    /\ UNCHANGED <<tableVars, privateVars, ptr, rc, busy, pubDmn, pubMem, pub>>

(* public_ptr = private_ptr && without an address: the address held is     *)
(* overwritten, and no reset() discounts it.                               *)
Overwrite(e, h) ==
    /\ Idle(e)
    /\ Pub!HeldBy(e, h)
    /\ ptr' = [ptr EXCEPT ![h] = Null]
    /\ Lose(ptr[h].p)
    /\ UNCHANGED <<tableVars, privateVars, rc, busy, pubPap, pubDmn, pubMem, pub>>

-----------------------------------------------------------------------------
PrivateUser(e) ==
    /\ Idle(e)
    /\ \/ \E v \in Content : e \in PrivateMakers /\ Pvt!Make(e, v)
       \/ \E c \in Cell : Pvt!DropUnique(e, c)
       \/ \E a \in Address : \/ Pvt!LocalAtHome(e, a) \/ Pvt!LocalRequest(e, a)
                             \/ Pvt!Drop(e, a)
                             \/ \E t \in Executor \ {e} : Pvt!Push(e, a, t)
       \/ \E m \in pvtPap : Pvt!Pull(e, m)
    /\ UNCHANGED <<publicVars, pub, lost>>

PublicUser(e)  == Idle(e) /\ Pub!User(e) /\ UNCHANGED <<privateVars, pub, lost>>

(* A user thread goes on with what it is in the middle of. *)
Resume(e) ==
    \/ Pvt!Answered(e) /\ UNCHANGED <<publicVars, pub, lost>>
    \/ (Pub!Answered(e) \/ Pub!PushCount(e)) /\ UNCHANGED <<privateVars, pub, lost>>
    \/ \E s \in pvtMem : PublishAnswer(e, s)

Both(e) ==
    \/ \E a \in Address : PublishAtHome(e, a) \/ PublishRequest(e, a)
    \/ \E m \in pvtPap : PullPrivateAsPublic(e, m)
    \/ \E m \in pubPap : PullPublicAsPrivate(e, m)
    \/ \E h \in Handle : Overwrite(e, h)

(* The daemon *)
PrivateDaemon(e) == Pvt!Daemon(e) /\ UNCHANGED <<publicVars, pub, lost>>
PublicDaemon(r)  == Pub!Handled(r) /\ UNCHANGED <<privateVars, pub, lost>>

Finished ==
    /\ Pvt!Finished /\ Pub!Finished
    /\ UNCHANGED <<pub, lost>>

Next ==
    /\ \/ \E e \in Executor : \/ PrivateUser(e) \/ PublicUser(e) \/ Both(e)
                              \/ Resume(e) \/ PrivateDaemon(e)
       \/ \E r \in pubDmn : PublicDaemon(r)
       \/ Finished
    /\ HandlesLeft'

Spec == Init /\ [][Next]_vars

(* A daemon takes requests as they arrive, so that none is overtaken for   *)
(* ever: one condition for each sender and each reference it tells of is   *)
(* enough.  A user thread goes on with what it is in the middle of.        *)
Served(e, f, h) ==
    \E r \in pubDmn : r.to = e /\ r.from = f /\ r.ref = h /\ PublicDaemon(r)

Fairness ==
    \A e \in Executor :
        /\ WF_vars(Resume(e)) /\ WF_vars(PrivateDaemon(e))
        /\ \A f \in Executor \ {e}, h \in Handle \cup {Null} : WF_vars(Served(e, f, h))

FairSpec == Spec /\ Fairness

-----------------------------------------------------------------------------
TypeOK ==
    /\ Pvt!TypeOK /\ Pub!TypeOK
    /\ pub \in [Executor -> Publishing \cup {Null}]
    /\ lost \in [Address -> 0 .. MaxLost]

(* ref_cnt keeps its keys: an address is public for ever. *)
IsPublic(a) == \E e \in Executor : rc[e][a] # Null

(* The address of a publish that has not returned yet. *)
InPublish(a) == \E e \in Executor : pub[e] # Null /\ pub[e].as = a

-----------------------------------------------------------------------------
(* Safety *)

(* The asserts on private memory: those of the daemon, those of the        *)
(* holders of private pointers, and those of publish, which wants a child  *)
(* with a parent at the author and no child elsewhere.                     *)
PrivateAsserts ==
    /\ Pvt!DaemonAsserts /\ Pvt!UserAsserts
    /\ \A e \in Executor : \A a \in pvt[e] :
         /\ view[e][a].access_level = "private" /\ ~IsPublic(a)
         /\ Idle(e) => IF Pvt!AmAuthor(e, a)
                       THEN Pvt!HasParent(e, view[e][a].child)
                       ELSE view[e][a].child = Null

(* Those on public memory.                                                 *)
PublicAsserts ==
    /\ Pub!DaemonAsserts /\ Pub!HolderAsserts
    /\ \A h \in Handle : ptr[h] # Null =>
         view[ptr[h].at][ptr[h].p].access_level = "public"

(* No assert fails, of either kind and at whatever moment.  Levels never   *)
(* mix: private_ptrs hold private addresses and public_ptrs public ones,   *)
(* lost and published pointers notwithstanding.                            *)
AssertsHold == PrivateAsserts /\ PublicAsserts

(* The count of a public address, published ones included, is right up to  *)
(* what is on its way and to the references the application lost.          *)
CountsConserved ==
    \A e \in Executor, a \in Address : rc[e][a] # Null =>
        rc[e][a] = (Cardinality(Pub!References(a)) + Cardinality(Pub!Unreleased(a))
                    - Cardinality(Pub!Uncounted(a)) + lost[a]) % RcRange

(* What a block of local memory is in use for. *)
UsesOf(e, c) ==
    {<<"backs", a>> : a \in {a \in Address : Mapped(e, a) /\ view[e][a].committed = c}}
    \cup (IF fwd[e] # Null /\ fwd[e].lp = c THEN {<<"loads", fwd[e].p>>} ELSE {})
    \cup (IF pub[e] # Null /\ pub[e].lp = c THEN {<<"publishes", pub[e].as>>} ELSE {})

(* Why an executor keeps memory for a. *)
Wanted(e, a) ==
    \/ Pvt!BackedFrom(a, e)
    \/ Pvt!ResetPending(e, a)
    \/ rc[e][a] # Null /\ rc[e][a] > 0
    \/ lost[a] > 0

(* Memory is accounted for: a live block has exactly one use, so that it   *)
(* is freed once, and memory is kept for an address only as long as        *)
(* somebody will look for it, a release of it is on its way, it is         *)
(* counted, or the application lost it.                                    *)
MemoryAccounted ==
    \A e \in Executor :
        /\ \A c \in Cell :
             Cardinality(UsesOf(e, c)) = IF heap[e][c] = Null THEN 0 ELSE 1
        /\ \A a \in Address : Backs(e, a) => Wanted(e, a)

(* Answers carry no mark of what they answer, and private loads, public    *)
(* loads, counts and loads of a publish all come back on one link: a       *)
(* thread waits for one of them at a time, and gets that one.              *)
AnswersApart ==
    /\ \A s \in pvtMem :
         \/ fwd[s.to] # Null /\ fwd[s.to].to = s.from
         \/ pub[s.to] # Null /\ pub[s.to].to = s.from
    /\ \A s \in pubMem : Pub!IsAsking(s.to) /\ busy[s.to].to = s.from
    /\ \A e \in Executor :
         Cardinality({s \in pvtMem : s.to = e}) + Cardinality({s \in pubMem : s.to = e}) <= 1

(* ConcurrentMapWrap::operator[] unlocks before its caller uses the        *)
(* reference.  The two threads of an executor still never work on the      *)
(* entry of one private address, and none is published while a request of  *)
(* another executor on it waits for the daemon here.                       *)
EntryRaceFree ==
    /\ Pvt!EntryRaceFree
    /\ \A r \in pvtDmn : pub[r.to] = Null \/ pub[r.to].p # r.p

-----------------------------------------------------------------------------
(* Liveness *)

(* Every call returns: local(), use_count(), push() and publish, even when *)
(* the executors wait for each other.                                      *)
CallsReturn == \A e \in Executor : ~Idle(e) ~> Idle(e)

(* Nobody can reach a any more, and the application lost nothing of it. *)
Unreachable(a) ==
    /\ a \in issued /\ ~InPublish(a) /\ lost[a] = 0
    /\ Pvt!Destroyed(a) /\ Pub!References(a) = {}

(* Memory that is not lost goes eventually, at every executor: copies left *)
(* at former authors, memory that was published, and public memory without *)
(* references.                                                             *)
Reclaimed ==
    \A a \in Address : Unreachable(a) ~> \A e \in Executor : ~Backs(e, a)

-----------------------------------------------------------------------------
(* The runtime implements the memory applications are promised *)

PlaceOf(a) ==
    CASE InPublish(a)                 -> [stage |-> "unborn"]
      [] IsPublic(a)                  -> [stage |-> "public"]
      [] ~IsPublic(a) /\ lost[a] > 0  -> [stage |-> "lost"]
      [] OTHER                        -> Pvt!PlaceOf(a)

(* The copy that counts: a former author's has its release on the way. *)
ContentOf(a) ==
    IF \E e \in Executor : Backs(e, a) /\ ~Pvt!ResetPending(e, a)
    THEN LET e == CHOOSE e \in Executor : Backs(e, a) /\ ~Pvt!ResetPending(e, a)
         IN  heap[e][view[e][a].committed]
    ELSE Null

Memory == INSTANCE GlobalMemory WITH
    NoValue    <- Null,
    place      <- [a \in Address |-> PlaceOf(a)],
    references <- [a \in Address |-> Cardinality(Pub!References(a))],
    content    <- [a \in Address |-> ContentOf(a)],
    wasted     <- {a \in Address : lost[a] > 0}

(* Whatever the application does with both kinds of pointers, it sees      *)
(* locations with one capability or with counted references; publishing    *)
(* moves the content, and a mistake costs the location it was made with    *)
(* and no other.                                                           *)
ImplementsMemory == Memory!Spec
=============================================================================
