----------------------------- MODULE PublicPtr -----------------------------
(***************************************************************************)
(* Public pointers: include/gam/public_ptr.hpp over the public half of     *)
(* Context.hpp, its daemon, and the reference counts of                    *)
(* MemoryController.hpp.                                                   *)
(*                                                                         *)
(* Public memory stays at its author and never changes.  Every public_ptr  *)
(* object, and every one on its way to another executor, is a reference;   *)
(* the author counts them.  Executors tell the author's daemon of          *)
(* references they create or destroy (RC_INC, RC_DEC) and go on without an *)
(* answer, so that the count lags behind the references; push() first      *)
(* sends the pointer and counts the new reference afterwards.              *)
(*                                                                         *)
(* A handle names one reference for as long as anybody knows of it.  The   *)
(* code has no such names: they tell equal messages apart.  Messages are   *)
(* not lost or duplicated, and may overtake each other (see PrivatePtr).   *)
(*                                                                         *)
(* An assert stops the process, so its condition is a conjunct of the      *)
(* step.  What the code does with an address that is not mapped            *)
(* (operator[] inserts an empty entry) is not modelled: DaemonAsserts and  *)
(* HolderAsserts say that it does not come to that.                        *)
(***************************************************************************)
EXTENDS GamView, Integers, FiniteSets

CONSTANTS
    Handle,     \* names of references
    RcRange,    \* how many values an unsigned long long has
    Makers,     \* executors whose application creates public memory
    Homing,     \* does the application push pointers to their author?
    Patient     \* does it drop a pointer only when all pushes are counted?

ASSUME ApplicationAssumption ==
    /\ Executor \subseteq Nat
    /\ Makers \subseteq Executor
    /\ Homing \in BOOLEAN /\ Patient \in BOOLEAN
    /\ IsFiniteSet(Handle) /\ Null \notin Handle
    /\ RcRange \in Nat /\ RcRange > 2 * Cardinality(Handle)
    /\ Null \notin 0 .. RcRange - 1

VARIABLES
    ptr,    \* ptr[h]: the public_ptr object that holds reference h, or Null
    rc,     \* rc[e][a]: ref_cnt of e at a, Null when the key is absent
    busy,   \* busy[e]: what the user thread of e is in the middle of, or Null
    pap,    \* pointers pushed and not yet pulled
    dmn,    \* requests sent to daemons and not yet handled
    mem     \* answers of daemons not yet received

linkVars == <<pap, dmn, mem>>
vars == <<tableVars, ptr, rc, busy, linkVars>>

Pointer    == [p : Address, at : Executor]
Capability == [from : Executor, to : Executor, p : Address,
               author : Executor, ref : Handle]
Request    == [op : {"RC_INC", "RC_DEC"}, from : Executor, to : Executor,
               p : Address, ref : Handle]
              \cup [op : {"RLOAD", "RC_GET"}, from : Executor, to : Executor,
                    p : Address, ref : {Null}]
Answer     == [op : {"RLOAD"}, from : Executor, to : Executor, value : Value]
              \cup [op : {"RC_GET"}, from : Executor, to : Executor,
                    value : 0 .. RcRange - 1]
Pushing    == [op : {"push"}, p : Address, ref : Handle]
Asking     == [op : {"RLOAD", "RC_GET"}, p : Address, to : Executor]

ASSUME BusyAssumption == Null \notin Pushing \cup Asking \cup Pointer

TypeOK ==
    /\ TableTypeOK
    /\ ptr \in [Handle -> Pointer \cup {Null}]
    /\ rc \in [Executor -> [Address -> 0 .. RcRange - 1 \cup {Null}]]
    /\ busy \in [Executor -> Pushing \cup Asking \cup {Null}]
    /\ pap \subseteq Capability
    /\ dmn \subseteq Request
    /\ mem \subseteq Answer

Init ==
    /\ TableInit
    /\ ptr = [h \in Handle |-> Null]
    /\ rc = [e \in Executor |-> [a \in Address |-> Null]]
    /\ busy = [e \in Executor |-> Null]
    /\ pap = {} /\ dmn = {} /\ mem = {}

-----------------------------------------------------------------------------
(* Helpers *)

Running(e) == busy[e] = Null

IsPushing(e) == busy[e] # Null /\ busy[e].op = "push"
IsAsking(e)  == busy[e] # Null /\ busy[e].op # "push"

AmAuthor(e, a) == Mapped(e, a) /\ view[e][a].author = e

HeldBy(e, h) == ptr[h] # Null /\ ptr[h].at = e

(* t is the author that the holder of h knows *)
AuthorOf(h, t) ==
    /\ ptr[h] # Null
    /\ Mapped(ptr[h].at, ptr[h].p)
    /\ view[ptr[h].at][ptr[h].p].author = t

(* References to a: the objects and the pushed pointers. *)
Held(a) == {h \in Handle : ptr[h] # Null /\ ptr[h].p = a}
Sent(a) == {h \in Handle : \E m \in pap : m.p = a /\ m.ref = h}
References(a) == Held(a) \cup Sent(a)

(* References created or destroyed of which the author has not heard yet. *)
Counting(op, a) == {h \in Handle : \E r \in dmn : r.op = op /\ r.p = a /\ r.ref = h}
InPush(a) == {h \in Handle : \E e \in Executor :
                 IsPushing(e) /\ busy[e].p = a /\ busy[e].ref = h}
Uncounted(a) == Counting("RC_INC", a) \cup InPush(a)
Unreleased(a) == Counting("RC_DEC", a)

FreshHandles ==
    {h \in Handle : \A a \in Address :
        h \notin References(a) \cup Uncounted(a) \cup Unreleased(a)}

(* A request to the author e knows for a. *)
RequestTo(op, e, a, h) ==
    [op |-> op, from |-> e, to |-> view[e][a].author, p |-> a, ref |-> h]

-----------------------------------------------------------------------------
(* Context::rc_inc and rc_dec, MemoryController *)

(* rc_init asserts that there is no count yet. *)
RcInit(e, a) ==
    /\ rc[e][a] = Null
    /\ rc' = [rc EXCEPT ![e][a] = 1]

(* ++ and -- of an atomic unsigned long long *)
Incremented(n) == (n + 1) % RcRange
Decremented(n) == (n - 1) % RcRange

(* Count a new reference, at the author or by a request to it. *)
RcInc(e, a, h) ==
    IF AmAuthor(e, a)
    THEN /\ rc' = [rc EXCEPT ![e][a] = Incremented(@)]
         /\ UNCHANGED dmn
    ELSE /\ dmn' = dmn \cup {RequestTo("RC_INC", e, a, h)}
         /\ UNCHANGED rc

(* Fault: memory is freed when one reference is left. *)
Discount_FreesEarly(e, a) ==
    /\ rc' = [rc EXCEPT ![e][a] = Decremented(@)]
    /\ IF Decremented(rc[e][a]) <= 1
       THEN Backs(e, a) /\ Unmap(e, a)
       ELSE UNCHANGED tableVars

(* Fault: the last reference does not free the memory. *)
Discount_Keeps(e, a) ==
    /\ rc' = [rc EXCEPT ![e][a] = Decremented(@)]
    /\ UNCHANGED tableVars

(* The author e forgets one reference: the last one frees the memory. *)
Discount(e, a) ==
    /\ rc' = [rc EXCEPT ![e][a] = Decremented(@)]
    /\ IF Decremented(rc[e][a]) = 0
       THEN Backs(e, a) /\ Unmap(e, a)
       ELSE UNCHANGED tableVars

-----------------------------------------------------------------------------
(* The user thread *)

(* The entry mmap_public makes: nobody owns public memory. *)
PublicEntry(e, c) ==
    [committed |-> c, child |-> Null, owner |-> Null, author |-> e,
     access_level |-> "public"]

(* make_public: mmap_public and rc_init *)
Make(e, v) ==
    /\ Running(e)
    /\ \E a \in FreshAddresses, c \in FreeCells(e), h \in FreshHandles :
        /\ issued' = issued \cup {a}
        /\ view' = [view EXCEPT ![e][a] = PublicEntry(e, c)]
        /\ heap' = [heap EXCEPT ![e][c] = v]
        /\ RcInit(e, a)
        /\ ptr' = [ptr EXCEPT ![h] = [p |-> a, at |-> e]]
    /\ UNCHANGED <<parent, busy, linkVars>>

(* Fault: the copy is not counted. *)
Copy_Uncounted(e, h) ==
    /\ Running(e)
    /\ HeldBy(e, h)
    /\ \E k \in FreshHandles : ptr' = [ptr EXCEPT ![k] = ptr[h]]
    /\ UNCHANGED <<tableVars, rc, busy, linkVars>>

(* The copy constructor *)
Copy(e, h) ==
    /\ Running(e)
    /\ HeldBy(e, h)
    /\ Mapped(e, ptr[h].p)
    /\ \E k \in FreshHandles :
        /\ ptr' = [ptr EXCEPT ![k] = ptr[h]]
        /\ RcInc(e, ptr[h].p, k)
    /\ UNCHANGED <<tableVars, busy, pap, mem>>

(* push(), first half: push_public sends the pointer *)
Push(e, h, t) ==
    /\ Running(e)
    /\ HeldBy(e, h)
    /\ Mapped(e, ptr[h].p)
    /\ \E k \in FreshHandles :
        /\ pap' = pap \cup {[from |-> e, to |-> t, p |-> ptr[h].p,
                             author |-> view[e][ptr[h].p].author, ref |-> k]}
        /\ busy' = [busy EXCEPT ![e] =
                       [op |-> "push", p |-> ptr[h].p, ref |-> k]]
    /\ UNCHANGED <<tableVars, ptr, rc, dmn, mem>>

(* Fault: push does not count the pointer it sent. *)
PushCount_Skipped(e) ==
    /\ IsPushing(e)
    /\ busy' = [busy EXCEPT ![e] = Null]
    /\ UNCHANGED <<tableVars, ptr, rc, linkVars>>

(* Second half: rc_inc counts it *)
PushCount(e) ==
    /\ IsPushing(e)
    /\ Mapped(e, busy[e].p)
    /\ RcInc(e, busy[e].p, busy[e].ref)
    /\ busy' = [busy EXCEPT ![e] = Null]
    /\ UNCHANGED <<tableVars, ptr, pap, mem>>

(* Faults: bind_author is missing; the pusher is taken for the author. *)
PulledEntry_NoAuthor(e, m) ==
    [committed |-> Null, child |-> Null, owner |-> Null, author |-> Null,
     access_level |-> "public"]

PulledEntry_SenderIsAuthor(e, m) ==
    [committed |-> Null, child |-> Null, owner |-> Null, author |-> m.from,
     access_level |-> "public"]

(* pulled_public binds the entry anew, whatever it was. *)
PulledEntry(e, m) ==
    [committed |-> Null, owner |-> Null, author |-> m.author,
     child |-> IF Mapped(e, m.p) THEN view[e][m.p].child ELSE Null,
     access_level |-> "public"]

(* pull_public(from) and pull_public(): the reference is counted already,  *)
(* or will be, by the pusher.                                              *)
Pull(e, m) ==
    /\ Running(e)
    /\ m \in pap /\ m.to = e
    /\ pap' = pap \ {m}
    /\ view' = [view EXCEPT ![e][m.p] = PulledEntry(e, m)]
    /\ ptr' = [ptr EXCEPT ![m.ref] = [p |-> m.p, at |-> e]]
    /\ UNCHANGED <<issued, parent, heap, rc, busy, dmn, mem>>

(* reset(), the destructor, the assignment of nullptr; also what            *)
(* copy-assignment does with the pointer it overwrites, after a Copy.      *)
Drop(e, h) ==
    /\ Running(e)
    /\ HeldBy(e, h)
    /\ LET a == ptr[h].p
       IN  /\ Mapped(e, a)
           /\ IF AmAuthor(e, a)
              THEN Discount(e, a) /\ UNCHANGED dmn
              ELSE /\ dmn' = dmn \cup {RequestTo("RC_DEC", e, a, h)}
                   /\ UNCHANGED <<tableVars, rc>>
    /\ ptr' = [ptr EXCEPT ![h] = Null]
    /\ UNCHANGED <<busy, pap, mem>>

(* local(), unique_local() and use_count() by another executor than the    *)
(* author: send the request and wait.  At the author they only read        *)
(* (local_load asserts that the memory is there: HolderAsserts).           *)
Ask(e, h, op) ==
    /\ Running(e)
    /\ HeldBy(e, h)
    /\ LET a == ptr[h].p
       IN  /\ Mapped(e, a) /\ ~AmAuthor(e, a)
           /\ dmn' = dmn \cup {RequestTo(op, e, a, Null)}
           /\ busy' = [busy EXCEPT ![e] =
                          [op |-> op, p |-> a, to |-> view[e][a].author]]
    /\ UNCHANGED <<tableVars, ptr, rc, pap, mem>>

(* The answer: whatever the author's daemon sends next is taken for it,    *)
(* and goes to local memory the tables do not know of.                     *)
Answered(e) ==
    /\ IsAsking(e)
    /\ \E s \in mem :
        /\ s.to = e /\ s.from = busy[e].to
        /\ mem' = mem \ {s}
    /\ busy' = [busy EXCEPT ![e] = Null]
    /\ UNCHANGED <<tableVars, ptr, rc, pap, dmn>>

-----------------------------------------------------------------------------
(* The daemon thread *)

(* The asserts of the RC_INC, RC_DEC, RC_GET and RLOAD handlers *)
Serviceable(r) ==
    /\ AmAuthor(r.to, r.p)
    /\ r.op \in {"RC_GET", "RLOAD"} => Backs(r.to, r.p)

DmnRcInc(r) ==
    /\ r \in dmn /\ r.op = "RC_INC"
    /\ Serviceable(r)
    /\ rc' = [rc EXCEPT ![r.to][r.p] = Incremented(@)]
    /\ dmn' = dmn \ {r}
    /\ UNCHANGED <<tableVars, ptr, busy, pap, mem>>

DmnRcDec(r) ==
    /\ r \in dmn /\ r.op = "RC_DEC"
    /\ Serviceable(r)
    /\ Discount(r.to, r.p)
    /\ dmn' = dmn \ {r}
    /\ UNCHANGED <<ptr, busy, pap, mem>>

(* Fault: a count is answered with the memory. *)
Reply_Memory(r) == heap[r.to][view[r.to][r.p].committed]

(* What RC_GET and RLOAD are answered with *)
Reply(r) ==
    IF r.op = "RLOAD" THEN heap[r.to][view[r.to][r.p].committed]
                      ELSE rc[r.to][r.p]

DmnReply(r) ==
    /\ r \in dmn /\ r.op \in {"RC_GET", "RLOAD"}
    /\ Serviceable(r)
    /\ mem' = mem \cup {[op |-> r.op, from |-> r.to, to |-> r.from,
                         value |-> Reply(r)]}
    /\ dmn' = dmn \ {r}
    /\ UNCHANGED <<tableVars, ptr, rc, busy, pap>>

-----------------------------------------------------------------------------
User(e) ==
    \/ \E v \in Value : e \in Makers /\ Make(e, v)
    \/ \E h \in Handle : \/ Copy(e, h)
                         \/ \E t \in Executor \ {e} :
                              /\ Homing \/ ~AuthorOf(h, t)
                              /\ Push(e, h, t)
                         \/ /\ ptr[h] # Null
                            /\ Patient => Uncounted(ptr[h].p) = {}
                            /\ Drop(e, h)
                         \/ \E op \in {"RLOAD", "RC_GET"} : Ask(e, h, op)
    \/ \E m \in pap : Pull(e, m)

Handled(r) == DmnRcInc(r) \/ DmnRcDec(r) \/ DmnReply(r)

Daemon(e) == \E r \in dmn : r.to = e /\ Handled(r)

(* Everything has been dropped: the application may end here. *)
Finished ==
    /\ \A h \in Handle : ptr[h] = Null
    /\ \A e \in Executor : busy[e] = Null
    /\ pap = {} /\ dmn = {} /\ mem = {}
    /\ UNCHANGED vars

Next ==
    \/ \E e \in Executor : User(e) \/ PushCount(e) \/ Answered(e) \/ Daemon(e)
    \/ Finished

Spec == Init /\ [][Next]_vars

(* A daemon polls for ever and takes requests as they arrive, so that none *)
(* is overtaken for ever; a user thread finishes the push it is in and     *)
(* spins on the answer it waits for.  Nothing obliges an application to    *)
(* drop, pull or push.                                                     *)
Fairness ==
    /\ \A r \in Request : WF_vars(Handled(r))
    /\ \A e \in Executor : WF_vars(Answered(e)) /\ WF_vars(PushCount(e))

FairSpec == Spec /\ Fairness

-----------------------------------------------------------------------------
(* Safety *)

(* The count of the author is right up to what is on its way: it is the    *)
(* number of references, minus those created and not yet counted, plus     *)
(* those destroyed and not yet discounted.  push, copy, pull and reset     *)
(* share the counting between two executors, a message and a daemon.       *)
RcConservation ==
    \A e \in Executor, a \in Address : rc[e][a] # Null =>
        rc[e][a] = (Cardinality(References(a)) + Cardinality(Unreleased(a))
                    - Cardinality(Uncounted(a))) % RcRange

(* No premature free: as long as there is a reference anywhere, held or on *)
(* its way, the author that reference names has the memory.                *)
MemoryHeld ==
    /\ \A h \in Handle : ptr[h] # Null =>
         /\ Mapped(ptr[h].at, ptr[h].p)
         /\ Backs(view[ptr[h].at][ptr[h].p].author, ptr[h].p)
    /\ \A m \in pap : Backs(m.author, m.p)

(* The asserts of the daemon never fail, at whatever moment it reads a     *)
(* request: the executor it was addressed to still is the author.          *)
DaemonAsserts == \A r \in dmn : Serviceable(r)

(* The assert of local_load never fails: an author that holds a public     *)
(* pointer has its memory.                                                 *)
HolderAsserts ==
    \A h \in Handle : ptr[h] # Null =>
        LET e == ptr[h].at
            a == ptr[h].p
        IN  Mapped(e, a) /\ (AmAuthor(e, a) => Backs(e, a))

(* A user thread gets the answer to its own question.  Remote loads and    *)
(* remote counts come back on the same link and carry no mark; and what    *)
(* local() gets is the content of the memory.                              *)
AnswersMatch ==
    \A s \in mem :
        /\ IsAsking(s.to) /\ busy[s.to].op = s.op /\ busy[s.to].to = s.from
        /\ \A t \in mem : t.to = s.to => t = s
        /\ s.op = "RLOAD" =>
             s.value = heap[s.from][view[s.from][busy[s.to].p].committed]
        /\ s.op = "RC_GET" => s.value \in 0 .. RcRange - 1

(* ref_cnt is an unordered_map whose lock is commented out, and            *)
(* "concurrent" by the comment at its declaration: the user thread inserts *)
(* no key (rc_init of a new address) while the daemon of the executor may  *)
(* be looking up another one for a request that has arrived.               *)
CountTableRaceFree ==
    [][\A e \in Executor :
           (\E a \in Address : rc[e][a] = Null /\ rc'[e][a] # Null) =>
               \A r \in dmn : r.to = e => r.op \notin {"RC_INC", "RC_DEC", "RC_GET"}]_vars

-----------------------------------------------------------------------------
(* Liveness *)

(* Memory nobody refers to is freed, whoever dropped the last reference. *)
Reclaimed ==
    \A a \in Address :
        References(a) = {} ~> (References(a) # {} \/ \A e \in Executor : ~Backs(e, a))

-----------------------------------------------------------------------------
(* Counted references implement shared memory *)

ContentOf(a) ==
    IF \E e \in Executor : Backs(e, a)
    THEN LET e == CHOOSE e \in Executor : Backs(e, a)
         IN  heap[e][view[e][a].committed]
    ELSE Null

Counts   == [a \in Address |-> Cardinality(References(a))]
Contents == [a \in Address |-> ContentOf(a)]

Memory == INSTANCE SharedMemory WITH
    NoValue <- Null, references <- Counts, content <- Contents

(* However references are copied, pushed, pulled and dropped, an           *)
(* application sees one immutable location that lives exactly as long as   *)
(* somebody refers to it.                                                  *)
ImplementsMemory == Memory!Spec
=============================================================================
