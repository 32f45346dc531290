-------------------------- MODULE PublicPtrProofs --------------------------
(***************************************************************************)
(* The safety of public pointers that are dropped only when everything is  *)
(* counted, for every number of executors, addresses, references, blocks   *)
(* and values: IInv of PublicCounted is inductive, and implies the         *)
(* properties of PublicPtr that the runs check on small instances.         *)
(*                                                                         *)
(* There is one lemma per action, or per branch of one.  Each first states *)
(* what the step does to the three sets that are counted (Refs, Unc and    *)
(* Unrel), then proves the conjuncts of IInv it can disturb.  The last     *)
(* part shows that PublicPtr then implements SharedMemory.                 *)
(***************************************************************************)
EXTENDS PublicCounted, FiniteSetTheorems, TLAPS

-----------------------------------------------------------------------------
(* Types *)

(* What TypeOK says of the parts of every pointer, entry and message: the  *)
(* form the proofs use it in.                                              *)
TypedTables ==
  /\ \A e \in Executor, a \in Address : Mapped(e, a) =>
        /\ view[e][a] \in Entry
        /\ view[e][a].committed \in Cell \cup {Null}
        /\ view[e][a].child \in Cell \cup {Null}
        /\ view[e][a].author \in Executor
  /\ \A e \in Executor, a \in Address : IsHome(e, a) =>
        rc[e][a] \in Nat /\ rc[e][a] < RcRange

TypedUsers ==
  /\ \A h \in Handle : ptr[h] # Null =>
        ptr[h] \in Pointer /\ ptr[h].p \in Address /\ ptr[h].at \in Executor
  /\ \A e \in Executor : IsPushing(e) =>
        busy[e].p \in Address /\ busy[e].ref \in Handle
  /\ \A e \in Executor : IsAsking(e) =>
        /\ busy[e].op \in {"RLOAD", "RC_GET"}
        /\ busy[e].p \in Address /\ busy[e].to \in Executor

TypedPap ==
  \A m \in pap : /\ m.from \in Executor /\ m.to \in Executor /\ m.p \in Address
                 /\ m.author \in Executor /\ m.ref \in Handle

TypedDmn ==
  \A r \in dmn : /\ r.from \in Executor /\ r.to \in Executor /\ r.p \in Address
                 /\ r.op \in {"RC_INC", "RC_DEC", "RLOAD", "RC_GET"}
                 /\ r.op \in {"RC_INC", "RC_DEC"} => r.ref \in Handle

TypedMem ==
  \A s \in mem : /\ s.op \in {"RLOAD", "RC_GET"}
                 /\ s.from \in Executor /\ s.to \in Executor

Typed == TypedTables /\ TypedUsers /\ TypedPap /\ TypedDmn /\ TypedMem

(* Type correctness, read off pointwise.                                   *)
LEMMA TypeFacts == TypeOK => Typed
<1> SUFFICES ASSUME TypeOK PROVE Typed OBVIOUS
<1> USE DEF TypeOK
<1>1. ASSUME NEW e \in Executor, NEW a \in Address, Mapped(e, a)
      PROVE  /\ view[e][a] \in Entry
             /\ view[e][a].committed \in Cell \cup {Null}
             /\ view[e][a].child \in Cell \cup {Null}
             /\ view[e][a].author \in Executor
  <2>1. view[e][a] \in Entry BY <1>1 DEF TableTypeOK, Mapped
  <2> QED BY <2>1 DEF Entry
<1>2. ASSUME NEW h \in Handle, ptr[h] # Null
      PROVE  ptr[h] \in Pointer /\ ptr[h].p \in Address /\ ptr[h].at \in Executor
  <2>1. ptr[h] \in Pointer BY <1>2
  <2> QED BY <2>1 DEF Pointer
<1>3. ASSUME NEW e \in Executor, NEW a \in Address, IsHome(e, a)
      PROVE  rc[e][a] \in Nat /\ rc[e][a] < RcRange
  <2>1. rc[e][a] \in 0 .. RcRange - 1 BY <1>3 DEF IsHome
  <2> QED BY <2>1, ApplicationAssumption
<1>4. ASSUME NEW e \in Executor, IsPushing(e)
      PROVE  busy[e].p \in Address /\ busy[e].ref \in Handle
  BY <1>4 DEF IsPushing, Pushing, Asking
<1>5. ASSUME NEW e \in Executor, IsAsking(e)
      PROVE  /\ busy[e].op \in {"RLOAD", "RC_GET"}
             /\ busy[e].p \in Address /\ busy[e].to \in Executor
  BY <1>5 DEF IsAsking, Pushing, Asking
<1>6. ASSUME NEW m \in pap
      PROVE  /\ m.from \in Executor /\ m.to \in Executor /\ m.p \in Address
             /\ m.author \in Executor /\ m.ref \in Handle
  BY DEF Capability
<1>7. ASSUME NEW r \in dmn
      PROVE  /\ r.from \in Executor /\ r.to \in Executor /\ r.p \in Address
             /\ r.op \in {"RC_INC", "RC_DEC", "RLOAD", "RC_GET"}
             /\ r.op \in {"RC_INC", "RC_DEC"} => r.ref \in Handle
  BY DEF Request
<1>8. ASSUME NEW s \in mem
      PROVE  /\ s.op \in {"RLOAD", "RC_GET"}
             /\ s.from \in Executor /\ s.to \in Executor
  BY DEF Answer
<1> QED BY <1>1, <1>2, <1>3, <1>4, <1>5, <1>6, <1>7, <1>8
   DEF Typed, TypedTables, TypedUsers, TypedPap, TypedDmn, TypedMem

-----------------------------------------------------------------------------
(* Counting *)

(* Sets of references are finite, and one more or one less changes their   *)
(* number by one.                                                          *)
LEMMA Sizes ==
  ASSUME NEW S \in SUBSET Handle
  PROVE  /\ Cardinality(S) \in Nat /\ Cardinality(S) <= Cardinality(Handle)
         /\ Cardinality(Handle) \in Nat
         /\ Cardinality(S) = 0 <=> S = {}
         /\ \A h \in Handle \ S : Cardinality(S \cup {h}) = Cardinality(S) + 1
         /\ \A h \in S : Cardinality(S \ {h}) = Cardinality(S) - 1
<1>1. IsFiniteSet(Handle) BY ApplicationAssumption
<1>2. IsFiniteSet(S) /\ Cardinality(S) <= Cardinality(Handle)
  BY <1>1, FS_Subset
<1> QED BY <1>1, <1>2, FS_CardinalityType, FS_EmptySet, FS_AddElement, FS_RemoveElement

(* A proper part of a set of references has fewer members.                 *)
LEMMA Fewer ==
  ASSUME NEW S \in SUBSET Handle, NEW T \in SUBSET S
  PROVE  /\ Cardinality(T) <= Cardinality(S)
         /\ T # S => Cardinality(T) < Cardinality(S)
<1>1. IsFiniteSet(S) BY FS_Subset, ApplicationAssumption
<1>2. T \in SUBSET Handle OBVIOUS
<1>3. Cardinality(S) \in Nat /\ Cardinality(T) \in Nat BY <1>2, Sizes
<1> QED BY <1>1, <1>3, FS_Subset

(* The three sets are sets of references.                                  *)
LEMMA Subsets ==
  /\ Refs \in [Address -> SUBSET Handle]
  /\ Unc \in [Address -> SUBSET Handle]
  /\ Unrel \in [Address -> SUBSET Handle]
BY DEF Refs, References, Held, Sent, Unc, Uncounted, Unrel, Unreleased,
       Counting, InPush

(* A reference that is not counted yet still exists.                       *)
LEMMA UncountedAlive ==
  ASSUME Pending, NEW a \in Address
  PROVE  Unc[a] \subseteq Refs[a]
BY DEF Pending, Unc, Uncounted, Counting, InPush

(* The counts below which a counter of the code does not wrap.             *)
LEMMA NoWrap ==
  ASSUME NEW n \in Nat
  PROVE  /\ n < RcRange => n % RcRange = n
         /\ n + 1 <= 2 * Cardinality(Handle) => Incremented(n) = n + 1
         /\ n > 0 /\ n < RcRange => Decremented(n) = n - 1
<1>1. RcRange \in Nat /\ RcRange > 2 * Cardinality(Handle) /\ Cardinality(Handle) \in Nat
  BY ApplicationAssumption, FS_CardinalityType
<1>2. ASSUME NEW k \in Nat, k < RcRange PROVE k % RcRange = k
  BY <1>1, <1>2
<1>3. n + 1 <= 2 * Cardinality(Handle) => Incremented(n) = n + 1
  BY <1>1, <1>2 DEF Incremented
<1>4. ASSUME n > 0, n < RcRange PROVE Decremented(n) = n - 1
  <2>1. n - 1 \in Nat /\ n - 1 < RcRange BY <1>1, <1>4
  <2> QED BY <2>1, <1>2 DEF Decremented
<1> QED BY <1>2, <1>3, <1>4

(* The size of the count at the home of an address: it is not zero as long *)
(* as there is a reference, or one that is dropped and not discounted, and *)
(* leaves room for one more as long as one is not counted.                 *)
LEMMA Count ==
  ASSUME IInv, NEW e \in Executor, NEW a \in Address, IsHome(e, a)
  PROVE  /\ rc[e][a] \in Nat /\ rc[e][a] < RcRange
         /\ rc[e][a] + Cardinality(Unc[a]) =
               Cardinality(Refs[a]) + Cardinality(Unrel[a])
         /\ Cardinality(Unc[a]) <= Cardinality(Refs[a])
         /\ Refs[a] # {} => rc[e][a] > 0
         /\ Unrel[a] # {} => rc[e][a] > 0
         /\ rc[e][a] = 0 => Refs[a] = {} /\ Unrel[a] = {}
<1>1. rc[e][a] \in Nat /\ rc[e][a] < RcRange
  BY TypeFacts DEF IInv, Typed, TypedTables
<1>2. rc[e][a] + Cardinality(Unc[a]) =
        Cardinality(Refs[a]) + Cardinality(Unrel[a])
  BY DEF IInv, Exact
<1>3. Unc[a] \in SUBSET Refs[a] BY UncountedAlive DEF IInv
<1>4. /\ Cardinality(Unc[a]) <= Cardinality(Refs[a])
      /\ Unc[a] # Refs[a] =>
           Cardinality(Unc[a]) < Cardinality(Refs[a])
  BY <1>3, Subsets, Fewer
<1>5. Refs[a] # {} => Unc[a] # Refs[a]
  BY DEF IInv, Anchored
<1>6. /\ Cardinality(Refs[a]) \in Nat /\ Cardinality(Unc[a]) \in Nat
      /\ Cardinality(Unrel[a]) \in Nat
      /\ Unrel[a] # {} => Cardinality(Unrel[a]) # 0
  BY Subsets, Sizes
<1> QED BY <1>1, <1>2, <1>4, <1>5, <1>6

(* As long as there is a reference, or a release under way, the home of    *)
(* the address has the memory.                                             *)
LEMMA Alive ==
  ASSUME IInv, NEW e \in Executor, NEW a \in Address, IsHome(e, a),
         Refs[a] # {} \/ Unrel[a] # {}
  PROVE  Backs(e, a) /\ AmAuthor(e, a) /\ view[e][a].author = e
<1>1. Backs(e, a) BY Count DEF IInv, Counted
<1>2. view[e][a].author = e
  BY <1>1, TypeFacts DEF IInv, Typed, TypedTables, Authors, Backs
<1> QED BY <1>1, <1>2 DEF Backs, AmAuthor
-----------------------------------------------------------------------------
(* What the parts of a step do to the three sets *)

(* Updates, as operators: the provers compare them as they stand.          *)
Put(f, i, x)   == [f EXCEPT ![i] = x]
Plus(f, i, h)  == [f EXCEPT ![i] = @ \cup {h}]
Minus(f, i, h) == [f EXCEPT ![i] = @ \ {h}]
Recounted(f, e, a, n) == [f EXCEPT ![e][a] = n]

(* A fresh handle names nothing yet.                                       *)
LEMMA FreshFacts ==
  ASSUME TypeOK, NEW k \in FreshHandles
  PROVE  /\ k \in Handle /\ ptr[k] = Null
         /\ \A m \in pap : m.ref # k
         /\ \A r \in dmn : r.op \in {"RC_INC", "RC_DEC"} => r.ref # k
         /\ \A e \in Executor : IsPushing(e) => busy[e].ref # k
         /\ \A a \in Address : k \notin Refs[a] /\ k \notin Unc[a] /\ k \notin Unrel[a]
<1>1. /\ k \in Handle
      /\ \A a \in Address : /\ k \notin References(a) /\ k \notin Uncounted(a)
                            /\ k \notin Unreleased(a)
  BY DEF FreshHandles
<1>2. ptr[k] = Null /\ \A m \in pap : m.ref # k
  BY <1>1, TypeFacts DEF Typed, TypedUsers, TypedPap, References, Held, Sent
<1>3. /\ \A r \in dmn : r.op \in {"RC_INC", "RC_DEC"} => r.ref # k
      /\ \A e \in Executor : IsPushing(e) => busy[e].ref # k
  BY <1>1, TypeFacts
     DEF Typed, TypedUsers, TypedDmn, Uncounted, Unreleased, Counting, InPush
<1> QED BY <1>1, <1>2, <1>3 DEF Refs, Unc, Unrel

(* Before and after a step, the three sets are functions of the address.   *)
LEMMA RefsFunction ==
  /\ Refs = [b \in Address |-> Refs[b]] /\ Refs' = [b \in Address |-> Refs'[b]]
  /\ Unc = [b \in Address |-> Unc[b]] /\ Unc' = [b \in Address |-> Unc'[b]]
  /\ Unrel = [b \in Address |-> Unrel[b]] /\ Unrel' = [b \in Address |-> Unrel'[b]]
BY DEF Refs, Unc, Unrel

(* A pointer object made with a fresh handle is one more reference.        *)
LEMMA ObjectMade ==
  ASSUME TypeOK, NEW k \in FreshHandles, NEW x \in Pointer,
         NEW a \in Address, x.p = a,
         ptr' = Put(ptr, k, x), pap' = pap
  PROVE  /\ ptr' \in [Handle -> Pointer \cup {Null}]
         /\ \A h \in Handle : ptr'[h] = IF h = k THEN x ELSE ptr[h]
         /\ x # Null
         /\ Refs' = Plus(Refs, a, k)
<1>1. k \in Handle /\ ptr[k] = Null BY FreshFacts
<1>2. ptr \in [Handle -> Pointer \cup {Null}] BY DEF TypeOK
<1>3. x # Null BY BusyAssumption
<1>4. \A h \in Handle : ptr'[h] = IF h = k THEN x ELSE ptr[h]
  BY <1>1, <1>2 DEF Put
<1>5. Refs' = Plus(Refs, a, k)
  <2>1. \A b \in Address : Refs'[b] = IF b = a THEN Refs[b] \cup {k} ELSE Refs[b]
    BY <1>1, <1>3, <1>4 DEF Refs, References, Held, Sent
  <2> QED BY <2>1, RefsFunction DEF Plus, Minus
<1>6. ptr' \in [Handle -> Pointer \cup {Null}] BY <1>2 DEF Put
<1> QED BY <1>3, <1>4, <1>5, <1>6

(* A pointer object that is dropped is one reference less.                 *)
LEMMA ObjectGone ==
  ASSUME IInv, NEW h \in Handle, NEW a \in Address, ptr[h] # Null, ptr[h].p = a,
         ptr' = Put(ptr, h, Null), pap' = pap
  PROVE  /\ ptr' \in [Handle -> Pointer \cup {Null}]
         /\ \A k \in Handle : ptr'[k] = IF k = h THEN Null ELSE ptr[k]
         /\ h \in Refs[a]
         /\ Refs' = Minus(Refs, a, h)
<1>1. ptr \in [Handle -> Pointer \cup {Null}] BY DEF IInv, TypeOK
<1>2. \A m \in pap : m.ref # h BY DEF IInv, Handles
<1>3. \A k \in Handle : ptr'[k] = IF k = h THEN Null ELSE ptr[k]
  BY <1>1 DEF Put
<1>4. h \in Refs[a] BY DEF Refs, References, Held
<1>5. Refs' = Minus(Refs, a, h)
  <2>1. \A b \in Address : Refs'[b] = IF b = a THEN Refs[b] \ {h} ELSE Refs[b]
    BY <1>2, <1>3 DEF Refs, References, Held, Sent
  <2> QED BY <2>1, RefsFunction DEF Plus, Minus
<1>6. ptr' \in [Handle -> Pointer \cup {Null}] BY <1>1 DEF Put
<1> QED BY <1>3, <1>4, <1>5, <1>6

(* No address gets another home; no count of another address changes.      *)
SameHomes == \A f \in Executor, b \in Address : rc'[f][b] = Null <=> rc[f][b] = Null
OtherCounts(a) == \A f \in Executor, b \in Address : b # a => rc'[f][b] = rc[f][b]

(* A count that has one more room is one higher, and nothing else is.      *)
LEMMA CountedUp ==
  ASSUME IInv, NEW e \in Executor, NEW a \in Address, IsHome(e, a),
         rc[e][a] + 1 <= 2 * Cardinality(Handle),
         rc' = Recounted(rc, e, a, Incremented(rc[e][a]))
  PROVE  /\ rc' \in [Executor -> [Address -> 0 .. RcRange - 1 \cup {Null}]]
         /\ SameHomes /\ OtherCounts(a)
         /\ rc'[e][a] = rc[e][a] + 1
         /\ \A f \in Executor, b \in Address :
               f # e \/ b # a => rc'[f][b] = rc[f][b]
<1>1. rc \in [Executor -> [Address -> 0 .. RcRange - 1 \cup {Null}]]
  BY DEF IInv, TypeOK
<1>2. rc[e][a] \in Nat BY TypeFacts DEF IInv, Typed, TypedTables
<1>3. Incremented(rc[e][a]) = rc[e][a] + 1 BY <1>2, NoWrap
<1>4. RcRange \in Nat /\ RcRange > 2 * Cardinality(Handle)
  BY ApplicationAssumption
<1>5. Cardinality(Handle) \in Nat BY ApplicationAssumption, FS_CardinalityType
<1>6. rc[e][a] + 1 \in 0 .. RcRange - 1 BY <1>2, <1>4, <1>5
<1>7. rc' = Recounted(rc, e, a, rc[e][a] + 1) BY <1>3
<1>8. rc[e][a] + 1 # Null BY <1>6, ApplicationAssumption
<1> QED BY <1>1, <1>6, <1>7, <1>8 DEF IsHome, Recounted, SameHomes, OtherCounts

(* A count that is not zero is one lower, and nothing else is.             *)
LEMMA CountedDown ==
  ASSUME IInv, NEW e \in Executor, NEW a \in Address, IsHome(e, a),
         rc[e][a] > 0,
         rc' = Recounted(rc, e, a, Decremented(rc[e][a]))
  PROVE  /\ rc' \in [Executor -> [Address -> 0 .. RcRange - 1 \cup {Null}]]
         /\ SameHomes /\ OtherCounts(a)
         /\ rc'[e][a] = rc[e][a] - 1 /\ Decremented(rc[e][a]) = rc[e][a] - 1
         /\ \A f \in Executor, b \in Address :
               f # e \/ b # a => rc'[f][b] = rc[f][b]
<1>1. rc \in [Executor -> [Address -> 0 .. RcRange - 1 \cup {Null}]]
  BY DEF IInv, TypeOK
<1>2. rc[e][a] \in Nat /\ rc[e][a] < RcRange
  BY TypeFacts DEF IInv, Typed, TypedTables
<1>3. Decremented(rc[e][a]) = rc[e][a] - 1 BY <1>2, NoWrap
<1>4. RcRange \in Nat BY ApplicationAssumption
<1>5. rc[e][a] - 1 \in 0 .. RcRange - 1 BY <1>2, <1>4
<1>6. rc' = Recounted(rc, e, a, rc[e][a] - 1) BY <1>3
<1>7. rc[e][a] - 1 # Null BY <1>5, ApplicationAssumption
<1> QED BY <1>1, <1>3, <1>5, <1>6, <1>7
   DEF IsHome, Recounted, SameHomes, OtherCounts

(* A step that touches the references to one address only keeps the counts *)
(* exact if it keeps this one exact.                                       *)
LEMMA OneAddress ==
  ASSUME IInv, NEW e \in Executor, NEW a \in Address, IsHome(e, a),
         SameHomes, OtherCounts(a),
         NEW R, Refs' = Put(Refs, a, R),
         NEW U, Unc' = Put(Unc, a, U),
         NEW D, Unrel' = Put(Unrel, a, D),
         rc'[e][a] + Cardinality(U) = Cardinality(R) + Cardinality(D),
         R # {} => ~ R \subseteq U
  PROVE  Exact' /\ Anchored'
<1>1. /\ Refs'[a] = R /\ Unc'[a] = U /\ Unrel'[a] = D
      /\ \A b \in Address : b # a => /\ Refs'[b] = Refs[b] /\ Unc'[b] = Unc[b]
                                     /\ Unrel'[b] = Unrel[b]
  BY Subsets DEF Put
<1>2. Exact'
  <2> SUFFICES ASSUME NEW f \in Executor, NEW b \in Address, rc'[f][b] # Null
               PROVE  rc'[f][b] + Cardinality(Unc'[b]) =
                        Cardinality(Refs'[b]) + Cardinality(Unrel'[b])
    BY DEF Exact, IsHome
  <2>1. IsHome(f, b) BY DEF IsHome, SameHomes
  <2>2. CASE b = a
    <3>1. f = e BY <2>1, <2>2 DEF IInv, Authors
    <3> QED BY <3>1, <2>2, <1>1
  <2>3. CASE b # a
    BY <2>1, <2>3, <1>1 DEF IInv, Exact, OtherCounts
  <2> QED BY <2>2, <2>3
<1>3. Anchored'
  BY <1>1 DEF IInv, Anchored
<1> QED BY <1>2, <1>3

(* A request to the author of a mapped address is sent to its home.        *)
LEMMA RequestTyped ==
  ASSUME IInv, NEW e \in Executor, NEW a \in Address, Mapped(e, a),
         NEW op \in {"RC_INC", "RC_DEC", "RLOAD", "RC_GET"},
         NEW h \in Handle \cup {Null},
         h \in Handle <=> op \in {"RC_INC", "RC_DEC"},
         NEW r, r = RequestTo(op, e, a, h),
         dmn' = dmn \cup {r}
  PROVE  /\ r.op = op /\ r.from = e /\ r.p = a /\ r.ref = h
         /\ r.to = view[e][a].author /\ r.to \in Executor /\ IsHome(r.to, a)
         /\ dmn' \subseteq Request
<1>1. r.op = op /\ r.from = e /\ r.p = a /\ r.ref = h /\ r.to = view[e][a].author
  BY DEF RequestTo
<1>2. r.to \in Executor /\ IsHome(r.to, a)
  BY <1>1 DEF IInv, Authors
<1>3. r \in Request
  <2>1. CASE op \in {"RC_INC", "RC_DEC"}
    BY <2>1, <1>1, <1>2 DEF RequestTo, Request
  <2>2. CASE op \in {"RLOAD", "RC_GET"}
    <3>1. h = Null BY <2>2
    <3> QED BY <3>1, <2>2, <1>1, <1>2 DEF RequestTo, Request
  <2> QED BY <2>1, <2>2
<1>4. dmn' \subseteq Request BY <1>3 DEF IInv, TypeOK
<1> QED BY <1>1, <1>2, <1>4

(* What a new request does to the sets: RC_INC leaves its reference to be  *)
(* counted, RC_DEC to be discounted.                                       *)
LEMMA RequestMade ==
  ASSUME NEW r, dmn' = dmn \cup {r}, busy' = busy,
         NEW a \in Address, r.p = a, NEW h, r.ref = h
  PROVE  /\ r.op = "RC_INC" /\ h \in Handle =>
              Unc' = Plus(Unc, a, h) /\ Unrel' = Unrel
         /\ r.op = "RC_DEC" /\ h \in Handle =>
              Unc' = Unc /\ Unrel' = Plus(Unrel, a, h)
         /\ r.op \in {"RLOAD", "RC_GET"} => Unc' = Unc /\ Unrel' = Unrel
<1>1. \A b \in Address : InPush(b)' = InPush(b) BY DEF InPush, IsPushing
<1>2. CASE r.op = "RC_INC" /\ h \in Handle
  <2>1. \A b \in Address :
          /\ Unc'[b] = IF b = a THEN Unc[b] \cup {h} ELSE Unc[b]
          /\ Unrel'[b] = Unrel[b]
    BY <1>1, <1>2 DEF Unc, Uncounted, Unrel, Unreleased, Counting
  <2> QED BY <2>1, <1>2, RefsFunction DEF Plus
<1>3. CASE r.op = "RC_DEC" /\ h \in Handle
  <2>1. \A b \in Address :
          /\ Unrel'[b] = IF b = a THEN Unrel[b] \cup {h} ELSE Unrel[b]
          /\ Unc'[b] = Unc[b]
    BY <1>1, <1>3 DEF Unc, Uncounted, Unrel, Unreleased, Counting
  <2> QED BY <2>1, <1>3, RefsFunction DEF Plus
<1>4. CASE r.op \in {"RLOAD", "RC_GET"}
  <2>1. \A b \in Address : Unrel'[b] = Unrel[b] /\ Unc'[b] = Unc[b]
    BY <1>1, <1>4 DEF Unc, Uncounted, Unrel, Unreleased, Counting
  <2> QED BY <2>1, <1>4, RefsFunction
<1> QED BY <1>2, <1>3, <1>4

(* A request that the daemon has read is gone from the sets.               *)
LEMMA RequestDone ==
  ASSUME IInv, NEW r \in dmn, dmn' = dmn \ {r}, busy' = busy,
         NEW a \in Address, r.p = a, NEW h, r.ref = h
  PROVE  /\ dmn' \subseteq Request
         /\ r.op = "RC_INC" =>
              /\ h \in Handle /\ h \in Unc[a]
              /\ Unc' = Minus(Unc, a, h) /\ Unrel' = Unrel
         /\ r.op = "RC_DEC" =>
              /\ h \in Handle /\ h \in Unrel[a]
              /\ Unc' = Unc /\ Unrel' = Minus(Unrel, a, h)
         /\ r.op \in {"RLOAD", "RC_GET"} => Unc' = Unc /\ Unrel' = Unrel
<1>1. dmn' \subseteq Request BY DEF IInv, TypeOK
<1>2. \A b \in Address : InPush(b)' = InPush(b) BY DEF InPush, IsPushing
<1>3. \A q \in dmn : /\ q.op = r.op /\ r.op \in {"RC_INC", "RC_DEC"} /\ q.ref = h
                     => q = r
  BY DEF IInv, Handles
<1>4. CASE r.op = "RC_INC"
  <2>1. h \in Handle BY <1>4, TypeFacts DEF IInv, Typed, TypedDmn
  <2>2. h \in Unc[a] BY <1>4, <2>1 DEF Unc, Uncounted, Counting
  <2>3. \A b \in Address : h \notin InPush(b)
    BY <1>4 DEF IInv, Pending, InPush
  <2>4. \A b \in Address :
          /\ Unc'[b] = IF b = a THEN Unc[b] \ {h} ELSE Unc[b]
          /\ Unrel'[b] = Unrel[b]
    BY <1>2, <1>3, <1>4, <2>3 DEF Unc, Uncounted, Unrel, Unreleased, Counting
  <2> QED BY <1>1, <1>4, <2>1, <2>2, <2>4, RefsFunction DEF Minus
<1>5. CASE r.op = "RC_DEC"
  <2>1. h \in Handle BY <1>5, TypeFacts DEF IInv, Typed, TypedDmn
  <2>2. h \in Unrel[a] BY <1>5, <2>1 DEF Unrel, Unreleased, Counting
  <2>3. \A b \in Address :
          /\ Unrel'[b] = IF b = a THEN Unrel[b] \ {h} ELSE Unrel[b]
          /\ Unc'[b] = Unc[b]
    BY <1>2, <1>3, <1>5 DEF Unc, Uncounted, Unrel, Unreleased, Counting
  <2> QED BY <1>1, <1>5, <2>1, <2>2, <2>3, RefsFunction DEF Minus
<1>6. CASE r.op \in {"RLOAD", "RC_GET"}
  <2>1. \A b \in Address : Unrel'[b] = Unrel[b] /\ Unc'[b] = Unc[b]
    BY <1>2, <1>6 DEF Unc, Uncounted, Unrel, Unreleased, Counting
  <2> QED BY <1>1, <1>6, <2>1, RefsFunction
<1>7. r.op \in {"RC_INC", "RC_DEC", "RLOAD", "RC_GET"}
  BY TypeFacts DEF IInv, Typed, TypedDmn
<1> QED BY <1>4, <1>5, <1>6, <1>7

(* A user thread that is done with its push: the reference is counted, or  *)
(* a request to count it is under way.                                     *)
LEMMA PushDone ==
  ASSUME IInv, NEW e \in Executor, NEW a \in Address, NEW k \in Handle,
         IsPushing(e), busy[e].p = a, busy[e].ref = k,
         busy' = Put(busy, e, Null)
  PROVE  /\ busy' \in [Executor -> Pushing \cup Asking \cup {Null}]
         /\ busy'[e] = Null /\ \A f \in Executor : f # e => busy'[f] = busy[f]
         /\ k \in Unc[a] /\ k \in Refs[a]
         /\ dmn' = dmn =>
              Unc' = Minus(Unc, a, k) /\ Unrel' = Unrel
         /\ \A r : r.op = "RC_INC" /\ r.p = a /\ r.ref = k /\ dmn' = dmn \cup {r} =>
              Unc' = Unc /\ Unrel' = Unrel
<1>1. busy \in [Executor -> Pushing \cup Asking \cup {Null}]
  BY DEF IInv, TypeOK
<1>2. busy'[e] = Null /\ \A f \in Executor : f # e => busy'[f] = busy[f]
  BY <1>1 DEF Put
<1>3. \A f \in Executor : IsPushing(f) /\ busy[f].ref = k => f = e
  BY DEF IInv, Pending
<1>4. k \in Unc[a] /\ k \in Refs[a]
  BY DEF Unc, Uncounted, InPush, IInv, Pending
<1>5. \A b \in Address : k \notin Counting("RC_INC", b)
  BY DEF Counting, IInv, Pending
<1>6. \A b \in Address : InPush(b)' = IF b = a THEN InPush(b) \ {k} ELSE InPush(b)
  BY <1>2, <1>3 DEF InPush, IsPushing
<1>7. k \in InPush(a) BY DEF InPush
<1>8. ASSUME dmn' = dmn
      PROVE  Unc' = Minus(Unc, a, k) /\ Unrel' = Unrel
  <2>1. \A b \in Address :
          /\ Unc'[b] = IF b = a THEN Unc[b] \ {k} ELSE Unc[b]
          /\ Unrel'[b] = Unrel[b]
    BY <1>5, <1>6, <1>8 DEF Unc, Uncounted, Unrel, Unreleased, Counting
  <2> QED BY <2>1, RefsFunction DEF Plus, Minus
<1>9. ASSUME NEW r, r.op = "RC_INC", r.p = a, r.ref = k, dmn' = dmn \cup {r}
      PROVE  Unc' = Unc /\ Unrel' = Unrel
  <2>1. \A b \in Address : Unc'[b] = Unc[b] /\ Unrel'[b] = Unrel[b]
    BY <1>6, <1>7, <1>9 DEF Unc, Uncounted, Unrel, Unreleased, Counting
  <2> QED BY <2>1, RefsFunction DEF Plus, Minus
<1>10. busy' \in [Executor -> Pushing \cup Asking \cup {Null}] BY <1>1 DEF Put
<1> QED BY <1>2, <1>4, <1>8, <1>9, <1>10

-----------------------------------------------------------------------------
(* Steps that change no entry *)

(* As long as no entry changes and no address gets another home, only new  *)
(* messages need to name the right home, and only counts that leave zero   *)
(* need memory.                                                            *)
LEMMA SameEntries ==
  ASSUME IInv, view' = view, heap' = heap, issued' = issued,
         SameHomes,
         \A f \in Executor, b \in Address : rc'[f][b] # rc[f][b] => Backs(f, b),
         \A m \in pap' \ pap : m.author \in Executor /\ m.p \in Address
                                /\ IsHome(m.author, m.p) /\ m.to # m.author,
         \A r \in dmn' \ dmn : r.to \in Executor /\ r.p \in Address
                                /\ IsHome(r.to, r.p)
  PROVE  Authors' /\ Counted' /\ Blocks'
<1>1. Typed BY TypeFacts DEF IInv
<1>2. \A m \in pap' : m.author \in Executor /\ m.p \in Address
                       /\ rc[m.author][m.p] # Null /\ m.to # m.author
  BY <1>1 DEF IInv, Authors, IsHome, Typed, TypedPap
<1>3. \A r \in dmn' : r.to \in Executor /\ r.p \in Address
                       /\ rc[r.to][r.p] # Null
  BY <1>1 DEF IInv, Authors, IsHome, Typed, TypedDmn
<1>4. Authors'
  <2>1. /\ \A f \in Executor, b \in Address : rc'[f][b] # Null => b \in issued'
        /\ \A f, g \in Executor, b \in Address :
              rc'[f][b] # Null /\ rc'[g][b] # Null => f = g
        /\ \A f \in Executor, b \in Address : view'[f][b] # Null =>
              /\ view'[f][b].author \in Executor
              /\ rc'[view'[f][b].author][b] # Null
              /\ view'[f][b].access_level = "public"
    BY DEF IInv, Authors, IsHome, Mapped, SameHomes
  <2>2. \A m \in pap' : rc'[m.author][m.p] # Null /\ m.to # m.author
    BY <1>2 DEF SameHomes
  <2>3. \A r \in dmn' : rc'[r.to][r.p] # Null BY <1>3 DEF SameHomes
  <2> QED BY <2>1, <2>2, <2>3 DEF Authors, IsHome, Mapped
<1>5. Counted'
  BY DEF IInv, Counted, IsHome, Backs, Mapped, SameHomes
<1>6. Blocks'
  BY DEF IInv, Blocks, Backs, Mapped, IsHome, SameHomes
<1> QED BY <1>4, <1>5, <1>6

(* As long as no executor starts or stops to wait for an answer, and who    *)
(* waits keeps its pointers and the memory it asked for, the answers match. *)
LEMMA SameQuestions ==
  ASSUME IInv, mem' = mem,
         \A f \in Executor : \/ busy'[f] = busy[f]
                             \/ /\ ~IsAsking(f)
                                /\ busy'[f] = Null \/ busy'[f].op = "push",
         SameHomes,
         \A j \in Handle : ptr[j] # Null /\ IsAsking(ptr[j].at) => ptr'[j] = ptr[j],
         \A r \in dmn' \ dmn : r.op \in {"RC_INC", "RC_DEC"},
         \A s \in mem : heap'[s.from][view'[s.from][busy[s.to].p].committed] =
                        heap[s.from][view[s.from][busy[s.to].p].committed]
  PROVE  Waiting' /\ AnswersMatch'
<1>1. Typed BY TypeFacts DEF IInv
<1>2. \A f \in Executor :
        /\ IsAsking(f) => busy'[f] = busy[f]
        /\ busy'[f] # Null /\ busy'[f].op # "push" => busy'[f] = busy[f] /\ IsAsking(f)
  BY DEF IsAsking
<1>3. Asks' \subseteq Asks BY DEF Asks
<1>4. \A r \in Asks : r.from \in Executor BY <1>1 DEF Asks, Typed, TypedDmn
<1>5. \A s \in mem : s.to \in Executor BY <1>1 DEF Typed, TypedMem
<1>6. ASSUME NEW f \in Executor, IsAsking(f)
      PROVE  /\ \E j \in Handle : ptr'[j] # Null /\ ptr'[j].at = f /\ ptr'[j].p = busy[f].p
             /\ rc'[busy[f].to][busy[f].p] # Null
  <2>1. /\ \E j \in Handle : HeldBy(f, j) /\ ptr[j].p = busy[f].p
        /\ IsHome(busy[f].to, busy[f].p)
    BY <1>6 DEF IInv, Waiting
  <2>2. busy[f].to \in Executor /\ busy[f].p \in Address
    BY <1>1, <1>6 DEF Typed, TypedUsers, IsAsking
  <2>3. rc'[busy[f].to][busy[f].p] # Null BY <2>1, <2>2 DEF SameHomes, IsHome
  <2>4. PICK j \in Handle : ptr[j] # Null /\ ptr[j].at = f /\ ptr[j].p = busy[f].p
    BY <2>1 DEF HeldBy
  <2> QED BY <2>3, <2>4, <1>6
<1>7. Waiting'
  <2>1. \A f \in Executor : busy'[f] # Null /\ busy'[f].op # "push" =>
          /\ \E j \in Handle : ptr'[j] # Null /\ ptr'[j].at = f /\ ptr'[j].p = busy'[f].p
          /\ rc'[busy'[f].to][busy'[f].p] # Null
    <3> TAKE f \in Executor
    <3> HAVE busy'[f] # Null /\ busy'[f].op # "push"
    <3>1. busy'[f] = busy[f] /\ IsAsking(f) BY <1>2
    <3>2. /\ \E j \in Handle : ptr'[j] # Null /\ ptr'[j].at = f /\ ptr'[j].p = busy[f].p
          /\ rc'[busy[f].to][busy[f].p] # Null
      BY <3>1, <1>6
    <3> QED BY <3>1, <3>2
  <2>2. \A r \in Asks' :
          /\ busy'[r.from] # Null /\ busy'[r.from].op # "push"
          /\ busy'[r.from] = [op |-> r.op, p |-> r.p, to |-> r.to]
    <3>1. \A r \in Asks : /\ IsAsking(r.from)
                          /\ busy[r.from] = [op |-> r.op, p |-> r.p, to |-> r.to]
      BY DEF IInv, Waiting
    <3>2. \A r \in Asks : busy'[r.from] = busy[r.from]
      BY <3>1, <1>2, <1>4
    <3> QED BY <3>1, <3>2, <1>3 DEF IsAsking
  <2>3. \A r, q \in Asks' : r.from = q.from => r = q
    BY <1>3 DEF IInv, Waiting
  <2>4. \A s \in mem' : \A r \in Asks' : r.from # s.to
    BY <1>3 DEF IInv, Waiting
  <2> QED BY <2>1, <2>2, <2>3, <2>4 DEF Waiting, IsAsking, HeldBy, IsHome
<1>8. AnswersMatch'
  <2>1. \A s \in mem :
          /\ busy'[s.to] # Null /\ busy'[s.to].op # "push"
          /\ busy'[s.to] = busy[s.to]
    <3>1. \A s \in mem : IsAsking(s.to) BY DEF IInv, AnswersMatch
    <3>2. \A s \in mem : busy'[s.to] = busy[s.to] BY <3>1, <1>2, <1>5
    <3> QED BY <3>1, <3>2 DEF IsAsking
  <2> SUFFICES ASSUME NEW s \in mem
               PROVE  /\ busy'[s.to].op = s.op /\ busy'[s.to].to = s.from
                      /\ \A t \in mem : t.to = s.to => t = s
                      /\ s.op = "RLOAD" =>
                           s.value = heap'[s.from][view'[s.from][busy'[s.to].p].committed]
                      /\ s.op = "RC_GET" => s.value \in 0 .. RcRange - 1
    BY <2>1 DEF AnswersMatch, IsAsking
  <2>2. /\ busy[s.to].op = s.op /\ busy[s.to].to = s.from
        /\ \A t \in mem : t.to = s.to => t = s
        /\ s.op = "RLOAD" =>
             s.value = heap[s.from][view[s.from][busy[s.to].p].committed]
        /\ s.op = "RC_GET" => s.value \in 0 .. RcRange - 1
    BY DEF IInv, AnswersMatch
  <2>3. busy'[s.to] = busy[s.to] BY <2>1
  <2> QED BY <2>2, <2>3
<1> QED BY <1>7, <1>8

-----------------------------------------------------------------------------
(* Copies *)

(* What is known of the pointer that is copied.                            *)
LEMMA CopyObject ==
  ASSUME IInv, NEW e \in Executor, NEW h \in Handle, HeldBy(e, h),
         NEW k \in FreshHandles, NEW x \in Pointer, x = ptr[h],
         NEW a \in Address, x.p = a,
         ptr' = Put(ptr, k, x), pap' = pap
  PROVE  /\ ptr' \in [Handle -> Pointer \cup {Null}]
         /\ \A j \in Handle : ptr'[j] = IF j = k THEN x ELSE ptr[j]
         /\ x # Null /\ x.at = e
         /\ Mapped(e, a) /\ h \in Refs[a]
         /\ Refs' = Plus(Refs, a, k)
<1>1. TypeOK BY DEF IInv
<1>2. Mapped(e, a) BY DEF IInv, Entries, HeldBy
<1>3. h \in Refs[a] BY DEF Refs, References, Held, HeldBy
<1>4. x # Null /\ x.at = e BY DEF HeldBy
<1> QED BY <1>1, <1>2, <1>3, <1>4, ObjectMade

(* A copy made by the author is counted at once.                           *)
LEMMA CopyHomeKeeps ==
  ASSUME IInv, NEW e \in Executor, NEW h \in Handle, Copy(e, h),
         AmAuthor(e, ptr[h].p)
  PROVE  IInv'
<1>1. /\ Running(e) /\ HeldBy(e, h)
      /\ issued' = issued /\ view' = view /\ parent' = parent /\ heap' = heap
      /\ busy' = busy /\ pap' = pap /\ mem' = mem
  BY DEF Copy, tableVars
<1>2. PICK x \in Pointer : x = ptr[h]
  BY <1>1, TypeFacts DEF IInv, Typed, TypedUsers, HeldBy
<1>3. PICK a \in Address : x.p = a BY DEF Pointer
<1>4. PICK k \in FreshHandles :
        /\ ptr' = Put(ptr, k, x)
        /\ rc' = Recounted(rc, e, a, Incremented(rc[e][a]))
        /\ dmn' = dmn
  BY <1>2, <1>3 DEF Copy, RcInc, Put, Recounted
<1>5. dmn' = dmn BY <1>4
<1>6. /\ ptr' \in [Handle -> Pointer \cup {Null}]
      /\ \A j \in Handle : ptr'[j] = IF j = k THEN x ELSE ptr[j]
      /\ x # Null /\ x.at = e /\ Mapped(e, a) /\ h \in Refs[a]
      /\ Refs' = Plus(Refs, a, k)
  BY <1>1, <1>2, <1>3, <1>4, CopyObject
<1>7. /\ k \in Handle /\ ptr[k] = Null
      /\ \A m \in pap : m.ref # k
      /\ \A r \in dmn : r.op \in {"RC_INC", "RC_DEC"} => r.ref # k
      /\ k \notin Refs[a] /\ k \notin Unc[a]
  BY FreshFacts DEF IInv
<1>8. Unc' = Unc /\ Unrel' = Unrel
  BY <1>1, <1>4 DEF Unc, Uncounted, Unrel, Unreleased, Counting, InPush, IsPushing
<1>9. IsHome(e, a) BY <1>2, <1>3 DEF AmAuthor, IInv, Authors
<1>10. rc[e][a] + 1 + Cardinality(Unc[a]) =
        Cardinality(Refs[a] \cup {k}) + Cardinality(Unrel[a])
  <2>1. Cardinality(Refs[a] \cup {k}) = Cardinality(Refs[a]) + 1
    BY <1>7, Subsets, Sizes
  <2>2. /\ Cardinality(Refs[a]) \in Nat /\ Cardinality(Unrel[a]) \in Nat
        /\ Cardinality(Unc[a]) \in Nat
    BY Subsets, Sizes
  <2> QED BY <2>1, <2>2, <1>9, Count
<1>11. rc[e][a] + 1 <= 2 * Cardinality(Handle)
  <2>1. Refs[a] \cup {k} \in SUBSET Handle /\ Unrel[a] \in SUBSET Handle
        /\ Unc[a] \in SUBSET Handle
    BY <1>7, Subsets
  <2> QED BY <2>1, <1>9, <1>10, Count, Sizes
<1>12. /\ rc' \in [Executor -> [Address -> 0 .. RcRange - 1 \cup {Null}]]
       /\ SameHomes /\ OtherCounts(a) /\ rc'[e][a] = rc[e][a] + 1
       /\ \A f \in Executor, b \in Address :
             f # e \/ b # a => rc'[f][b] = rc[f][b]
  BY <1>4, <1>9, <1>11, CountedUp
<1>13. TypeOK'
  BY <1>1, <1>5, <1>6, <1>12 DEF IInv, TypeOK, TableTypeOK
<1>14. Authors' /\ Counted' /\ Blocks'
  <2>1. Backs(e, a) BY <1>9, <1>6, Alive
  <2> QED BY <1>1, <1>5, <1>12, <2>1, SameEntries
<1>15. Entries'
  BY <1>1, <1>3, <1>6 DEF IInv, Entries, Mapped
<1>16. Handles'
  BY <1>1, <1>5, <1>6, <1>7, TypeFacts DEF IInv, Handles, Typed, TypedPap, TypedDmn
<1>17. Pending'
  BY <1>1, <1>5, <1>6, Subsets, TypeFacts
     DEF IInv, Pending, Typed, TypedDmn, TypedUsers, IsPushing, Plus
<1>18. Exact' /\ Anchored'
  <2>1. Unc' = Put(Unc, a, Unc[a]) /\ Unrel' = Put(Unrel, a, Unrel[a])
    BY <1>8, Subsets DEF Put
  <2>2. Refs' = Put(Refs, a, Refs[a] \cup {k}) BY <1>6 DEF Put, Plus
  <2>3. Refs[a] \cup {k} # {} => ~ (Refs[a] \cup {k}) \subseteq Unc[a]
    BY <1>6 DEF IInv, Anchored
  <2>4. rc'[e][a] + Cardinality(Unc[a]) =
          Cardinality(Refs[a] \cup {k}) + Cardinality(Unrel[a])
    BY <1>10, <1>12
  <2> QED BY <2>1, <2>2, <2>3, <2>4, <1>9, <1>12, OneAddress
<1>19. Waiting' /\ AnswersMatch'
  BY <1>1, <1>5, <1>6, <1>7, <1>12, SameQuestions
<1> QED BY <1>13, <1>14, <1>15, <1>16, <1>17, <1>18, <1>19 DEF IInv

(* One more reference that is not counted yet keeps the counts exact.      *)
LEMMA OneUncounted ==
  ASSUME IInv, NEW e \in Executor, NEW a \in Address, IsHome(e, a),
         \A f \in Executor, b \in Address : rc'[f][b] = rc[f][b],
         NEW k \in Handle, k \notin Refs[a], k \notin Unc[a], Refs[a] # {},
         Refs' = Plus(Refs, a, k), Unc' = Plus(Unc, a, k), Unrel' = Unrel
  PROVE  Exact' /\ Anchored'
<1>1. PICK R : R = Refs[a] \cup {k} OBVIOUS
<1>2. PICK U : U = Unc[a] \cup {k} OBVIOUS
<1>3. PICK D : D = Unrel[a] OBVIOUS
<1>4. Refs' = Put(Refs, a, R) /\ Unc' = Put(Unc, a, U) /\ Unrel' = Put(Unrel, a, D)
  BY <1>1, <1>2, <1>3, Subsets DEF Put, Plus
<1>5. rc'[e][a] + Cardinality(U) = Cardinality(R) + Cardinality(D)
  <2>1. /\ Cardinality(R) = Cardinality(Refs[a]) + 1
        /\ Cardinality(U) = Cardinality(Unc[a]) + 1
        /\ Cardinality(Refs[a]) \in Nat /\ Cardinality(Unc[a]) \in Nat
        /\ Cardinality(D) \in Nat
    BY <1>1, <1>2, <1>3, Subsets, Sizes
  <2> QED BY <2>1, <1>3, Count
<1>6. R # {} => ~ R \subseteq U
  BY <1>1, <1>2 DEF IInv, Anchored
<1>7. SameHomes /\ OtherCounts(a) BY DEF SameHomes, OtherCounts
<1> QED BY <1>4, <1>5, <1>6, <1>7, OneAddress

(* A copy made elsewhere is counted by a request to the author.            *)
LEMMA CopyAwayKeeps ==
  ASSUME IInv, NEW e \in Executor, NEW h \in Handle, Copy(e, h),
         ~AmAuthor(e, ptr[h].p)
  PROVE  IInv'
<1>1. /\ Running(e) /\ HeldBy(e, h)
      /\ issued' = issued /\ view' = view /\ parent' = parent /\ heap' = heap
      /\ busy' = busy /\ pap' = pap /\ mem' = mem
  BY DEF Copy, tableVars
<1>2. PICK x \in Pointer : x = ptr[h]
  BY <1>1, TypeFacts DEF IInv, Typed, TypedUsers, HeldBy
<1>3. PICK a \in Address : x.p = a BY DEF Pointer
<1>4. PICK k \in FreshHandles :
        /\ ptr' = Put(ptr, k, x)
        /\ rc' = rc
        /\ dmn' = dmn \cup {RequestTo("RC_INC", e, a, k)}
  BY <1>2, <1>3 DEF Copy, RcInc, Put
<1>5. /\ ptr' \in [Handle -> Pointer \cup {Null}]
      /\ \A j \in Handle : ptr'[j] = IF j = k THEN x ELSE ptr[j]
      /\ x # Null /\ x.at = e /\ Mapped(e, a) /\ h \in Refs[a]
      /\ Refs' = Plus(Refs, a, k)
  BY <1>1, <1>2, <1>3, <1>4, CopyObject
<1>6. /\ k \in Handle /\ ptr[k] = Null
      /\ \A m \in pap : m.ref # k
      /\ \A r \in dmn : r.op \in {"RC_INC", "RC_DEC"} => r.ref # k
      /\ \A f \in Executor : IsPushing(f) => busy[f].ref # k
      /\ k \notin Refs[a] /\ k \notin Unc[a]
  BY FreshFacts DEF IInv
<1>7. PICK r : r = RequestTo("RC_INC", e, a, k) OBVIOUS
<1>8. dmn' = dmn \cup {r} /\ rc' = rc BY <1>4, <1>7
<1>9. /\ r.op = "RC_INC" /\ r.p = a /\ r.ref = k
      /\ r.to \in Executor /\ IsHome(r.to, a) /\ dmn' \subseteq Request
  BY <1>5, <1>6, <1>7, <1>8, ApplicationAssumption, RequestTyped
<1>10. Unc' = Plus(Unc, a, k) /\ Unrel' = Unrel /\ SameHomes
  BY <1>1, <1>6, <1>8, <1>9, RequestMade DEF SameHomes
<1>11. TypeOK'
  BY <1>1, <1>5, <1>8, <1>9 DEF IInv, TypeOK, TableTypeOK
<1>12. Authors' /\ Counted' /\ Blocks'
  BY <1>1, <1>8, <1>9, <1>10, SameEntries
<1>13. Entries'
  BY <1>1, <1>3, <1>5 DEF IInv, Entries, Mapped
<1>14. Handles'
  BY <1>1, <1>5, <1>6, <1>8, <1>9, TypeFacts
     DEF IInv, Handles, Typed, TypedPap, TypedDmn
<1>15. Pending'
  BY <1>1, <1>5, <1>6, <1>8, <1>9, Subsets, TypeFacts
     DEF IInv, Pending, Typed, TypedDmn, TypedUsers, IsPushing, Plus
<1>16. Exact' /\ Anchored'
  BY <1>5, <1>6, <1>8, <1>9, <1>10, OneUncounted
<1>17. Waiting' /\ AnswersMatch'
  BY <1>1, <1>5, <1>6, <1>8, <1>9, <1>10, SameQuestions
<1> QED BY <1>11, <1>12, <1>13, <1>14, <1>15, <1>16, <1>17 DEF IInv

-----------------------------------------------------------------------------
(* Push *)

(* push() sends the pointer before it is counted: a reference that is not  *)
(* counted, as a copy made elsewhere.  It does not go to the author.       *)
LEMMA PushKeeps ==
  ASSUME IInv, NEW e \in Executor, NEW h \in Handle, NEW t \in Executor,
         Push(e, h, t), ~AuthorOf(h, t)
  PROVE  IInv'
<1>1. /\ Running(e) /\ HeldBy(e, h)
      /\ issued' = issued /\ view' = view /\ parent' = parent /\ heap' = heap
      /\ ptr' = ptr /\ rc' = rc /\ dmn' = dmn /\ mem' = mem
  BY DEF Push, tableVars
<1>2. PICK a \in Address : ptr[h].p = a
  BY <1>1, TypeFacts DEF IInv, Typed, TypedUsers, HeldBy
<1>3. PICK k \in FreshHandles :
        /\ pap' = pap \cup {[from |-> e, to |-> t, p |-> a,
                             author |-> view[e][a].author, ref |-> k]}
        /\ busy' = [busy EXCEPT ![e] = [op |-> "push", p |-> a, ref |-> k]]
  BY <1>2 DEF Push
<1>4. PICK m : m = [from |-> e, to |-> t, p |-> a,
                    author |-> view[e][a].author, ref |-> k]
  OBVIOUS
<1>5. /\ k \in Handle /\ ptr[k] = Null
      /\ \A n \in pap : n.ref # k
      /\ \A r \in dmn : r.op \in {"RC_INC", "RC_DEC"} => r.ref # k
      /\ \A f \in Executor : IsPushing(f) => busy[f].ref # k
      /\ k \notin Refs[a] /\ k \notin Unc[a]
  BY FreshFacts DEF IInv
<1>6. /\ Mapped(e, a) /\ h \in Refs[a]
      /\ view[e][a].author \in Executor /\ IsHome(view[e][a].author, a)
      /\ view[e][a].author # t
  BY <1>1, <1>2 DEF IInv, Entries, Authors, HeldBy, Refs, References, Held, AuthorOf
<1>7. /\ pap' = pap \cup {m} /\ m.p = a /\ m.ref = k /\ m.to = t
      /\ m.author \in Executor /\ IsHome(m.author, a) /\ m.to # m.author
      /\ m \in Capability
  BY <1>3, <1>4, <1>5, <1>6 DEF Capability
<1>8. /\ busy' \in [Executor -> Pushing \cup Asking \cup {Null}]
      /\ busy'[e] # Null /\ busy'[e].op = "push"
      /\ busy'[e].p = a /\ busy'[e].ref = k
      /\ \A f \in Executor : f # e => busy'[f] = busy[f]
  <2>1. PICK w : w = [op |-> "push", p |-> a, ref |-> k] OBVIOUS
  <2>2. w \in Pushing /\ w.op = "push" /\ w.p = a /\ w.ref = k
    BY <1>5, <2>1 DEF Pushing
  <2>3. w # Null BY <2>2, BusyAssumption
  <2>4. busy' = [busy EXCEPT ![e] = w] BY <1>3, <2>1
  <2>5. busy \in [Executor -> Pushing \cup Asking \cup {Null}] BY DEF IInv, TypeOK
  <2> QED BY <2>2, <2>3, <2>4, <2>5
<1>9. ~IsPushing(e) /\ ~IsAsking(e) BY <1>1 DEF Running, IsPushing, IsAsking
<1>10. Refs' = Plus(Refs, a, k) /\ Unc' = Plus(Unc, a, k) /\ Unrel' = Unrel
  <2>1. \A b \in Address : Refs'[b] = IF b = a THEN Refs[b] \cup {k} ELSE Refs[b]
    BY <1>1, <1>5, <1>7 DEF Refs, References, Held, Sent
  <2>2. \A b \in Address : Unc'[b] = IF b = a THEN Unc[b] \cup {k} ELSE Unc[b]
    BY <1>1, <1>5, <1>8, <1>9 DEF Unc, Uncounted, Counting, InPush, IsPushing
  <2>3. Unrel' = Unrel BY <1>1 DEF Unrel, Unreleased, Counting
  <2> QED BY <2>1, <2>2, <2>3, RefsFunction DEF Plus
<1>11. SameHomes BY <1>1 DEF SameHomes
<1>12. TypeOK'
  BY <1>1, <1>7, <1>8 DEF IInv, TypeOK, TableTypeOK
<1>13. Authors' /\ Counted' /\ Blocks'
  BY <1>1, <1>7, <1>11, SameEntries
<1>14. Entries'
  BY <1>1 DEF IInv, Entries, Mapped
<1>15. Handles'
  BY <1>1, <1>5, <1>7 DEF IInv, Handles
<1>16. Pending'
  BY <1>1, <1>5, <1>8, <1>9, <1>10, Subsets, TypeFacts
     DEF IInv, Pending, Typed, TypedDmn, TypedUsers, IsPushing, Plus
<1>17. Exact' /\ Anchored'
  BY <1>1, <1>5, <1>6, <1>10, OneUncounted
<1>18. Waiting' /\ AnswersMatch'
  BY <1>1, <1>8, <1>9, <1>11, SameQuestions
<1> QED BY <1>12, <1>13, <1>14, <1>15, <1>16, <1>17, <1>18 DEF IInv

(* Counting a reference at the home of its address keeps the counts exact. *)
LEMMA OneCounted ==
  ASSUME IInv, NEW e \in Executor, NEW a \in Address, IsHome(e, a),
         rc' = Recounted(rc, e, a, Incremented(rc[e][a])),
         NEW k \in Unc[a],
         Refs' = Refs, Unc' = Minus(Unc, a, k), Unrel' = Unrel
  PROVE  /\ rc' \in [Executor -> [Address -> 0 .. RcRange - 1 \cup {Null}]]
         /\ SameHomes /\ Backs(e, a)
         /\ \A f \in Executor, b \in Address :
               rc'[f][b] # rc[f][b] => Backs(f, b)
         /\ Exact' /\ Anchored'
<1>1. PICK R : R = Refs[a] OBVIOUS
<1>2. PICK U : U = Unc[a] \ {k} OBVIOUS
<1>3. PICK D : D = Unrel[a] OBVIOUS
<1>4. Refs' = Put(Refs, a, R) /\ Unc' = Put(Unc, a, U) /\ Unrel' = Put(Unrel, a, D)
  BY <1>1, <1>2, <1>3, Subsets DEF Put, Minus
<1>5. k \in Refs[a] BY UncountedAlive DEF IInv
<1>6. rc[e][a] + 1 + Cardinality(U) = Cardinality(R) + Cardinality(D)
  <2>1. /\ Cardinality(U) = Cardinality(Unc[a]) - 1
        /\ Cardinality(Unc[a]) \in Nat
        /\ Cardinality(R) \in Nat /\ Cardinality(D) \in Nat
    BY <1>1, <1>2, <1>3, Subsets, Sizes
  <2> QED BY <2>1, <1>1, <1>3, Count
<1>7. rc[e][a] + 1 <= 2 * Cardinality(Handle)
  <2>1. /\ Cardinality(U) \in Nat /\ Cardinality(R) <= Cardinality(Handle)
        /\ Cardinality(D) <= Cardinality(Handle) /\ Cardinality(Handle) \in Nat
        /\ Cardinality(R) \in Nat /\ Cardinality(D) \in Nat
    <3>1. U \in SUBSET Handle /\ R \in SUBSET Handle /\ D \in SUBSET Handle
      BY <1>1, <1>2, <1>3, Subsets
    <3> QED BY <3>1, Sizes
  <2>2. rc[e][a] \in Nat BY Count
  <2> QED BY <2>1, <2>2, <1>6
<1>8. /\ rc' \in [Executor -> [Address -> 0 .. RcRange - 1 \cup {Null}]]
      /\ SameHomes /\ OtherCounts(a) /\ rc'[e][a] = rc[e][a] + 1
      /\ \A f \in Executor, b \in Address :
            f # e \/ b # a => rc'[f][b] = rc[f][b]
  BY <1>7, CountedUp
<1>9. Backs(e, a) BY <1>5, Alive
<1>10. rc'[e][a] + Cardinality(U) = Cardinality(R) + Cardinality(D)
  BY <1>6, <1>8
<1>11. R # {} => ~ R \subseteq U BY <1>1, <1>2, <1>5
<1>12. Exact' /\ Anchored' BY <1>4, <1>8, <1>10, <1>11, OneAddress
<1> QED BY <1>8, <1>9, <1>12

(* The author counts the pointer it has sent.                              *)
LEMMA PushCountHomeKeeps ==
  ASSUME IInv, NEW e \in Executor, PushCount(e), AmAuthor(e, busy[e].p)
  PROVE  IInv'
<1>1. /\ IsPushing(e)
      /\ issued' = issued /\ view' = view /\ parent' = parent /\ heap' = heap
      /\ ptr' = ptr /\ pap' = pap /\ dmn' = dmn /\ mem' = mem
  BY DEF PushCount, RcInc, tableVars
<1>2. PICK a \in Address, k \in Handle : busy[e].p = a /\ busy[e].ref = k
  BY <1>1, TypeFacts DEF IInv, Typed, TypedUsers
<1>3. /\ busy' = Put(busy, e, Null)
      /\ rc' = Recounted(rc, e, a, Incremented(rc[e][a]))
  BY <1>2 DEF PushCount, RcInc, Put, Recounted
<1>4. IsHome(e, a) BY <1>2 DEF AmAuthor, IInv, Authors
<1>5. /\ busy' \in [Executor -> Pushing \cup Asking \cup {Null}]
      /\ busy'[e] = Null /\ \A f \in Executor : f # e => busy'[f] = busy[f]
      /\ k \in Unc[a]
      /\ Unc' = Minus(Unc, a, k) /\ Unrel' = Unrel
  BY <1>1, <1>2, <1>3, PushDone
<1>6. Refs' = Refs BY <1>1 DEF Refs, References, Held, Sent
<1>7. /\ rc' \in [Executor -> [Address -> 0 .. RcRange - 1 \cup {Null}]]
      /\ SameHomes /\ Backs(e, a)
      /\ \A f \in Executor, b \in Address :
            rc'[f][b] # rc[f][b] => Backs(f, b)
      /\ Exact' /\ Anchored'
  BY <1>3, <1>4, <1>5, <1>6, OneCounted
<1>8. TypeOK'
  BY <1>1, <1>5, <1>7 DEF IInv, TypeOK, TableTypeOK
<1>9. Authors' /\ Counted' /\ Blocks'
  BY <1>1, <1>7, SameEntries
<1>10. Entries' /\ Handles'
  BY <1>1 DEF IInv, Entries, Handles, Mapped
<1>11. Pending'
  BY <1>1, <1>5, <1>6 DEF IInv, Pending, IsPushing
<1>12. Waiting' /\ AnswersMatch'
  <2>1. ~IsAsking(e) BY <1>1 DEF IsPushing, IsAsking
  <2> QED BY <1>1, <1>5, <1>7, <2>1, SameQuestions
<1> QED BY <1>7, <1>8, <1>9, <1>10, <1>11, <1>12 DEF IInv

(* Anybody else sends the author a request to count it.                    *)
LEMMA PushCountAwayKeeps ==
  ASSUME IInv, NEW e \in Executor, PushCount(e), ~AmAuthor(e, busy[e].p)
  PROVE  IInv'
<1>1. /\ IsPushing(e) /\ Mapped(e, busy[e].p)
      /\ issued' = issued /\ view' = view /\ parent' = parent /\ heap' = heap
      /\ ptr' = ptr /\ rc' = rc /\ pap' = pap /\ mem' = mem
  BY DEF PushCount, RcInc, tableVars
<1>2. PICK a \in Address, k \in Handle : busy[e].p = a /\ busy[e].ref = k
  BY <1>1, TypeFacts DEF IInv, Typed, TypedUsers
<1>3. PICK r : r = RequestTo("RC_INC", e, a, k) OBVIOUS
<1>4. busy' = Put(busy, e, Null) /\ dmn' = dmn \cup {r}
  BY <1>2, <1>3 DEF PushCount, RcInc, Put
<1>5. /\ r.op = "RC_INC" /\ r.p = a /\ r.ref = k
      /\ r.to \in Executor /\ IsHome(r.to, a) /\ dmn' \subseteq Request
  BY <1>1, <1>2, <1>3, <1>4, ApplicationAssumption, RequestTyped
<1>6. /\ busy' \in [Executor -> Pushing \cup Asking \cup {Null}]
      /\ busy'[e] = Null /\ \A f \in Executor : f # e => busy'[f] = busy[f]
      /\ k \in Refs[a]
      /\ Unc' = Unc /\ Unrel' = Unrel
  BY <1>1, <1>2, <1>4, <1>5, PushDone
<1>7. Refs' = Refs BY <1>1 DEF Refs, References, Held, Sent
<1>8. SameHomes BY <1>1 DEF SameHomes
<1>9. TypeOK'
  BY <1>1, <1>5, <1>6 DEF IInv, TypeOK, TableTypeOK
<1>10. Authors' /\ Counted' /\ Blocks'
  BY <1>1, <1>4, <1>5, <1>8, SameEntries
<1>11. Entries'
  BY <1>1 DEF IInv, Entries, Mapped
<1>12. \A q \in dmn : q.op = "RC_INC" => q.ref # k
  BY <1>1, <1>2 DEF IInv, Pending
<1>13. Handles'
  BY <1>1, <1>4, <1>5, <1>12 DEF IInv, Handles
<1>14. Pending'
  <2>1. \A f \in Executor : IsPushing(f) /\ f # e => busy[f].ref # k
    BY <1>1, <1>2 DEF IInv, Pending
  <2> QED BY <2>1, <1>4, <1>5, <1>6, <1>7 DEF IInv, Pending, IsPushing
<1>15. Exact' /\ Anchored'
  BY <1>1, <1>6, <1>7 DEF IInv, Exact, Anchored, IsHome
<1>16. Waiting' /\ AnswersMatch'
  <2>1. ~IsAsking(e) BY <1>1 DEF IsPushing, IsAsking
  <2> QED BY <1>1, <1>4, <1>5, <1>6, <1>8, <2>1, SameQuestions
<1> QED BY <1>9, <1>10, <1>11, <1>13, <1>14, <1>15, <1>16 DEF IInv

(* The RC_INC handler counts the reference the request names.              *)
LEMMA DmnRcIncKeeps ==
  ASSUME IInv, NEW r \in dmn, DmnRcInc(r)
  PROVE  IInv'
<1>1. /\ r.op = "RC_INC" /\ dmn' = dmn \ {r}
      /\ issued' = issued /\ view' = view /\ parent' = parent /\ heap' = heap
      /\ ptr' = ptr /\ busy' = busy /\ pap' = pap /\ mem' = mem
  BY DEF DmnRcInc, tableVars
<1>2. PICK e \in Executor, a \in Address, k \in Handle :
        r.to = e /\ r.p = a /\ r.ref = k
  BY <1>1, TypeFacts DEF IInv, Typed, TypedDmn
<1>3. rc' = Recounted(rc, e, a, Incremented(rc[e][a]))
  BY <1>2 DEF DmnRcInc, Recounted
<1>4. IsHome(e, a) BY <1>2 DEF IInv, Authors
<1>5. /\ dmn' \subseteq Request /\ k \in Unc[a]
      /\ Unc' = Minus(Unc, a, k) /\ Unrel' = Unrel
  BY <1>1, <1>2, RequestDone
<1>6. Refs' = Refs BY <1>1 DEF Refs, References, Held, Sent
<1>7. /\ rc' \in [Executor -> [Address -> 0 .. RcRange - 1 \cup {Null}]]
      /\ SameHomes /\ Backs(e, a)
      /\ \A f \in Executor, b \in Address :
            rc'[f][b] # rc[f][b] => Backs(f, b)
      /\ Exact' /\ Anchored'
  BY <1>3, <1>4, <1>5, <1>6, OneCounted
<1>8. TypeOK'
  BY <1>1, <1>5, <1>7 DEF IInv, TypeOK, TableTypeOK
<1>9. Authors' /\ Counted' /\ Blocks'
  BY <1>1, <1>7, SameEntries
<1>10. Entries'
  BY <1>1 DEF IInv, Entries, Mapped
<1>11. Handles'
  BY <1>1 DEF IInv, Handles
<1>12. Pending'
  BY <1>1, <1>6 DEF IInv, Pending, IsPushing
<1>13. Waiting' /\ AnswersMatch'
  BY <1>1, <1>7, SameQuestions
<1> QED BY <1>7, <1>8, <1>9, <1>10, <1>11, <1>12, <1>13 DEF IInv

-----------------------------------------------------------------------------
(* Pull *)

(* A pull turns a pushed pointer into an object: the reference stays.  The *)
(* entry it binds is not that of the home, because nothing is pushed there. *)
LEMMA PullKeeps ==
  ASSUME IInv, NEW e \in Executor, NEW m \in pap, Pull(e, m)
  PROVE  IInv'
<1>1. /\ Running(e) /\ m.to = e /\ pap' = pap \ {m}
      /\ issued' = issued /\ parent' = parent /\ heap' = heap
      /\ rc' = rc /\ busy' = busy /\ dmn' = dmn /\ mem' = mem
  BY DEF Pull
<1>2. PICK a \in Address, k \in Handle : m.p = a /\ m.ref = k
  BY TypeFacts DEF IInv, Typed, TypedPap
<1>3. /\ m.author \in Executor /\ IsHome(m.author, a) /\ m.author # e
  BY <1>1, <1>2, TypeFacts DEF IInv, Authors, Typed, TypedPap
<1>4. PICK y : y = PulledEntry(e, m) OBVIOUS
<1>5. /\ y \in Entry /\ y # Null /\ y.committed = Null
      /\ y.author = m.author /\ y.access_level = "public"
  <2>1. Mapped(e, a) => view[e][a].child \in Cell \cup {Null}
    BY TypeFacts DEF IInv, Typed, TypedTables
  <2>2. y \in Entry /\ y.committed = Null
        /\ y.author = m.author /\ y.access_level = "public"
    BY <1>2, <1>3, <1>4, <2>1 DEF PulledEntry, Entry, AccessLevel
  <2> QED BY <2>2, ViewAssumption
<1>6. /\ view' \in [Executor -> [Address -> Entry \cup {Null}]]
      /\ view'[e][a] = y
      /\ \A f \in Executor, b \in Address :
            f # e \/ b # a => view'[f][b] = view[f][b]
  <2>1. view' = [view EXCEPT ![e][a] = y] BY <1>2, <1>4 DEF Pull
  <2> QED BY <2>1, <1>5 DEF IInv, TypeOK, TableTypeOK
<1>7. /\ ptr' \in [Handle -> Pointer \cup {Null}]
      /\ ptr'[k] \in Pointer /\ ptr'[k] # Null /\ ptr'[k].p = a /\ ptr'[k].at = e
      /\ \A j \in Handle : j # k => ptr'[j] = ptr[j]
  <2>1. PICK x : x = [p |-> a, at |-> e] OBVIOUS
  <2>2. x \in Pointer /\ x # Null /\ x.p = a /\ x.at = e
    BY <2>1, BusyAssumption DEF Pointer
  <2>3. ptr' = [ptr EXCEPT ![k] = x] BY <1>2, <2>1 DEF Pull
  <2> QED BY <2>2, <2>3 DEF IInv, TypeOK
<1>8. ptr[k] = Null /\ \A n \in pap : n # m => n.ref # k
  BY <1>2 DEF IInv, Handles
<1>9. Refs' = Refs
  <2>1. \A b \in Address : Refs'[b] = Refs[b]
    BY <1>1, <1>2, <1>7, <1>8 DEF Refs, References, Held, Sent
  <2> QED BY <2>1, RefsFunction
<1>10. Unc' = Unc /\ Unrel' = Unrel /\ SameHomes
  BY <1>1 DEF Unc, Uncounted, Unrel, Unreleased, Counting, InPush, IsPushing,
              SameHomes
<1>11. TypeOK'
  BY <1>1, <1>6, <1>7 DEF IInv, TypeOK, TableTypeOK
<1>12. Authors'
  <2>1. /\ \A f \in Executor, b \in Address : IsHome(f, b)' => b \in issued'
        /\ \A f, g \in Executor, b \in Address : IsHome(f, b)' /\ IsHome(g, b)' => f = g
        /\ \A n \in pap' : IsHome(n.author, n.p)' /\ n.to # n.author
        /\ \A r \in dmn' : IsHome(r.to, r.p)'
    BY <1>1 DEF IInv, Authors, IsHome
  <2>2. ASSUME NEW f \in Executor, NEW b \in Address, view'[f][b] # Null
        PROVE  /\ view'[f][b].author \in Executor
               /\ rc'[view'[f][b].author][b] # Null
               /\ view'[f][b].access_level = "public"
    <3>1. CASE f = e /\ b = a
      BY <3>1, <1>1, <1>3, <1>5, <1>6 DEF IsHome
    <3>2. CASE f # e \/ b # a
      BY <3>2, <2>2, <1>1, <1>6 DEF IInv, Authors, IsHome, Mapped
    <3> QED BY <3>1, <3>2
  <2> QED BY <2>1, <2>2 DEF Authors, IsHome, Mapped
<1>13. Entries'
  <2>1. \A j \in Handle : ptr'[j] # Null => view'[ptr'[j].at][ptr'[j].p] # Null
    BY <1>5, <1>6, <1>7, TypeFacts DEF IInv, Entries, Mapped, Typed, TypedUsers
  <2> QED BY <2>1 DEF Entries, Mapped
<1>14. Counted' /\ Blocks'
  <2>1. ~IsHome(e, a) BY <1>3 DEF IInv, Authors
  <2>2. Counted'
    BY <2>1, <1>1, <1>6 DEF IInv, Counted, IsHome, Backs, Mapped
  <2>3. \A f \in Executor, b \in Address : Backs(f, b)' =>
          Backs(f, b) /\ view'[f][b] = view[f][b]
    BY <1>5, <1>6 DEF Backs, Mapped
  <2>4. Blocks'
    BY <2>3, <1>1 DEF IInv, Blocks, IsHome
  <2> QED BY <2>2, <2>4
<1>15. Handles'
  BY <1>1, <1>2, <1>7, <1>8, TypeFacts
     DEF IInv, Handles, Typed, TypedPap, TypedDmn
<1>16. Pending'
  BY <1>1, <1>9 DEF IInv, Pending, IsPushing
<1>17. Exact' /\ Anchored'
  BY <1>1, <1>9, <1>10 DEF IInv, Exact, Anchored, IsHome
<1>18. Waiting' /\ AnswersMatch'
  <2>1. ~IsHome(e, a) BY <1>3 DEF IInv, Authors
  <2>2. ASSUME NEW s \in mem
        PROVE  view'[s.from][busy[s.to].p] = view[s.from][busy[s.to].p]
    <3>1. /\ s.from \in Executor /\ s.to \in Executor
          /\ busy[s.to].p \in Address /\ IsHome(s.from, busy[s.to].p)
      BY TypeFacts DEF IInv, AnswersMatch, Waiting, Typed, TypedMem, TypedUsers
    <3> QED BY <3>1, <2>1, <1>6
  <2> QED BY <2>2, <1>1, <1>7, <1>8, <1>10, SameQuestions
<1> QED BY <1>11, <1>12, <1>13, <1>14, <1>15, <1>16, <1>17, <1>18 DEF IInv

-----------------------------------------------------------------------------
(* Release *)

(* What Context::unmap changes at the home of a public address: the entry  *)
(* and its block disappear, and nothing else.                              *)
LEMMA UnmapEffect ==
  ASSUME IInv, NEW e \in Executor, NEW a \in Address, Backs(e, a), Unmap(e, a)
  PROVE  /\ TableTypeOK' /\ issued' = issued
         /\ \A f \in Executor, b \in Address :
               view'[f][b] = IF f = e /\ b = a THEN Null ELSE view[f][b]
         /\ \A f \in Executor, c \in Cell :
               heap'[f][c] = IF f = e /\ c = view[e][a].committed
                             THEN Null ELSE heap[f][c]
<1>1. PICK c \in Cell : c = view[e][a].committed
  BY TypeFacts DEF IInv, Typed, TypedTables, Backs
<1>2. view[e][a].access_level = "public" BY DEF IInv, Authors, Backs
<1>3. /\ issued' = issued /\ parent' = parent
      /\ view' = [view EXCEPT ![e][a] = Null]
      /\ heap' = [heap EXCEPT ![e] = [d \in Cell |->
                     IF d = c THEN Null ELSE heap[e][d]]]
  BY <1>1, <1>2 DEF Unmap, ParentsWithout, HeapWithout
<1>4. TableTypeOK BY DEF IInv, TypeOK
<1>5. /\ view' \in [Executor -> [Address -> Entry \cup {Null}]]
      /\ \A f \in Executor, b \in Address :
            view'[f][b] = IF f = e /\ b = a THEN Null ELSE view[f][b]
  BY <1>3, <1>4 DEF TableTypeOK
<1>6. /\ heap' \in [Executor -> [Cell -> Value \cup {Null}]]
      /\ \A f \in Executor, d \in Cell :
            heap'[f][d] = IF f = e /\ d = c THEN Null ELSE heap[f][d]
  BY <1>3, <1>4 DEF TableTypeOK
<1>7. TableTypeOK' BY <1>3, <1>4, <1>5, <1>6 DEF TableTypeOK
<1> QED BY <1>1, <1>3, <1>5, <1>6, <1>7

(* Discounting a reference at the home of its address keeps the counts     *)
(* exact, and frees the memory only when nobody refers to it.              *)
LEMMA Discounted ==
  ASSUME IInv, NEW e \in Executor, NEW a \in Address, IsHome(e, a),
         rc[e][a] > 0, Discount(e, a),
         NEW R \in SUBSET Handle, NEW U \in SUBSET R, NEW D \in SUBSET Handle,
         Refs' = Put(Refs, a, R), Unc' = Put(Unc, a, U), Unrel' = Put(Unrel, a, D),
         rc[e][a] - 1 + Cardinality(U) = Cardinality(R) + Cardinality(D),
         R # {} => ~ R \subseteq U
  PROVE  /\ rc' \in [Executor -> [Address -> 0 .. RcRange - 1 \cup {Null}]]
         /\ SameHomes /\ Exact' /\ Anchored'
         /\ TableTypeOK' /\ issued' = issued
         /\ \A f \in Executor, b \in Address :
               \/ view'[f][b] = view[f][b]
               \/ f = e /\ b = a /\ R = {} /\ view'[f][b] = Null
         /\ \A f \in Executor, b \in Address :
               Backs(f, b) /\ view'[f][b] = view[f][b] =>
                  heap'[f][view[f][b].committed] = heap[f][view[f][b].committed]
         /\ rc'[e][a] # 0 => view'[e][a] = view[e][a]
         /\ \A f \in Executor, b \in Address :
               f # e \/ b # a => rc'[f][b] = rc[f][b]
         /\ rc'[e][a] \in Nat /\ rc'[e][a] = rc[e][a] - 1
<1>1. rc' = Recounted(rc, e, a, Decremented(rc[e][a]))
  BY DEF Discount, Recounted
<1>2. /\ rc' \in [Executor -> [Address -> 0 .. RcRange - 1 \cup {Null}]]
      /\ SameHomes /\ OtherCounts(a)
      /\ rc'[e][a] = rc[e][a] - 1 /\ Decremented(rc[e][a]) = rc[e][a] - 1
      /\ \A f \in Executor, b \in Address :
            f # e \/ b # a => rc'[f][b] = rc[f][b]
  BY <1>1, CountedDown
<1>3. rc'[e][a] + Cardinality(U) = Cardinality(R) + Cardinality(D)
  BY <1>2
<1>4. Exact' /\ Anchored' BY <1>2, <1>3, OneAddress
<1>5. rc[e][a] \in Nat BY Count
<1>6. rc'[e][a] = 0 => R = {}
  <2>1. /\ Cardinality(U) <= Cardinality(R)
        /\ U # R => Cardinality(U) < Cardinality(R)
    BY Fewer
  <2>2. /\ Cardinality(U) \in Nat /\ Cardinality(R) \in Nat /\ Cardinality(D) \in Nat
    BY Sizes
  <2>3. R # {} => U # R OBVIOUS
  <2> QED BY <2>1, <2>2, <2>3, <1>3
<1>7. CASE rc'[e][a] = 0
  <2>1. Backs(e, a) /\ Unmap(e, a) BY <1>2, <1>7 DEF Discount
  <2>2. /\ TableTypeOK' /\ issued' = issued
        /\ \A f \in Executor, b \in Address :
              view'[f][b] = IF f = e /\ b = a THEN Null ELSE view[f][b]
        /\ \A f \in Executor, c \in Cell :
              heap'[f][c] = IF f = e /\ c = view[e][a].committed
                            THEN Null ELSE heap[f][c]
    BY <2>1, UnmapEffect
  <2>3. ASSUME NEW f \in Executor, NEW b \in Address, Backs(f, b), f # e \/ b # a
        PROVE  heap'[f][view[f][b].committed] = heap[f][view[f][b].committed]
    <3>1. view[f][b].committed \in Cell
      BY <2>3, TypeFacts DEF IInv, Typed, TypedTables, Backs
    <3>2. f = e => view[f][b].committed # view[e][a].committed
      BY <2>1, <2>3 DEF IInv, Blocks
    <3> QED BY <3>1, <3>2, <2>2
  <2>4. R = {} BY <1>6, <1>7
  <2>5. \A f \in Executor, b \in Address :
          \/ view'[f][b] = view[f][b]
          \/ f = e /\ b = a /\ R = {} /\ view'[f][b] = Null
    BY <2>2, <2>4
  <2>6. \A f \in Executor, b \in Address :
          Backs(f, b) /\ view'[f][b] = view[f][b] =>
             heap'[f][view[f][b].committed] = heap[f][view[f][b].committed]
    BY <2>1, <2>2, <2>3 DEF Backs, Mapped
  <2>7. rc'[e][a] \in Nat BY <1>7
  <2> QED BY <2>2, <2>5, <2>6, <2>7, <1>2, <1>4, <1>7
<1>8. CASE rc'[e][a] # 0
  <2>1. issued' = issued /\ view' = view /\ parent' = parent /\ heap' = heap
    BY <1>2, <1>8 DEF Discount, tableVars
  <2>2. TableTypeOK' BY <2>1 DEF IInv, TypeOK, TableTypeOK
  <2> QED BY <2>1, <2>2, <1>2, <1>4, <1>5
<1> QED BY <1>7, <1>8

(* A step that discounts a reference, and lets go of at most one pointer   *)
(* and one request, keeps all but the bookkeeping of handles.              *)
LEMMA DiscountKeeps ==
  ASSUME IInv, NEW e \in Executor, NEW a \in Address, IsHome(e, a),
         rc[e][a] > 0, Discount(e, a),
         NEW R \in SUBSET Handle, NEW U \in SUBSET R, NEW D \in SUBSET Handle,
         Refs' = Put(Refs, a, R), Unc' = Put(Unc, a, U), Unrel' = Put(Unrel, a, D),
         rc[e][a] - 1 + Cardinality(U) = Cardinality(R) + Cardinality(D),
         R # {} => ~ R \subseteq U,
         pap' = pap, busy' = busy, mem' = mem, dmn' \subseteq dmn,
         ptr' \in [Handle -> Pointer \cup {Null}],
         \A j \in Handle : ptr'[j] # Null => ptr'[j] = ptr[j],
         \A j \in Handle : ptr[j] # Null /\ IsAsking(ptr[j].at) => ptr'[j] = ptr[j]
  PROVE  TypeOK' /\ Authors' /\ Entries' /\ Counted' /\ Blocks'
         /\ Exact' /\ Anchored' /\ Waiting' /\ AnswersMatch'
<1>1. /\ rc' \in [Executor -> [Address -> 0 .. RcRange - 1 \cup {Null}]]
      /\ SameHomes /\ Exact' /\ Anchored'
      /\ TableTypeOK' /\ issued' = issued
      /\ \A f \in Executor, b \in Address :
            \/ view'[f][b] = view[f][b]
            \/ f = e /\ b = a /\ R = {} /\ view'[f][b] = Null
      /\ \A f \in Executor, b \in Address :
            Backs(f, b) /\ view'[f][b] = view[f][b] =>
               heap'[f][view[f][b].committed] = heap[f][view[f][b].committed]
      /\ rc'[e][a] # 0 => view'[e][a] = view[e][a]
      /\ \A f \in Executor, b \in Address :
            f # e \/ b # a => rc'[f][b] = rc[f][b]
      /\ rc'[e][a] \in Nat /\ rc'[e][a] = rc[e][a] - 1
  BY Discounted
<1>2. Typed BY TypeFacts DEF IInv
<1>3. TypeOK'
  BY <1>1 DEF IInv, TypeOK
<1>4. Authors'
  <2>1. /\ \A f \in Executor, b \in Address : rc'[f][b] # Null => b \in issued'
        /\ \A f, g \in Executor, b \in Address :
              rc'[f][b] # Null /\ rc'[g][b] # Null => f = g
    <3>1. /\ \A f \in Executor, b \in Address : rc[f][b] # Null => b \in issued
          /\ \A f, g \in Executor, b \in Address :
                rc[f][b] # Null /\ rc[g][b] # Null => f = g
      BY DEF IInv, Authors, IsHome
    <3>2. SameHomes /\ issued' = issued BY <1>1
    <3> QED BY <3>1, <3>2 DEF SameHomes
  <2>2. ASSUME NEW f \in Executor, NEW b \in Address, view'[f][b] # Null
        PROVE  /\ view'[f][b].author \in Executor
               /\ rc'[view'[f][b].author][b] # Null
               /\ view'[f][b].access_level = "public"
    <3>1. view'[f][b] = view[f][b] BY <2>2, <1>1
    <3>2. /\ view[f][b].author \in Executor /\ rc[view[f][b].author][b] # Null
          /\ view[f][b].access_level = "public"
      BY <2>2, <3>1 DEF IInv, Authors, Mapped, IsHome
    <3> QED BY <3>1, <3>2, <1>1 DEF SameHomes
  <2>3. \A m \in pap' : rc'[m.author][m.p] # Null /\ m.to # m.author
    <3>1. \A m \in pap : m.author \in Executor /\ m.p \in Address
      BY <1>2 DEF Typed, TypedPap
    <3>2. \A m \in pap : rc[m.author][m.p] # Null /\ m.to # m.author
      BY DEF IInv, Authors, IsHome
    <3> QED BY <3>1, <3>2, <1>1 DEF SameHomes
  <2>4. \A r \in dmn' : rc'[r.to][r.p] # Null
    <3>1. \A r \in dmn : r.to \in Executor /\ r.p \in Address
      BY <1>2 DEF Typed, TypedDmn
    <3>2. \A r \in dmn : rc[r.to][r.p] # Null BY DEF IInv, Authors, IsHome
    <3> QED BY <3>1, <3>2, <1>1 DEF SameHomes
  <2> QED BY <2>1, <2>2, <2>3, <2>4 DEF Authors, IsHome, Mapped
<1>5. \A j \in Handle : ptr'[j] # Null =>
        ptr[j] # Null /\ ptr[j].p \in Address /\ j \in Refs'[ptr[j].p]
  BY <1>2 DEF Refs, References, Held, Typed, TypedUsers
<1>6. Refs'[a] = R BY Subsets DEF Put
<1>7. Entries'
  <2>1. ASSUME NEW j \in Handle, ptr'[j] # Null
        PROVE  view'[ptr'[j].at][ptr'[j].p] # Null
    <3>1. /\ ptr'[j] = ptr[j] /\ ptr[j].at \in Executor /\ ptr[j].p \in Address
          /\ view[ptr[j].at][ptr[j].p] # Null
      BY <2>1, <1>2 DEF IInv, Entries, Mapped, Typed, TypedUsers
    <3>2. ptr[j].p = a => R # {} BY <2>1, <1>5, <1>6
    <3> QED BY <3>1, <3>2, <1>1
  <2> QED BY <2>1 DEF Entries, Mapped
<1>8. Counted'
  <2>1. ASSUME NEW f \in Executor, NEW b \in Address, rc'[f][b] # Null, rc'[f][b] # 0
        PROVE  view'[f][b] # Null /\ view'[f][b].committed # Null
    <3>1. rc[f][b] # Null /\ rc[f][b] # 0 BY <2>1, <1>1 DEF SameHomes
    <3>2. view'[f][b] = view[f][b] BY <2>1, <1>1
    <3> QED BY <3>1, <3>2 DEF IInv, Counted, IsHome, Backs, Mapped
  <2> QED BY <2>1 DEF Counted, IsHome, Backs, Mapped
<1>9. Blocks'
  <2>1. ASSUME NEW f \in Executor, NEW b \in Address,
               view'[f][b] # Null, view'[f][b].committed # Null
        PROVE  /\ view'[f][b] = view[f][b] /\ Backs(f, b)
               /\ heap'[f][view'[f][b].committed] # Null
               /\ rc'[f][b] # Null
    <3>1. view'[f][b] = view[f][b] BY <2>1, <1>1
    <3>2. Backs(f, b) BY <2>1, <3>1 DEF Backs, Mapped
    <3>3. heap[f][view[f][b].committed] # Null /\ rc[f][b] # Null
      BY <3>2 DEF IInv, Blocks, IsHome
    <3>4. rc'[f][b] # Null BY <3>3, <1>1 DEF SameHomes
    <3> QED BY <3>1, <3>2, <3>3, <3>4, <1>1
  <2>2. ASSUME NEW f \in Executor, NEW b \in Address, NEW d \in Address, b # d,
               Backs(f, b), Backs(f, d)
        PROVE  view[f][d].committed # view[f][b].committed
    BY <2>2 DEF IInv, Blocks
  <2> QED BY <2>1, <2>2 DEF Blocks, Backs, Mapped, IsHome
<1>10. Waiting' /\ AnswersMatch'
  <2>1. ASSUME NEW s \in mem
        PROVE  heap'[s.from][view'[s.from][busy[s.to].p].committed] =
                 heap[s.from][view[s.from][busy[s.to].p].committed]
    <3>1. /\ s.from \in Executor /\ s.to \in Executor /\ IsAsking(s.to)
          /\ busy[s.to].p \in Address /\ IsHome(s.from, busy[s.to].p)
      BY <1>2 DEF IInv, AnswersMatch, Waiting, Typed, TypedMem, TypedUsers
    <3>2. PICK b \in Address : b = busy[s.to].p BY <3>1
    <3>3. PICK j \in Handle : ptr[j] # Null /\ ptr[j].at = s.to /\ ptr[j].p = b
      BY <3>1, <3>2 DEF IInv, Waiting, HeldBy
    <3>4. ptr'[j] # Null BY <3>1, <3>3
    <3>5. j \in Refs'[b] BY <3>3, <3>4, <1>5
    <3>6. b = a => R # {} BY <3>5, <1>6
    <3>7. PICK f \in Executor : f = s.from BY <3>1
    <3>8. Backs(f, b)
      <4>1. j \in Refs[b] BY <3>3 DEF Refs, References, Held
      <4> QED BY <4>1, <3>1, <3>2, <3>7, Alive
    <3>9. view'[f][b] = view[f][b] BY <3>6, <1>1
    <3>10. heap'[f][view[f][b].committed] = heap[f][view[f][b].committed]
      BY <3>8, <3>9, <1>1
    <3> QED BY <3>2, <3>7, <3>9, <3>10
  <2>2. \A r \in dmn' \ dmn : r.op \in {"RC_INC", "RC_DEC"} OBVIOUS
  <2> QED BY <2>1, <2>2, <1>1, SameQuestions
<1> QED BY <1>1, <1>3, <1>4, <1>7, <1>8, <1>9, <1>10

(* The author drops a pointer, with all references counted.                *)
LEMMA DropHomeKeeps ==
  ASSUME IInv, NEW e \in Executor, NEW h \in Handle, Drop(e, h),
         Uncounted(ptr[h].p) = {}, AmAuthor(e, ptr[h].p)
  PROVE  IInv'
<1>1. /\ Running(e) /\ HeldBy(e, h)
      /\ busy' = busy /\ pap' = pap /\ dmn' = dmn /\ mem' = mem
  BY DEF Drop
<1>2. PICK a \in Address : ptr[h].p = a
  BY <1>1, TypeFacts DEF IInv, Typed, TypedUsers, HeldBy
<1>3. Discount(e, a) /\ ptr' = Put(ptr, h, Null) BY <1>2 DEF Drop, Put
<1>4. IsHome(e, a) BY <1>2 DEF AmAuthor, IInv, Authors
<1>5. Unc[a] = {} BY <1>2 DEF Unc
<1>6. /\ ptr' \in [Handle -> Pointer \cup {Null}]
      /\ \A k \in Handle : ptr'[k] = IF k = h THEN Null ELSE ptr[k]
      /\ h \in Refs[a] /\ Refs' = Minus(Refs, a, h)
  BY <1>1, <1>2, <1>3, ObjectGone DEF HeldBy
<1>7. Unc' = Unc /\ Unrel' = Unrel
  BY <1>1 DEF Unc, Uncounted, Unrel, Unreleased, Counting, InPush, IsPushing
<1>8. PICK R \in SUBSET Handle : R = Refs[a] \ {h} BY Subsets
<1>9. PICK U \in SUBSET R : U = {} OBVIOUS
<1>10. PICK D \in SUBSET Handle : D = Unrel[a] BY Subsets
<1>11. Refs' = Put(Refs, a, R) /\ Unc' = Put(Unc, a, U) /\ Unrel' = Put(Unrel, a, D)
  BY <1>5, <1>6, <1>7, <1>8, <1>9, <1>10, Subsets DEF Put, Minus
<1>12. rc[e][a] > 0 BY <1>4, <1>6, Count
<1>13. rc[e][a] - 1 + Cardinality(U) = Cardinality(R) + Cardinality(D)
  <2>1. /\ Cardinality(R) = Cardinality(Refs[a]) - 1 /\ Cardinality(Refs[a]) \in Nat
        /\ Cardinality(D) \in Nat /\ U \in SUBSET Handle
    BY <1>6, <1>8, <1>9, <1>10, Subsets, Sizes
  <2>2. Cardinality(U) = 0 /\ Cardinality(Unc[a]) = 0 BY <2>1, <1>5, <1>9, Sizes
  <2> QED BY <2>1, <2>2, <1>4, <1>10, Count
<1>14. R # {} => ~ R \subseteq U BY <1>9
<1>15. /\ \A j \in Handle : ptr'[j] # Null => ptr'[j] = ptr[j]
       /\ \A j \in Handle : ptr[j] # Null /\ IsAsking(ptr[j].at) => ptr'[j] = ptr[j]
  BY <1>1, <1>6 DEF HeldBy, Running, IsAsking
<1>16. TypeOK' /\ Authors' /\ Entries' /\ Counted' /\ Blocks'
       /\ Exact' /\ Anchored' /\ Waiting' /\ AnswersMatch'
  BY <1>1, <1>3, <1>4, <1>6, <1>11, <1>12, <1>13, <1>14, <1>15, DiscountKeeps
<1>17. Handles'
  BY <1>1, <1>6, TypeFacts DEF IInv, Handles, Typed, TypedPap, TypedDmn
<1>18. Pending'
  <2>1. \A r \in dmn : r.op = "RC_INC" => r.ref \in Refs'[r.p]
    <3> SUFFICES ASSUME NEW r \in dmn, r.op = "RC_INC" PROVE r.ref \in Refs'[r.p]
      OBVIOUS
    <3>1. r.ref \in Refs[r.p] /\ r.p \in Address /\ r.ref \in Unc[r.p]
      BY TypeFacts DEF IInv, Pending, Typed, TypedDmn, Unc, Uncounted, Counting
    <3> QED BY <3>1, <1>5, <1>6, Subsets DEF Minus
  <2>2. \A f \in Executor : IsPushing(f) => busy[f].ref \in Refs'[busy[f].p]
    <3> SUFFICES ASSUME NEW f \in Executor, IsPushing(f)
                 PROVE  busy[f].ref \in Refs'[busy[f].p]
      OBVIOUS
    <3>1. /\ busy[f].ref \in Refs[busy[f].p] /\ busy[f].p \in Address
          /\ busy[f].ref \in Unc[busy[f].p]
      BY TypeFacts DEF IInv, Pending, Typed, TypedUsers, Unc, Uncounted, InPush
    <3> QED BY <3>1, <1>5, <1>6, Subsets DEF Minus
  <2> QED BY <2>1, <2>2, <1>1 DEF IInv, Pending, IsPushing
<1> QED BY <1>16, <1>17, <1>18 DEF IInv

(* Anybody else drops a pointer by a request to the author.                *)
LEMMA DropAwayKeeps ==
  ASSUME IInv, NEW e \in Executor, NEW h \in Handle, Drop(e, h),
         Uncounted(ptr[h].p) = {}, ~AmAuthor(e, ptr[h].p)
  PROVE  IInv'
<1>1. /\ Running(e) /\ HeldBy(e, h) /\ Mapped(e, ptr[h].p)
      /\ issued' = issued /\ view' = view /\ parent' = parent /\ heap' = heap
      /\ rc' = rc /\ busy' = busy /\ pap' = pap /\ mem' = mem
  BY DEF Drop, tableVars
<1>2. PICK a \in Address : ptr[h].p = a
  BY <1>1, TypeFacts DEF IInv, Typed, TypedUsers, HeldBy
<1>3. PICK r : r = RequestTo("RC_DEC", e, a, h) OBVIOUS
<1>4. dmn' = dmn \cup {r} /\ ptr' = Put(ptr, h, Null)
  BY <1>2, <1>3 DEF Drop, Put
<1>5. /\ r.op = "RC_DEC" /\ r.p = a /\ r.ref = h
      /\ r.to \in Executor /\ IsHome(r.to, a) /\ dmn' \subseteq Request
  BY <1>1, <1>2, <1>3, <1>4, ApplicationAssumption, RequestTyped
<1>6. Unc[a] = {} BY <1>2 DEF Unc
<1>7. /\ ptr' \in [Handle -> Pointer \cup {Null}]
      /\ \A k \in Handle : ptr'[k] = IF k = h THEN Null ELSE ptr[k]
      /\ h \in Refs[a] /\ Refs' = Minus(Refs, a, h)
  BY <1>1, <1>2, <1>4, ObjectGone DEF HeldBy
<1>8. Unc' = Unc /\ Unrel' = Plus(Unrel, a, h)
  BY <1>1, <1>4, <1>5, RequestMade
<1>9. h \notin Unrel[a] /\ \A m \in pap : m.ref # h
  BY <1>1 DEF Unrel, Unreleased, Counting, HeldBy, IInv, Handles
<1>10. SameHomes BY <1>1 DEF SameHomes
<1>11. TypeOK'
  BY <1>1, <1>5, <1>7 DEF IInv, TypeOK, TableTypeOK
<1>12. Authors' /\ Counted' /\ Blocks'
  BY <1>1, <1>4, <1>5, <1>10, SameEntries
<1>13. Entries'
  BY <1>1, <1>7 DEF IInv, Entries, Mapped
<1>14. Handles'
  <2>1. \A q \in dmn : q.op = "RC_DEC" => q.ref # h
    BY <1>1 DEF HeldBy, IInv, Handles
  <2> QED BY <2>1, <1>1, <1>4, <1>5, <1>7, <1>9, TypeFacts
          DEF IInv, Handles, Typed, TypedPap, TypedDmn
<1>15. Pending'
  <2>1. \A q \in dmn : q.op = "RC_INC" => q.ref \in Refs'[q.p]
    <3> SUFFICES ASSUME NEW q \in dmn, q.op = "RC_INC" PROVE q.ref \in Refs'[q.p]
      OBVIOUS
    <3>1. q.ref \in Refs[q.p] /\ q.p \in Address /\ q.ref \in Unc[q.p]
      BY TypeFacts DEF IInv, Pending, Typed, TypedDmn, Unc, Uncounted, Counting
    <3> QED BY <3>1, <1>6, <1>7, Subsets DEF Minus
  <2>2. \A f \in Executor : IsPushing(f) => busy[f].ref \in Refs'[busy[f].p]
    <3> SUFFICES ASSUME NEW f \in Executor, IsPushing(f)
                 PROVE  busy[f].ref \in Refs'[busy[f].p]
      OBVIOUS
    <3>1. /\ busy[f].ref \in Refs[busy[f].p] /\ busy[f].p \in Address
          /\ busy[f].ref \in Unc[busy[f].p]
      BY TypeFacts DEF IInv, Pending, Typed, TypedUsers, Unc, Uncounted, InPush
    <3> QED BY <3>1, <1>6, <1>7, Subsets DEF Minus
  <2> QED BY <2>1, <2>2, <1>1, <1>4, <1>5 DEF IInv, Pending, IsPushing
<1>16. Exact' /\ Anchored'
  <2>1. PICK R : R = Refs[a] \ {h} OBVIOUS
  <2>2. PICK U : U = {} OBVIOUS
  <2>3. PICK D : D = Unrel[a] \cup {h} OBVIOUS
  <2>4. Refs' = Put(Refs, a, R) /\ Unc' = Put(Unc, a, U) /\ Unrel' = Put(Unrel, a, D)
    BY <2>1, <2>2, <2>3, <1>6, <1>7, <1>8, Subsets DEF Put, Plus, Minus
  <2>5. rc'[r.to][a] + Cardinality(U) = Cardinality(R) + Cardinality(D)
    <3>1. /\ Cardinality(R) = Cardinality(Refs[a]) - 1 /\ Cardinality(Refs[a]) \in Nat
          /\ Cardinality(D) = Cardinality(Unrel[a]) + 1
          /\ Cardinality(Unrel[a]) \in Nat
      BY <1>7, <1>9, <2>1, <2>3, Subsets, Sizes
    <3>2. rc[r.to][a] + Cardinality(Unc[a]) =
            Cardinality(Refs[a]) + Cardinality(Unrel[a])
      BY <1>5, Count
    <3>3. Cardinality(Unc[a]) = 0 /\ Cardinality(U) = 0
      BY <1>6, <2>2, Subsets, Sizes
    <3>4. rc[r.to][a] \in Nat BY <1>5, Count
    <3> QED BY <3>1, <3>2, <3>3, <3>4, <1>1
  <2>6. R # {} => ~ R \subseteq U BY <2>2
  <2>7. OtherCounts(a) BY <1>1 DEF OtherCounts
  <2> QED BY <2>4, <2>5, <2>6, <2>7, <1>5, <1>10, OneAddress
<1>17. Waiting' /\ AnswersMatch'
  <2>1. \A j \in Handle : ptr[j] # Null /\ IsAsking(ptr[j].at) => ptr'[j] = ptr[j]
    BY <1>1, <1>7 DEF HeldBy, Running, IsAsking
  <2> QED BY <2>1, <1>1, <1>4, <1>5, <1>10, SameQuestions
<1> QED BY <1>11, <1>12, <1>13, <1>14, <1>15, <1>16, <1>17 DEF IInv

(* The RC_DEC handler discounts the reference the request names.           *)
LEMMA DmnRcDecKeeps ==
  ASSUME IInv, NEW r \in dmn, DmnRcDec(r)
  PROVE  IInv'
<1>1. /\ r.op = "RC_DEC" /\ dmn' = dmn \ {r}
      /\ ptr' = ptr /\ busy' = busy /\ pap' = pap /\ mem' = mem
  BY DEF DmnRcDec
<1>2. PICK e \in Executor, a \in Address, k \in Handle :
        r.to = e /\ r.p = a /\ r.ref = k
  BY <1>1, TypeFacts DEF IInv, Typed, TypedDmn
<1>3. Discount(e, a) BY <1>2 DEF DmnRcDec
<1>4. IsHome(e, a) BY <1>2 DEF IInv, Authors
<1>5. /\ k \in Unrel[a]
      /\ Unc' = Unc /\ Unrel' = Minus(Unrel, a, k)
  BY <1>1, <1>2, RequestDone
<1>6. Refs' = Refs BY <1>1 DEF Refs, References, Held, Sent
<1>7. PICK R \in SUBSET Handle : R = Refs[a] BY Subsets
<1>8. PICK U \in SUBSET R : U = Unc[a]
  BY <1>7, UncountedAlive DEF IInv
<1>9. PICK D \in SUBSET Handle : D = Unrel[a] \ {k} BY Subsets
<1>10. Refs' = Put(Refs, a, R) /\ Unc' = Put(Unc, a, U) /\ Unrel' = Put(Unrel, a, D)
  BY <1>5, <1>6, <1>7, <1>8, <1>9, Subsets DEF Put, Minus
<1>11. rc[e][a] > 0 BY <1>4, <1>5, Count
<1>12. rc[e][a] - 1 + Cardinality(U) = Cardinality(R) + Cardinality(D)
  <2>1. /\ Cardinality(D) = Cardinality(Unrel[a]) - 1
        /\ Cardinality(Unrel[a]) \in Nat /\ Cardinality(R) \in Nat
        /\ Cardinality(U) \in Nat
    BY <1>5, <1>7, <1>8, <1>9, Subsets, Sizes
  <2> QED BY <2>1, <1>4, <1>7, <1>8, Count
<1>13. R # {} => ~ R \subseteq U BY <1>7, <1>8 DEF IInv, Anchored
<1>14. ptr' \in [Handle -> Pointer \cup {Null}] BY <1>1 DEF IInv, TypeOK
<1>15. TypeOK' /\ Authors' /\ Entries' /\ Counted' /\ Blocks'
       /\ Exact' /\ Anchored' /\ Waiting' /\ AnswersMatch'
  BY <1>1, <1>3, <1>4, <1>10, <1>11, <1>12, <1>13, <1>14, DiscountKeeps
<1>16. Handles'
  BY <1>1 DEF IInv, Handles
<1>17. Pending'
  BY <1>1, <1>6 DEF IInv, Pending, IsPushing
<1> QED BY <1>15, <1>16, <1>17 DEF IInv

-----------------------------------------------------------------------------
(* Questions and answers *)

(* A question goes to the home of the address, and is the only one.        *)
LEMMA AskKeeps ==
  ASSUME IInv, NEW e \in Executor, NEW h \in Handle,
         NEW op \in {"RLOAD", "RC_GET"}, Ask(e, h, op)
  PROVE  IInv'
<1>1. /\ Running(e) /\ HeldBy(e, h) /\ Mapped(e, ptr[h].p)
      /\ issued' = issued /\ view' = view /\ parent' = parent /\ heap' = heap
      /\ ptr' = ptr /\ rc' = rc /\ pap' = pap /\ mem' = mem
  BY DEF Ask, tableVars
<1>2. PICK a \in Address : ptr[h].p = a
  BY <1>1, TypeFacts DEF IInv, Typed, TypedUsers, HeldBy
<1>3. PICK r : r = RequestTo(op, e, a, Null) OBVIOUS
<1>4. PICK w : w = [op |-> op, p |-> a, to |-> view[e][a].author] OBVIOUS
<1>5. dmn' = dmn \cup {r} /\ busy' = Put(busy, e, w)
  BY <1>2, <1>3, <1>4 DEF Ask, Put
<1>6. /\ r.op = op /\ r.from = e /\ r.p = a /\ r.to = view[e][a].author
      /\ r.to \in Executor /\ IsHome(r.to, a) /\ dmn' \subseteq Request
  BY <1>1, <1>2, <1>3, <1>5, ApplicationAssumption, RequestTyped
<1>7. /\ w \in Asking /\ w # Null /\ w.op = op /\ w.op # "push"
      /\ w.p = a /\ w.to = r.to
      /\ w = [op |-> r.op, p |-> r.p, to |-> r.to]
  <2>1. w \in Asking /\ w.op = op /\ w.p = a /\ w.to = r.to
        /\ w = [op |-> r.op, p |-> r.p, to |-> r.to]
    BY <1>4, <1>6 DEF Asking
  <2> QED BY <2>1, BusyAssumption
<1>8. /\ busy' \in [Executor -> Pushing \cup Asking \cup {Null}]
      /\ busy'[e] = w /\ \A f \in Executor : f # e => busy'[f] = busy[f]
  <2>1. busy \in [Executor -> Pushing \cup Asking \cup {Null}] BY DEF IInv, TypeOK
  <2> QED BY <2>1, <1>5, <1>7 DEF Put
<1>9. ~IsPushing(e) /\ ~IsAsking(e) BY <1>1 DEF Running, IsPushing, IsAsking
<1>10. \A f \in Executor : busy'[f] # Null /\ busy'[f].op = "push" =>
         IsPushing(f) /\ busy'[f] = busy[f]
  BY <1>7, <1>8 DEF IsPushing
<1>11. Refs' = Refs BY <1>1 DEF Refs, References, Held, Sent
<1>12. Unc' = Unc /\ Unrel' = Unrel
  <2>1. \A b \in Address : InPush(b)' = InPush(b)
    BY <1>7, <1>8, <1>9 DEF InPush, IsPushing
  <2>2. \A b \in Address : Unc'[b] = Unc[b] /\ Unrel'[b] = Unrel[b]
    BY <2>1, <1>5, <1>6 DEF Unc, Uncounted, Unrel, Unreleased, Counting
  <2> QED BY <2>2, RefsFunction
<1>13. SameHomes BY <1>1 DEF SameHomes
<1>14. TypeOK'
  BY <1>1, <1>6, <1>8 DEF IInv, TypeOK, TableTypeOK
<1>15. Authors' /\ Counted' /\ Blocks'
  BY <1>1, <1>5, <1>6, <1>13, SameEntries
<1>16. Entries'
  BY <1>1 DEF IInv, Entries, Mapped
<1>17. Handles'
  BY <1>1, <1>5, <1>6 DEF IInv, Handles
<1>18. Pending'
  BY <1>1, <1>5, <1>6, <1>10, <1>11 DEF IInv, Pending, IsPushing
<1>19. Exact' /\ Anchored'
  BY <1>1, <1>11, <1>12 DEF IInv, Exact, Anchored, IsHome
<1>20. Waiting'
  <2>1. Asks' = Asks \cup {r} BY <1>5, <1>6 DEF Asks
  <2>2. \A q \in Asks : IsAsking(q.from) /\ q.from \in Executor
                        /\ busy[q.from] = [op |-> q.op, p |-> q.p, to |-> q.to]
    BY TypeFacts DEF IInv, Waiting, Asks, Typed, TypedDmn
  <2>3. \A q \in Asks : q.from # e BY <2>2, <1>9
  <2>4. \A s \in mem : s.to # e BY <1>9 DEF IInv, AnswersMatch
  <2>5. ASSUME NEW f \in Executor, busy'[f] # Null, busy'[f].op # "push"
        PROVE  /\ \E j \in Handle : ptr'[j] # Null /\ ptr'[j].at = f
                                    /\ ptr'[j].p = busy'[f].p
               /\ rc'[busy'[f].to][busy'[f].p] # Null
    <3>1. CASE f = e
      BY <3>1, <1>1, <1>2, <1>6, <1>7, <1>8 DEF HeldBy, IsHome
    <3>2. CASE f # e
      BY <3>2, <2>5, <1>1, <1>8 DEF IInv, Waiting, IsAsking, HeldBy, IsHome
    <3> QED BY <3>1, <3>2
  <2>6. \A q \in Asks' : /\ busy'[q.from] # Null /\ busy'[q.from].op # "push"
                         /\ busy'[q.from] = [op |-> q.op, p |-> q.p, to |-> q.to]
    <3>1. \A q \in Asks : busy'[q.from] = busy[q.from] BY <2>2, <2>3, <1>8
    <3>2. ASSUME NEW q \in Asks
          PROVE  /\ busy'[q.from] # Null /\ busy'[q.from].op # "push"
                 /\ busy'[q.from] = [op |-> q.op, p |-> q.p, to |-> q.to]
      BY <3>1, <2>2 DEF IsAsking
    <3> QED BY <3>2, <2>1, <1>6, <1>7, <1>8 DEF IsAsking
  <2>7. \A q, u \in Asks' : q.from = u.from => q = u
    BY <2>1, <2>3, <1>6 DEF IInv, Waiting
  <2>8. \A s \in mem' : \A q \in Asks' : q.from # s.to
    BY <2>1, <2>4, <1>1, <1>6 DEF IInv, Waiting
  <2> QED BY <2>5, <2>6, <2>7, <2>8 DEF Waiting, IsAsking, HeldBy, IsHome
<1>21. AnswersMatch'
  <2>1. ASSUME NEW s \in mem
        PROVE  /\ busy'[s.to] = busy[s.to] /\ IsAsking(s.to)
    BY <2>1, <1>8, <1>9, TypeFacts DEF IInv, AnswersMatch, Typed, TypedMem
  <2> QED BY <2>1, <1>1 DEF IInv, AnswersMatch, IsAsking
<1> QED BY <1>14, <1>15, <1>16, <1>17, <1>18, <1>19, <1>20, <1>21 DEF IInv

(* Who takes an answer took the only one, and asks no more.                *)
LEMMA AnsweredKeeps ==
  ASSUME IInv, NEW e \in Executor, Answered(e)
  PROVE  IInv'
<1>1. /\ IsAsking(e)
      /\ issued' = issued /\ view' = view /\ parent' = parent /\ heap' = heap
      /\ ptr' = ptr /\ rc' = rc /\ pap' = pap /\ dmn' = dmn
      /\ busy' = Put(busy, e, Null)
  BY DEF Answered, tableVars, Put
<1>2. PICK s \in mem : s.to = e /\ mem' = mem \ {s} BY DEF Answered
<1>3. /\ busy' \in [Executor -> Pushing \cup Asking \cup {Null}]
      /\ busy'[e] = Null /\ \A f \in Executor : f # e => busy'[f] = busy[f]
  <2>1. busy \in [Executor -> Pushing \cup Asking \cup {Null}] BY DEF IInv, TypeOK
  <2> QED BY <2>1, <1>1 DEF Put
<1>4. \A f \in Executor : busy'[f] # Null => busy'[f] = busy[f] /\ f # e
  BY <1>3
<1>5. ~IsPushing(e) BY <1>1 DEF IsAsking, IsPushing
<1>6. Refs' = Refs BY <1>1 DEF Refs, References, Held, Sent
<1>7. Unc' = Unc /\ Unrel' = Unrel
  <2>1. \A b \in Address : InPush(b)' = InPush(b)
    BY <1>3, <1>5 DEF InPush, IsPushing
  <2>2. \A b \in Address : Unc'[b] = Unc[b] /\ Unrel'[b] = Unrel[b]
    BY <2>1, <1>1 DEF Unc, Uncounted, Unrel, Unreleased, Counting
  <2> QED BY <2>2, RefsFunction
<1>8. SameHomes BY <1>1 DEF SameHomes
<1>9. TypeOK'
  BY <1>1, <1>2, <1>3 DEF IInv, TypeOK, TableTypeOK
<1>10. Authors' /\ Counted' /\ Blocks'
  BY <1>1, <1>8, SameEntries
<1>11. Entries' /\ Handles'
  BY <1>1 DEF IInv, Entries, Handles, Mapped
<1>12. Pending'
  BY <1>1, <1>4, <1>6 DEF IInv, Pending, IsPushing
<1>13. Exact' /\ Anchored'
  BY <1>1, <1>6, <1>7 DEF IInv, Exact, Anchored, IsHome
<1>14. \A t \in mem' : t \in mem /\ t.to # e
  BY <1>2 DEF IInv, AnswersMatch
<1>15. Asks' = Asks /\ \A q \in Asks : q.from # e /\ q.from \in Executor
  BY <1>1, <1>2, TypeFacts DEF Asks, IInv, Waiting, Typed, TypedDmn
<1>16. Waiting'
  BY <1>1, <1>3, <1>4, <1>14, <1>15
     DEF IInv, Waiting, IsAsking, HeldBy, IsHome
<1>17. AnswersMatch'
  <2>1. ASSUME NEW t \in mem'
        PROVE  /\ t \in mem /\ busy'[t.to] = busy[t.to] /\ IsAsking(t.to)
    BY <2>1, <1>3, <1>14, TypeFacts DEF IInv, AnswersMatch, Typed, TypedMem
  <2>2. \A t \in mem' : IsAsking(t.to)' BY <2>1 DEF IsAsking
  <2>3. AnswersMatch BY DEF IInv
  <2> QED BY <2>1, <2>2, <2>3, <1>1 DEF AnswersMatch
<1> QED BY <1>9, <1>10, <1>11, <1>12, <1>13, <1>16, <1>17 DEF IInv

(* The RLOAD and RC_GET handlers answer the one who waits for it.          *)
LEMMA DmnReplyKeeps ==
  ASSUME IInv, NEW r \in dmn, DmnReply(r)
  PROVE  IInv'
<1>1. /\ r.op \in {"RC_GET", "RLOAD"} /\ dmn' = dmn \ {r}
      /\ issued' = issued /\ view' = view /\ parent' = parent /\ heap' = heap
      /\ ptr' = ptr /\ rc' = rc /\ busy' = busy /\ pap' = pap
      /\ Backs(r.to, r.p)
  BY DEF DmnReply, tableVars, Serviceable
<1>2. PICK e \in Executor, f \in Executor, a \in Address :
        r.to = e /\ r.from = f /\ r.p = a
  BY TypeFacts DEF IInv, Typed, TypedDmn
<1>3. /\ IsHome(e, a) /\ Backs(e, a) /\ view[e][a].committed \in Cell
      /\ heap[e][view[e][a].committed] # Null
  BY <1>1, <1>2, TypeFacts
     DEF IInv, Authors, Blocks, Backs, Typed, TypedTables
<1>4. r \in Asks BY <1>1 DEF Asks
<1>5. /\ IsAsking(f) /\ busy[f].op = r.op /\ busy[f].p = a /\ busy[f].to = e
      /\ \A q \in Asks : q # r => q.from # f
      /\ \A t \in mem : t.to # f
  <2>1. IsAsking(f) /\ busy[f] = [op |-> r.op, p |-> a, to |-> e]
    BY <1>2, <1>4 DEF IInv, Waiting
  <2>2. \A q \in Asks : q # r => q.from # f BY <1>2, <1>4 DEF IInv, Waiting
  <2>3. \A t \in mem : t.to # f BY <1>2, <1>4 DEF IInv, Waiting
  <2> QED BY <2>1, <2>2, <2>3
<1>6. PICK s : s = [op |-> r.op, from |-> e, to |-> f, value |-> Reply(r)] OBVIOUS
<1>7. /\ mem' = mem \cup {s}
      /\ s.op = r.op /\ s.from = e /\ s.to = f /\ s.value = Reply(r)
  BY <1>2, <1>6 DEF DmnReply
<1>8. /\ r.op = "RLOAD" => Reply(r) = heap[e][view[e][a].committed]
                           /\ Reply(r) \in Value
      /\ r.op = "RC_GET" => Reply(r) \in 0 .. RcRange - 1
  <2>1. heap[e][view[e][a].committed] \in Value
    BY <1>3 DEF IInv, TypeOK, TableTypeOK
  <2>2. rc[e][a] \in 0 .. RcRange - 1 BY <1>3 DEF IsHome, IInv, TypeOK
  <2> QED BY <2>1, <2>2, <1>2 DEF Reply
<1>9. s \in Answer BY <1>1, <1>6, <1>8 DEF Answer
<1>10. Asks' = Asks \ {r} BY <1>1 DEF Asks
<1>11. /\ Refs' = Refs /\ Unc' = Unc /\ Unrel' = Unrel /\ dmn' \subseteq Request
  <2>1. Refs' = Refs BY <1>1 DEF Refs, References, Held, Sent
  <2> QED BY <2>1, <1>1, <1>2, RequestDone
<1>12. SameHomes BY <1>1 DEF SameHomes
<1>13. TypeOK'
  BY <1>1, <1>7, <1>9, <1>11 DEF IInv, TypeOK, TableTypeOK
<1>14. Authors' /\ Counted' /\ Blocks'
  BY <1>1, <1>12, SameEntries
<1>15. Entries' /\ Handles'
  BY <1>1 DEF IInv, Entries, Handles, Mapped
<1>16. Pending'
  BY <1>1, <1>11 DEF IInv, Pending, IsPushing
<1>17. Exact' /\ Anchored'
  BY <1>1, <1>11 DEF IInv, Exact, Anchored, IsHome
<1>18. Waiting'
  <2>1. \A t \in mem' : \A q \in Asks' : q.from # t.to
    BY <1>5, <1>7, <1>10 DEF IInv, Waiting
  <2> QED BY <2>1, <1>1, <1>10 DEF IInv, Waiting, IsAsking, HeldBy, IsHome
<1>19. AnswersMatch'
  <2>1. \A t, u \in mem' : t.to = u.to => t = u
    BY <1>5, <1>7 DEF IInv, AnswersMatch
  <2>2. ASSUME NEW t \in mem'
        PROVE  /\ IsAsking(t.to) /\ busy[t.to].op = t.op /\ busy[t.to].to = t.from
               /\ t.op = "RLOAD" =>
                    t.value = heap[t.from][view[t.from][busy[t.to].p].committed]
               /\ t.op = "RC_GET" => t.value \in 0 .. RcRange - 1
    <3>1. CASE t = s BY <3>1, <1>5, <1>7, <1>8
    <3>2. CASE t \in mem BY <3>2 DEF IInv, AnswersMatch
    <3> QED BY <3>1, <3>2, <1>7
  <2> QED BY <2>1, <2>2, <1>1 DEF AnswersMatch, IsAsking
<1> QED BY <1>13, <1>14, <1>15, <1>16, <1>17, <1>18, <1>19 DEF IInv

-----------------------------------------------------------------------------
(* New memory *)

(* Nobody knows an address that make_global has not generated.             *)
LEMMA Unknown ==
  ASSUME IInv, NEW a \in FreshAddresses
  PROVE  /\ a \in Address /\ a \notin issued
         /\ \A f \in Executor : rc[f][a] = Null /\ view[f][a] = Null
         /\ Refs[a] = {} /\ Unc[a] = {} /\ Unrel[a] = {}
         /\ \A m \in pap : m.p # a
         /\ \A r \in dmn : r.p # a
         /\ \A h \in Handle : ptr[h] # Null => ptr[h].p # a
<1>1. a \in Address /\ a \notin issued BY DEF FreshAddresses
<1>2. \A f \in Executor : ~IsHome(f, a) BY <1>1 DEF IInv, Authors
<1>3. \A f \in Executor : ~Mapped(f, a) BY <1>1, <1>2 DEF IInv, Authors
<1>4. \A m \in pap : m.p # a
  BY <1>2, TypeFacts DEF IInv, Authors, Typed, TypedPap
<1>5. \A r \in dmn : r.p # a
  BY <1>2, TypeFacts DEF IInv, Authors, Typed, TypedDmn
<1>6. \A h \in Handle : ptr[h] # Null => ptr[h].p # a
  BY <1>3, TypeFacts DEF IInv, Entries, Typed, TypedUsers
<1>7. Refs[a] = {} BY <1>1, <1>4, <1>6 DEF Refs, References, Held, Sent
<1>8. Unc[a] = {} BY <1>1, <1>7, UncountedAlive DEF IInv
<1>9. Unrel[a] = {} BY <1>1, <1>5 DEF Unrel, Unreleased, Counting
<1> QED BY <1>1, <1>2, <1>3, <1>4, <1>5, <1>6, <1>7, <1>8, <1>9
        DEF IsHome, Mapped

(* make_public: one reference to new memory, counted at once.              *)
LEMMA MakeKeeps ==
  ASSUME IInv, NEW e \in Executor, NEW v \in Value, Make(e, v)
  PROVE  IInv'
<1>1. /\ Running(e) /\ parent' = parent /\ busy' = busy
      /\ pap' = pap /\ dmn' = dmn /\ mem' = mem
  BY DEF Make, linkVars
<1>2. PICK a \in FreshAddresses, c \in FreeCells(e), h \in FreshHandles :
        /\ issued' = issued \cup {a}
        /\ view' = [view EXCEPT ![e][a] = PublicEntry(e, c)]
        /\ heap' = [heap EXCEPT ![e][c] = v]
        /\ rc' = [rc EXCEPT ![e][a] = 1]
        /\ ptr' = [ptr EXCEPT ![h] = [p |-> a, at |-> e]]
  <2>1. PICK a \in FreshAddresses, c \in FreeCells(e), h \in FreshHandles :
          /\ issued' = issued \cup {a}
          /\ view' = [view EXCEPT ![e][a] = PublicEntry(e, c)]
          /\ heap' = [heap EXCEPT ![e][c] = v]
          /\ RcInit(e, a)
          /\ ptr' = [ptr EXCEPT ![h] = [p |-> a, at |-> e]]
    BY Zenon DEF Make
  <2>2. rc' = [rc EXCEPT ![e][a] = 1] BY <2>1 DEF RcInit
  <2> QED BY <2>1, <2>2
<1>3. /\ a \in Address /\ a \notin issued
      /\ \A f \in Executor : rc[f][a] = Null /\ view[f][a] = Null
      /\ Refs[a] = {} /\ Unc[a] = {} /\ Unrel[a] = {}
      /\ \A m \in pap : m.p # a
      /\ \A r \in dmn : r.p # a
      /\ \A j \in Handle : ptr[j] # Null => ptr[j].p # a
  BY Unknown
<1>4. c \in Cell /\ heap[e][c] = Null BY DEF FreeCells
<1>5. /\ h \in Handle /\ ptr[h] = Null
      /\ \A m \in pap : m.ref # h
      /\ \A r \in dmn : r.op \in {"RC_INC", "RC_DEC"} => r.ref # h
      /\ \A f \in Executor : IsPushing(f) => busy[f].ref # h
      /\ \A b \in Address : h \notin Refs[b] /\ h \notin Unc[b] /\ h \notin Unrel[b]
  BY FreshFacts DEF IInv
<1>6. PICK x \in Pointer : x.p = a /\ x.at = e /\ ptr' = Put(ptr, h, x)
  BY <1>2, <1>3 DEF Pointer, Put
<1>7. /\ ptr' \in [Handle -> Pointer \cup {Null}]
      /\ \A j \in Handle : ptr'[j] = IF j = h THEN x ELSE ptr[j]
      /\ x # Null /\ Refs' = Plus(Refs, a, h)
  BY <1>1, <1>3, <1>6, ObjectMade DEF IInv
<1>8. PICK y : y = PublicEntry(e, c) OBVIOUS
<1>9. /\ y \in Entry /\ y # Null /\ y.committed = c /\ y.author = e
      /\ y.access_level = "public"
  <2>1. /\ y \in Entry /\ y.committed = c /\ y.author = e
        /\ y.access_level = "public"
    BY <1>4, <1>8 DEF PublicEntry, Entry, AccessLevel
  <2> QED BY <2>1, ViewAssumption
<1>10. TableTypeOK BY DEF IInv, TypeOK
<1>11. /\ view' \in [Executor -> [Address -> Entry \cup {Null}]]
       /\ view'[e][a] = y
       /\ \A f \in Executor, b \in Address :
             f # e \/ b # a => view'[f][b] = view[f][b]
  <2>1. view' = [view EXCEPT ![e][a] = y] BY <1>2, <1>8
  <2> QED BY <2>1, <1>3, <1>9, <1>10 DEF TableTypeOK
<1>12. /\ heap' \in [Executor -> [Cell -> Value \cup {Null}]]
       /\ heap'[e][c] = v /\ v # Null
       /\ \A f \in Executor, d \in Cell :
             f # e \/ d # c => heap'[f][d] = heap[f][d]
  BY <1>2, <1>4, <1>10, ViewAssumption DEF TableTypeOK
<1>13. 1 \in 0 .. RcRange - 1 /\ 1 # Null
  <2>1. /\ {} \in SUBSET Handle /\ {h} \in SUBSET Handle /\ {} \cup {h} = {h}
        /\ h \in Handle \ {}
    BY <1>5
  <2>2. Cardinality({}) = 0 /\ Cardinality({} \cup {h}) = Cardinality({}) + 1
    BY <2>1, Sizes
  <2>3. /\ Cardinality({h}) <= Cardinality(Handle) /\ Cardinality(Handle) \in Nat
    BY <2>1, Sizes
  <2>4. Cardinality({h}) = 1 BY <2>1, <2>2
  <2> QED BY <2>3, <2>4, ApplicationAssumption
<1>14. /\ rc' \in [Executor -> [Address -> 0 .. RcRange - 1 \cup {Null}]]
       /\ rc'[e][a] = 1
       /\ \A f \in Executor, b \in Address :
             f # e \/ b # a => rc'[f][b] = rc[f][b]
  BY <1>2, <1>3, <1>13 DEF IInv, TypeOK
<1>15. Unc' = Unc /\ Unrel' = Unrel
  BY <1>1 DEF Unc, Uncounted, Unrel, Unreleased, Counting, InPush, IsPushing
<1>16. TypeOK'
  <2>1. TableTypeOK' BY <1>1, <1>2, <1>3, <1>10, <1>11, <1>12 DEF TableTypeOK
  <2> QED BY <2>1, <1>1, <1>7, <1>14 DEF IInv, TypeOK
<1>17. Authors'
  <2>1. ASSUME NEW f \in Executor, NEW b \in Address, rc'[f][b] # Null
        PROVE  b \in issued' /\ (b = a => f = e) /\ (b # a => rc[f][b] # Null)
    BY <2>1, <1>2, <1>3, <1>14 DEF IInv, Authors, IsHome
  <2>2. \A f, g \in Executor, b \in Address :
          rc'[f][b] # Null /\ rc'[g][b] # Null => f = g
    BY <2>1 DEF IInv, Authors, IsHome
  <2>3. \A f \in Executor, b \in Address :
          b # a /\ rc[f][b] # Null => rc'[f][b] # Null
    BY <1>14
  <2>4. ASSUME NEW f \in Executor, NEW b \in Address, view'[f][b] # Null
        PROVE  /\ view'[f][b].author \in Executor
               /\ rc'[view'[f][b].author][b] # Null
               /\ view'[f][b].access_level = "public"
    <3>1. CASE f = e /\ b = a BY <3>1, <1>9, <1>11, <1>13, <1>14
    <3>2. CASE f # e \/ b # a
      <4>1. view'[f][b] = view[f][b] /\ b # a BY <3>2, <2>4, <1>3, <1>11
      <4> QED BY <4>1, <2>3, <2>4 DEF IInv, Authors, Mapped, IsHome
    <3> QED BY <3>1, <3>2
  <2>5. \A m \in pap' : rc'[m.author][m.p] # Null /\ m.to # m.author
    BY <2>3, <1>1, <1>3, TypeFacts DEF IInv, Authors, IsHome, Typed, TypedPap
  <2>6. \A r \in dmn' : rc'[r.to][r.p] # Null
    BY <2>3, <1>1, <1>3, TypeFacts DEF IInv, Authors, IsHome, Typed, TypedDmn
  <2> QED BY <2>1, <2>2, <2>4, <2>5, <2>6 DEF Authors, IsHome, Mapped
<1>18. Entries'
  <2>1. \A j \in Handle : ptr'[j] # Null => view'[ptr'[j].at][ptr'[j].p] # Null
    BY <1>3, <1>6, <1>7, <1>9, <1>11, TypeFacts
       DEF IInv, Entries, Mapped, Typed, TypedUsers
  <2> QED BY <2>1 DEF Entries, Mapped
<1>19. Counted'
  <2>1. ASSUME NEW f \in Executor, NEW b \in Address, rc'[f][b] # Null, rc'[f][b] # 0
        PROVE  view'[f][b] # Null /\ view'[f][b].committed # Null
    <3>1. CASE f = e /\ b = a BY <3>1, <1>4, <1>9, <1>11, ViewAssumption
    <3>2. CASE f # e \/ b # a
      BY <3>2, <2>1, <1>11, <1>14 DEF IInv, Counted, IsHome, Backs, Mapped
    <3> QED BY <3>1, <3>2
  <2> QED BY <2>1 DEF Counted, IsHome, Backs, Mapped
<1>20. ASSUME NEW f \in Executor, NEW b \in Address, Backs(f, b)
       PROVE  /\ b # a /\ view[f][b].committed \in Cell
              /\ f # e \/ view[f][b].committed # c
              /\ view'[f][b] = view[f][b]
              /\ heap'[f][view[f][b].committed] = heap[f][view[f][b].committed]
              /\ heap[f][view[f][b].committed] # Null
  <2>1. b # a BY <1>20, <1>3 DEF Backs, Mapped
  <2>2. view[f][b].committed \in Cell /\ heap[f][view[f][b].committed] # Null
    BY <1>20, TypeFacts DEF IInv, Typed, TypedTables, Backs, Blocks
  <2> QED BY <2>1, <2>2, <1>4, <1>11, <1>12
<1>21. Blocks'
  <2>1. ASSUME NEW f \in Executor, NEW b \in Address,
               view'[f][b] # Null, view'[f][b].committed # Null
        PROVE  /\ heap'[f][view'[f][b].committed] # Null /\ rc'[f][b] # Null
               /\ \/ f = e /\ b = a /\ view'[f][b].committed = c
                  \/ /\ b # a /\ Backs(f, b) /\ view'[f][b] = view[f][b]
                     /\ f # e \/ view'[f][b].committed # c
    <3>1. CASE f = e /\ b = a BY <3>1, <1>9, <1>11, <1>12, <1>13, <1>14
    <3>2. CASE f # e \/ b # a
      <4>1. view'[f][b] = view[f][b] BY <3>2, <1>11
      <4>2. Backs(f, b) BY <4>1, <2>1 DEF Backs, Mapped
      <4>3. rc'[f][b] # Null BY <4>2, <3>2, <1>14 DEF IInv, Blocks, IsHome
      <4> QED BY <4>1, <4>2, <4>3, <1>20
    <3> QED BY <3>1, <3>2
  <2>2. \A f \in Executor, b, d \in Address :
          Backs(f, b) /\ Backs(f, d) /\ b # d =>
             view[f][b].committed # view[f][d].committed
    BY DEF IInv, Blocks
  <2> QED BY <2>1, <2>2 DEF Blocks, Backs, Mapped, IsHome
<1>22. Handles'
  BY <1>1, <1>5, <1>7, TypeFacts DEF IInv, Handles, Typed, TypedPap, TypedDmn
<1>23. Pending'
  BY <1>1, <1>5, <1>7, Subsets, TypeFacts
     DEF IInv, Pending, Typed, TypedDmn, TypedUsers, IsPushing, Plus
<1>24. /\ Refs'[a] = {h} /\ Unc'[a] = {} /\ Unrel'[a] = {}
       /\ \A b \in Address : b # a => Refs'[b] = Refs[b]
  BY <1>3, <1>7, <1>15, Subsets DEF Plus
<1>25. Anchored'
  BY <1>24, <1>15 DEF IInv, Anchored
<1>26. Exact'
  <2> SUFFICES ASSUME NEW f \in Executor, NEW b \in Address, rc'[f][b] # Null
               PROVE  rc'[f][b] + Cardinality(Unc'[b]) =
                        Cardinality(Refs'[b]) + Cardinality(Unrel'[b])
    BY DEF Exact, IsHome
  <2>1. CASE b = a
    <3>1. rc'[f][b] = 1 BY <2>1, <1>3, <1>14
    <3>2. {} \in SUBSET Handle /\ {} \cup {h} = {h} /\ h \in Handle \ {} BY <1>5
    <3>3. Cardinality({}) = 0 /\ Cardinality({} \cup {h}) = Cardinality({}) + 1
      BY <3>2, Sizes
    <3>4. Cardinality({h}) = 1 BY <3>2, <3>3
    <3> QED BY <3>1, <3>3, <3>4, <2>1, <1>24
  <2>2. CASE b # a
    BY <2>2, <1>14, <1>15, <1>24 DEF IInv, Exact, IsHome
  <2> QED BY <2>1, <2>2
<1>27. Waiting'
  <2>1. Asks' = Asks BY <1>1 DEF Asks
  <2>2. ASSUME NEW f \in Executor, IsAsking(f)
        PROVE  /\ \E j \in Handle : ptr'[j] # Null /\ ptr'[j].at = f
                                    /\ ptr'[j].p = busy[f].p
               /\ rc'[busy[f].to][busy[f].p] # Null
    <3>1. busy[f].p \in Address /\ busy[f].to \in Executor
      BY <2>2, TypeFacts DEF IInv, Typed, TypedUsers
    <3>2. PICK j \in Handle : ptr[j] # Null /\ ptr[j].at = f /\ ptr[j].p = busy[f].p
      BY <2>2 DEF IInv, Waiting, HeldBy
    <3>3. rc[busy[f].to][busy[f].p] # Null BY <2>2 DEF IInv, Waiting, IsHome
    <3>4. ptr'[j] = ptr[j] BY <3>2, <1>5, <1>7
    <3> QED BY <3>1, <3>2, <3>3, <3>4, <1>3, <1>14
  <2> QED BY <2>1, <2>2, <1>1 DEF IInv, Waiting, IsAsking, HeldBy, IsHome
<1>28. AnswersMatch'
  <2>1. ASSUME NEW s \in mem
        PROVE  heap'[s.from][view'[s.from][busy[s.to].p].committed] =
                 heap[s.from][view[s.from][busy[s.to].p].committed]
    <3>1. /\ s.from \in Executor /\ s.to \in Executor /\ IsAsking(s.to)
          /\ busy[s.to].p \in Address /\ IsHome(s.from, busy[s.to].p)
      BY TypeFacts
         DEF IInv, AnswersMatch, Waiting, Typed, TypedMem, TypedUsers
    <3>2. PICK b \in Address : b = busy[s.to].p BY <3>1
    <3>3. PICK j \in Handle : ptr[j] # Null /\ ptr[j].at = s.to /\ ptr[j].p = b
      BY <3>1, <3>2 DEF IInv, Waiting, HeldBy
    <3>4. j \in Refs[b] BY <3>3 DEF Refs, References, Held
    <3>5. PICK f \in Executor : f = s.from BY <3>1
    <3>6. Backs(f, b) BY <3>1, <3>2, <3>4, <3>5, Alive
    <3>7. /\ view'[f][b] = view[f][b]
          /\ heap'[f][view[f][b].committed] = heap[f][view[f][b].committed]
      BY <3>6, <1>20
    <3> QED BY <3>2, <3>5, <3>7
  <2> QED BY <2>1, <1>1 DEF IInv, AnswersMatch, IsAsking
<1> QED BY <1>16, <1>17, <1>18, <1>19, <1>21, <1>22, <1>23, <1>25, <1>26, <1>27,
           <1>28 DEF IInv

-----------------------------------------------------------------------------
(* Induction *)

(* At the start there is nothing.                                          *)
LEMMA InitIInv == Init => IInv
<1> SUFFICES ASSUME Init PROVE IInv OBVIOUS
<1>1. /\ \A e \in Executor, a \in Address : ~IsHome(e, a) /\ ~Mapped(e, a)
      /\ \A h \in Handle : ptr[h] = Null
      /\ \A e \in Executor : busy[e] = Null
      /\ pap = {} /\ dmn = {} /\ mem = {}
  BY DEF Init, TableInit, IsHome, Mapped
<1>2. TypeOK
  <2>1. TableTypeOK BY DEF Init, TableInit, TableTypeOK
  <2> QED BY <2>1 DEF Init, TypeOK
<1>3. \A a \in Address : Refs[a] = {} BY <1>1 DEF Refs, References, Held, Sent
<1>4. Authors /\ Entries /\ Counted /\ Handles BY <1>1
  DEF Authors, Entries, Counted, Handles
<1>5. Pending /\ Exact /\ Anchored /\ Waiting BY <1>1, <1>3
  DEF Pending, IsPushing, Exact, Anchored, Waiting, IsAsking, Asks
<1>6. Blocks /\ AnswersMatch BY <1>1 DEF Blocks, Backs, AnswersMatch
<1> QED BY <1>2, <1>4, <1>5, <1>6 DEF IInv

(* A step of a user thread under the discipline of CountedOnly.            *)
LEMMA UserKeeps ==
  ASSUME IInv, NEW e \in Executor, User(e)
  PROVE  IInv'
<1>1. CASE \E v \in Value : Make(e, v) BY <1>1, MakeKeeps
<1>2. ASSUME NEW h \in Handle, Copy(e, h) PROVE IInv'
  BY <1>2, CopyHomeKeeps, CopyAwayKeeps
<1>3. ASSUME NEW h \in Handle, NEW t \in Executor, ~AuthorOf(h, t), Push(e, h, t)
      PROVE  IInv'
  BY <1>3, PushKeeps
<1>4. ASSUME NEW h \in Handle, Uncounted(ptr[h].p) = {}, Drop(e, h)
      PROVE  IInv'
  BY <1>4, DropHomeKeeps, DropAwayKeeps
<1>5. ASSUME NEW h \in Handle, NEW op \in {"RLOAD", "RC_GET"}, Ask(e, h, op)
      PROVE  IInv'
  BY <1>5, AskKeeps
<1>6. ASSUME NEW m \in pap, Pull(e, m) PROVE IInv'
  BY <1>6, PullKeeps
<1> QED BY <1>1, <1>2, <1>3, <1>4, <1>5, <1>6, CountedOnly DEF User

(* Every step keeps the invariant.                                         *)
LEMMA NextIInv == IInv /\ [Next]_vars => IInv'
<1> SUFFICES ASSUME IInv, [Next]_vars PROVE IInv' OBVIOUS
<1>1. ASSUME NEW e \in Executor, User(e) PROVE IInv'
  BY <1>1, UserKeeps
<1>2. ASSUME NEW e \in Executor, PushCount(e) PROVE IInv'
  BY <1>2, PushCountHomeKeeps, PushCountAwayKeeps
<1>3. ASSUME NEW e \in Executor, Answered(e) PROVE IInv'
  BY <1>3, AnsweredKeeps
<1>4. ASSUME NEW e \in Executor, Daemon(e) PROVE IInv'
  <2>1. PICK r \in dmn : Handled(r) BY <1>4 DEF Daemon
  <2> QED BY <2>1, DmnRcIncKeeps, DmnRcDecKeeps, DmnReplyKeeps DEF Handled
<1>5. ASSUME UNCHANGED vars PROVE IInv'
  <2>1. /\ issued' = issued /\ view' = view /\ parent' = parent /\ heap' = heap
        /\ ptr' = ptr /\ rc' = rc /\ busy' = busy
        /\ pap' = pap /\ dmn' = dmn /\ mem' = mem
    BY <1>5 DEF vars, tableVars, linkVars
  <2>2. Refs' = Refs /\ Unc' = Unc /\ Unrel' = Unrel
    BY <2>1 DEF Refs, References, Held, Sent, Unc, Uncounted, Unrel, Unreleased,
                Counting, InPush, IsPushing
  <2>3. TypeOK' BY <2>1 DEF IInv, TypeOK, TableTypeOK
  <2>4. Authors' /\ Entries' /\ Counted' /\ Handles'
    BY <2>1 DEF IInv, Authors, Entries, Counted, Handles, IsHome, Mapped, Backs
  <2>5. Pending' /\ Exact' /\ Anchored'
    BY <2>1, <2>2 DEF IInv, Pending, Exact, Anchored, IsPushing, IsHome
  <2>6. Waiting' BY <2>1 DEF IInv, Waiting, IsAsking, Asks, HeldBy, IsHome
  <2>7. Blocks' BY <2>1 DEF IInv, Blocks, IsHome, Backs, Mapped
  <2>8. AnswersMatch' BY <2>1 DEF IInv, AnswersMatch, IsAsking
  <2> QED BY <2>3, <2>4, <2>5, <2>6, <2>7, <2>8 DEF IInv
<1> QED BY <1>1, <1>2, <1>3, <1>4, <1>5 DEF Next, Finished

-----------------------------------------------------------------------------
(* What the invariant says *)

(* Every object, every pointer under way and every request names the home  *)
(* of its address as the author, and the home has the memory.              *)
LEMMA Reaches ==
  ASSUME IInv
  PROVE  /\ \A h \in Handle : ptr[h] # Null =>
              /\ ptr[h].at \in Executor /\ ptr[h].p \in Address
              /\ Mapped(ptr[h].at, ptr[h].p)
              /\ Backs(view[ptr[h].at][ptr[h].p].author, ptr[h].p)
         /\ \A m \in pap : Backs(m.author, m.p)
         /\ \A r \in dmn : Backs(r.to, r.p) /\ AmAuthor(r.to, r.p)
<1>1. Typed BY TypeFacts DEF IInv
<1>2. ASSUME NEW h \in Handle, ptr[h] # Null
      PROVE  /\ ptr[h].at \in Executor /\ ptr[h].p \in Address
             /\ Mapped(ptr[h].at, ptr[h].p)
             /\ Backs(view[ptr[h].at][ptr[h].p].author, ptr[h].p)
  <2>1. PICK f \in Executor, a \in Address : ptr[h].at = f /\ ptr[h].p = a
    BY <1>1, <1>2 DEF Typed, TypedUsers
  <2>2. Mapped(f, a) BY <1>2, <2>1 DEF IInv, Entries
  <2>3. view[f][a].author \in Executor /\ IsHome(view[f][a].author, a)
    BY <2>2 DEF IInv, Authors
  <2>4. h \in Refs[a] BY <1>2, <2>1 DEF Refs, References, Held
  <2> QED BY <2>1, <2>2, <2>3, <2>4, Alive
<1>3. ASSUME NEW m \in pap PROVE Backs(m.author, m.p)
  <2>1. /\ m.author \in Executor /\ m.p \in Address /\ IsHome(m.author, m.p)
        /\ m.ref \in Handle
    BY <1>1 DEF IInv, Authors, Typed, TypedPap
  <2>2. m.ref \in Refs[m.p] BY <2>1 DEF Refs, References, Sent
  <2> QED BY <2>1, <2>2, Alive
<1>4. ASSUME NEW r \in dmn PROVE Backs(r.to, r.p) /\ AmAuthor(r.to, r.p)
  <2>1. r.to \in Executor /\ r.p \in Address /\ IsHome(r.to, r.p)
    BY <1>1 DEF IInv, Authors, Typed, TypedDmn
  <2>2. CASE r.op = "RC_INC"
    <3>1. r.ref \in Refs[r.p] BY <2>2 DEF IInv, Pending
    <3> QED BY <3>1, <2>1, Alive
  <2>3. CASE r.op = "RC_DEC"
    <3>1. r.ref \in Handle BY <2>3, <1>1 DEF Typed, TypedDmn
    <3>2. r.ref \in Unrel[r.p] BY <3>1, <2>1, <2>3 DEF Unrel, Unreleased, Counting
    <3> QED BY <3>2, <2>1, Alive
  <2>4. CASE r.op \in {"RLOAD", "RC_GET"}
    <3>1. r \in Asks BY <2>4 DEF Asks
    <3>2. r.from \in Executor BY <1>1 DEF Typed, TypedDmn
    <3>3. IsAsking(r.from) /\ busy[r.from] = [op |-> r.op, p |-> r.p, to |-> r.to]
      BY <3>1 DEF IInv, Waiting
    <3>4. busy[r.from].p = r.p BY <3>3
    <3>5. PICK h \in Handle : HeldBy(r.from, h) /\ ptr[h].p = r.p
      BY <3>2, <3>3, <3>4 DEF IInv, Waiting
    <3>6. h \in Refs[r.p] BY <3>5, <2>1 DEF Refs, References, Held, HeldBy
    <3> QED BY <3>6, <2>1, Alive
  <2> QED BY <2>2, <2>3, <2>4, <1>1 DEF Typed, TypedDmn
<1> QED BY <1>2, <1>3, <1>4

(* The exact count is the one of RcConservation, which allows for a wrap.  *)
LEMMA IInvRcConservation == IInv => RcConservation
<1> SUFFICES ASSUME IInv, NEW e \in Executor, NEW a \in Address, rc[e][a] # Null
             PROVE  rc[e][a] = (Cardinality(References(a)) + Cardinality(Unreleased(a))
                                - Cardinality(Uncounted(a))) % RcRange
  BY DEF RcConservation
<1>1. IsHome(e, a) BY DEF IsHome
<1>2. /\ rc[e][a] \in Nat /\ rc[e][a] < RcRange
      /\ rc[e][a] + Cardinality(Unc[a]) =
            Cardinality(Refs[a]) + Cardinality(Unrel[a])
  BY <1>1, Count
<1>3. /\ Cardinality(Refs[a]) \in Nat /\ Cardinality(Unc[a]) \in Nat
      /\ Cardinality(Unrel[a]) \in Nat
  BY Subsets, Sizes
<1>4. rc[e][a] = Cardinality(Refs[a]) + Cardinality(Unrel[a]) - Cardinality(Unc[a])
  BY <1>2, <1>3
<1>5. rc[e][a] % RcRange = rc[e][a] BY <1>2, NoWrap
<1>6. Refs[a] = References(a) /\ Unc[a] = Uncounted(a) /\ Unrel[a] = Unreleased(a)
  BY DEF Refs, Unc, Unrel
<1> QED BY <1>4, <1>5, <1>6

-----------------------------------------------------------------------------
(* Theorems *)

(* IInv is an invariant of every application that drops only counted       *)
(* pointers, for any number of executors, addresses, references, blocks    *)
(* and values.                                                             *)
THEOREM PublicInductive == Spec => []IInv
BY InitIInv, NextIInv, PTL DEF Spec

(* The tables, the objects, the counts and the messages keep their types.  *)
THEOREM PublicTypes == Spec => []TypeOK
<1>1. IInv => TypeOK BY DEF IInv
<1> QED BY <1>1, PublicInductive, PTL

(* No count wraps: the number in the table of the author is, as a natural  *)
(* number and not modulo its width, that of the references, less those not *)
(* yet counted, plus those dropped and not yet discounted.  One discount   *)
(* too many, or one rc_inc too few before it, would break this equation.   *)
THEOREM CountsExact == Spec => []Exact
<1>1. IInv => Exact BY DEF IInv
<1> QED BY <1>1, PublicInductive, PTL

(* The author's count is right up to the RC_INC and RC_DEC under way and   *)
(* the pushes that are not counted yet.                                    *)
THEOREM CountsRight == Spec => []RcConservation
BY IInvRcConservation, PublicInductive, PTL

(* Public memory is not freed as long as somebody refers to it: the        *)
(* RC_DEC handler and reset() unmap only what nobody holds or is sent.     *)
THEOREM MemoryAlive == Spec => []MemoryHeld
<1>1. IInv => MemoryHeld BY Reaches DEF MemoryHeld
<1> QED BY <1>1, PublicInductive, PTL

(* The asserts of the RC_INC, RC_DEC, RC_GET and RLOAD handlers never fail *)
(* at whatever moment the daemon reads the request.                        *)
THEOREM PublicDaemonSafe == Spec => []DaemonAsserts
<1>1. IInv => DaemonAsserts BY Reaches DEF DaemonAsserts, Serviceable
<1> QED BY <1>1, PublicInductive, PTL

(* The assert of local_load never fails: an author that holds a public     *)
(* pointer has its memory.                                                 *)
THEOREM HoldersSafe == Spec => []HolderAsserts
<1>1. IInv => HolderAsserts BY Reaches DEF HolderAsserts, AmAuthor
<1> QED BY <1>1, PublicInductive, PTL

(* local() and use_count() get the answer to their own question, although  *)
(* answers carry no mark.                                                  *)
THEOREM AnswersRight == Spec => []AnswersMatch
<1>1. IInv => AnswersMatch BY DEF IInv
<1> QED BY <1>1, PublicInductive, PTL

-----------------------------------------------------------------------------
(***************************************************************************)
(* Counted references implement shared memory, for every number of         *)
(* executors, addresses, references, blocks and values: PublicPtr, under   *)
(* the discipline of PublicCounted, implements SharedMemory.               *)
(*                                                                         *)
(* Counts and Contents are what an application sees: how many references   *)
(* to an address there are, and the block its home has for it.  Each       *)
(* action is shown to be one step of SharedMemory, or none; the invariant  *)
(* IInv says that the home is the only one to have a block, and that a     *)
(* count of zero means that nobody refers to the address.                  *)
(***************************************************************************)

-----------------------------------------------------------------------------
(* What the invariant says of the two functions, before and after a step *)

Located ==
  /\ \A e \in Executor, a \in Address :
        Backs(e, a) => Contents[a] = heap[e][view[e][a].committed]
  /\ \A a \in Address :
        (\A e \in Executor : ~Backs(e, a)) => Contents[a] = Null

OneHome ==
  \A e, f \in Executor, a \in Address : Backs(e, a) /\ Backs(f, a) => e = f

Unreferred ==
  \A e \in Executor, a \in Address : IsHome(e, a) /\ rc[e][a] = 0 => Refs[a] = {}

Facts == Located /\ OneHome /\ Unreferred

(* The content of an address is that of the only block there is for it.    *)
LEMMA FactsHold == IInv => Facts
<1> SUFFICES ASSUME IInv PROVE Facts OBVIOUS
<1>1. OneHome BY DEF OneHome, IInv, Blocks, Authors
<1>2. Located
  <2>1. ASSUME NEW e \in Executor, NEW a \in Address, Backs(e, a)
        PROVE  Contents[a] = heap[e][view[e][a].committed]
    <3>1. (CHOOSE f \in Executor : Backs(f, a)) = e
      BY <1>1, <2>1 DEF OneHome
    <3> QED BY <3>1, <2>1 DEF Contents, ContentOf
  <2>2. ASSUME NEW a \in Address, \A e \in Executor : ~Backs(e, a)
        PROVE  Contents[a] = Null
    BY <2>2 DEF Contents, ContentOf
  <2> QED BY <2>1, <2>2 DEF Located
<1>3. Unreferred BY Count DEF Unreferred
<1> QED BY <1>1, <1>2, <1>3 DEF Facts

(* They hold after every step.                                             *)
LEMMA FactsNext == IInv' => Facts'
BY FactsHold, PTL

(* Counts is the size of Refs, before and after a step.                    *)
LEMMA CountsSizes ==
  /\ \A a \in Address : /\ Counts[a] = Cardinality(Refs[a]) /\ Counts[a] \in Nat
                        /\ Counts[a] = 0 <=> Refs[a] = {}
  /\ \A a \in Address : Counts'[a] = Cardinality(Refs'[a])
  /\ Counts = [a \in Address |-> Counts[a]] /\ Counts' = [a \in Address |-> Counts'[a]]
  /\ Contents = [a \in Address |-> Contents[a]]
  /\ Contents' = [a \in Address |-> Contents'[a]]
<1>1. \A a \in Address : Counts[a] = Cardinality(Refs[a]) BY DEF Counts, Refs
<1>2. \A a \in Address : Counts'[a] = Cardinality(Refs'[a]) BY DEF Counts, Refs
<1>3. \A a \in Address : /\ Cardinality(Refs[a]) \in Nat
                         /\ Cardinality(Refs[a]) = 0 <=> Refs[a] = {}
  BY Subsets, Sizes
<1>4. /\ Counts = [a \in Address |-> Counts[a]]
      /\ Counts' = [a \in Address |-> Counts'[a]]
      /\ Contents = [a \in Address |-> Contents[a]]
      /\ Contents' = [a \in Address |-> Contents'[a]]
  BY DEF Counts, Contents
<1> QED BY <1>1, <1>2, <1>3, <1>4

(* A location whose block stays where and as it is keeps its content.      *)
LEMMA ContentKept ==
  ASSUME Facts, Facts', NEW a \in Address,
         \A f \in Executor : Backs(f, a)' <=> Backs(f, a),
         \A f \in Executor : Backs(f, a) =>
            heap'[f][view'[f][a].committed] = heap[f][view[f][a].committed]
  PROVE  Contents'[a] = Contents[a]
<1>1. CASE \E f \in Executor : Backs(f, a)
  <2>1. PICK f \in Executor : Backs(f, a) BY <1>1
  <2>2. Contents[a] = heap[f][view[f][a].committed]
    BY <2>1 DEF Facts, Located
  <2>3. Contents'[a] = heap'[f][view'[f][a].committed]
    BY <2>1 DEF Facts, Located
  <2> QED BY <2>1, <2>2, <2>3
<1>2. CASE \A f \in Executor : ~Backs(f, a)
  BY <1>2 DEF Facts, Located
<1> QED BY <1>1, <1>2

(* A step that leaves the tables and the heap alone changes no content.    *)
LEMMA SameContents ==
  ASSUME Facts, Facts', view' = view, heap' = heap
  PROVE  Contents' = Contents
<1>1. \A a \in Address, f \in Executor : Backs(f, a)' <=> Backs(f, a)
  BY DEF Backs, Mapped
<1>2. \A a \in Address : Contents'[a] = Contents[a] BY <1>1, ContentKept
<1> QED BY <1>2, CountsSizes

(* A step that leaves objects and messages alone changes no count.         *)
LEMMA SameCounts ==
  /\ ptr' = ptr /\ pap' = pap => Refs' = Refs
  /\ Refs' = Refs => Counts' = Counts
<1>1. ptr' = ptr /\ pap' = pap => Refs' = Refs
  BY DEF Refs, References, Held, Sent
<1>2. ASSUME Refs' = Refs PROVE Counts' = Counts
  <2>1. \A a \in Address : Counts'[a] = Counts[a] BY <1>2, CountsSizes
  <2> QED BY <2>1, CountsSizes
<1> QED BY <1>1, <1>2

(* One reference more to an address somebody refers to shares it.          *)
LEMMA Shares ==
  ASSUME NEW a \in Address, NEW k \in Handle, k \notin Refs[a], Refs[a] # {},
         Refs' = Plus(Refs, a, k), Contents' = Contents
  PROVE  Memory!Share(a)
<1>1. Refs'[a] = Refs[a] \cup {k} /\ \A b \in Address : b # a => Refs'[b] = Refs[b]
  BY Subsets DEF Plus
<1>2. Cardinality(Refs[a] \cup {k}) = Cardinality(Refs[a]) + 1
  BY Subsets, Sizes
<1>3. \A b \in Address : Counts'[b] = IF b = a THEN Counts[a] + 1 ELSE Counts[b]
  <2>1. Counts'[a] = Counts[a] + 1
    <3>1. Counts'[a] = Cardinality(Refs'[a]) BY CountsSizes
    <3>2. Counts[a] = Cardinality(Refs[a]) BY CountsSizes
    <3> QED BY <3>1, <3>2, <1>1, <1>2
  <2>2. ASSUME NEW b \in Address, b # a PROVE Counts'[b] = Counts[b]
    <3>1. Counts'[b] = Cardinality(Refs'[b]) BY CountsSizes
    <3>2. Counts[b] = Cardinality(Refs[b]) BY CountsSizes
    <3> QED BY <3>1, <3>2, <1>1, <2>2
  <2> QED BY <2>1, <2>2
<1>4. Counts' = [Counts EXCEPT ![a] = @ + 1] BY <1>3, CountsSizes
<1>5. Counts[a] > 0 BY CountsSizes
<1> QED BY <1>4, <1>5 DEF Memory!Share

(* One reference less releases it.                                         *)
LEMMA Releases ==
  ASSUME NEW a \in Address, NEW h \in Refs[a],
         Refs' = Minus(Refs, a, h),
         \/ Contents' = Contents
         \/ Refs'[a] = {} /\ Contents' = [Contents EXCEPT ![a] = Null]
  PROVE  Memory!Release(a)
<1>1. Refs'[a] = Refs[a] \ {h} /\ \A b \in Address : b # a => Refs'[b] = Refs[b]
  BY Subsets DEF Minus
<1>2. Cardinality(Refs[a] \ {h}) = Cardinality(Refs[a]) - 1
  BY Subsets, Sizes
<1>3. \A b \in Address : Counts'[b] = IF b = a THEN Counts[a] - 1 ELSE Counts[b]
  <2>1. Counts'[a] = Counts[a] - 1
    <3>1. Counts'[a] = Cardinality(Refs'[a]) BY CountsSizes
    <3>2. Counts[a] = Cardinality(Refs[a]) BY CountsSizes
    <3> QED BY <3>1, <3>2, <1>1, <1>2
  <2>2. ASSUME NEW b \in Address, b # a PROVE Counts'[b] = Counts[b]
    <3>1. Counts'[b] = Cardinality(Refs'[b]) BY CountsSizes
    <3>2. Counts[b] = Cardinality(Refs[b]) BY CountsSizes
    <3> QED BY <3>1, <3>2, <1>1, <2>2
  <2> QED BY <2>1, <2>2
<1>4. Counts' = [Counts EXCEPT ![a] = @ - 1] BY <1>3, CountsSizes
<1>5. Counts[a] > 0 BY CountsSizes
<1>6. Refs'[a] = {} => Counts[a] = 1
  <2>1. Refs'[a] = {} => Counts'[a] = 0 BY CountsSizes, FS_EmptySet
  <2> QED BY <2>1, <1>3, CountsSizes
<1> QED BY <1>4, <1>5, <1>6 DEF Memory!Release

-----------------------------------------------------------------------------
(* The steps *)

(* make_public creates a location.                                         *)
LEMMA MakeCreates ==
  ASSUME IInv, Facts, Facts', NEW e \in Executor, NEW v \in Value, Make(e, v)
  PROVE  \E a \in Address : Memory!Create(a, v)
<1>1. PICK a \in FreshAddresses, c \in FreeCells(e), h \in FreshHandles :
        /\ view' = [view EXCEPT ![e][a] = PublicEntry(e, c)]
        /\ heap' = [heap EXCEPT ![e][c] = v]
        /\ ptr' = [ptr EXCEPT ![h] = [p |-> a, at |-> e]]
        /\ pap' = pap
  BY Zenon DEF Make, linkVars
<1>2. /\ a \in Address /\ Refs[a] = {}
      /\ \A f \in Executor : view[f][a] = Null
  BY Unknown
<1>3. c \in Cell /\ heap[e][c] = Null BY DEF FreeCells
<1>4. h \in Handle /\ h \notin Refs[a] BY <1>2, FreshFacts DEF IInv
<1>5. PICK x \in Pointer : x.p = a /\ ptr' = Put(ptr, h, x)
  BY <1>1, <1>2 DEF Pointer, Put
<1>6. Refs' = Plus(Refs, a, h) BY <1>1, <1>2, <1>5, ObjectMade DEF IInv
<1>7. PICK y : y = PublicEntry(e, c) OBVIOUS
<1>8. y.committed = c BY <1>7 DEF PublicEntry
<1>9. y # Null
  <2>1. y \in Entry BY <1>3, <1>7 DEF PublicEntry, Entry, AccessLevel
  <2> QED BY <2>1, ViewAssumption
<1>10. TableTypeOK BY DEF IInv, TypeOK
<1>11. /\ view'[e][a] = y
       /\ \A f \in Executor, b \in Address :
             f # e \/ b # a => view'[f][b] = view[f][b]
  <2>1. view' = [view EXCEPT ![e][a] = y] BY <1>1, <1>7
  <2> QED BY <2>1, <1>2, <1>10 DEF TableTypeOK
<1>12. /\ heap'[e][c] = v
       /\ \A f \in Executor, d \in Cell :
             f # e \/ d # c => heap'[f][d] = heap[f][d]
  BY <1>1, <1>3, <1>10 DEF TableTypeOK
<1>13. Contents[a] = Null
  BY <1>2 DEF Facts, Located, Backs, Mapped
<1>14. Contents'[a] = v
  <2>1. Backs(e, a)' BY <1>3, <1>8, <1>9, <1>11, ViewAssumption DEF Backs, Mapped
  <2>2. Contents'[a] = heap'[e][view'[e][a].committed]
    BY <2>1, <1>2 DEF Facts, Located
  <2> QED BY <2>2, <1>8, <1>11, <1>12
<1>15. ASSUME NEW b \in Address, b # a PROVE Contents'[b] = Contents[b]
  <2>1. \A f \in Executor : view'[f][b] = view[f][b] BY <1>11, <1>15
  <2>2. \A f \in Executor : Backs(f, b)' <=> Backs(f, b)
    BY <2>1 DEF Backs, Mapped
  <2>3. ASSUME NEW f \in Executor, Backs(f, b)
        PROVE  heap'[f][view'[f][b].committed] = heap[f][view[f][b].committed]
    <3>1. view[f][b].committed \in Cell /\ heap[f][view[f][b].committed] # Null
      BY <2>3, TypeFacts DEF IInv, Typed, TypedTables, Backs, Blocks
    <3> QED BY <3>1, <2>1, <1>3, <1>12
  <2> QED BY <2>2, <2>3, ContentKept
<1>16. /\ Refs'[a] = {h} /\ \A b \in Address : b # a => Refs'[b] = Refs[b]
  BY <1>2, <1>6, Subsets DEF Plus
<1>17. Cardinality({}) = 0 /\ Cardinality({h}) = 1
  <2>1. {} \in SUBSET Handle /\ h \in Handle \ {} /\ {} \cup {h} = {h} BY <1>4
  <2>2. Cardinality({}) = 0 /\ Cardinality({} \cup {h}) = Cardinality({}) + 1
    BY <2>1, Sizes
  <2> QED BY <2>1, <2>2
<1>18. Counts' = [Counts EXCEPT ![a] = 1]
  <2>1. Counts'[a] = 1
    <3>1. Counts'[a] = Cardinality(Refs'[a]) BY <1>2, CountsSizes
    <3> QED BY <3>1, <1>16, <1>17
  <2>2. ASSUME NEW b \in Address, b # a PROVE Counts'[b] = Counts[b]
    <3>1. Counts'[b] = Cardinality(Refs'[b]) BY CountsSizes
    <3>2. Counts[b] = Cardinality(Refs[b]) BY CountsSizes
    <3> QED BY <3>1, <3>2, <1>16, <2>2
  <2> QED BY <2>1, <2>2, CountsSizes
<1>19. Contents' = [Contents EXCEPT ![a] = v]
  BY <1>14, <1>15, CountsSizes
<1>20. Counts[a] = 0 BY <1>2, CountsSizes
<1> QED BY <1>2, <1>13, <1>18, <1>19, <1>20 DEF Memory!Create

(* A copy shares, a pushed pointer shares.                                 *)
LEMMA CopyShares ==
  ASSUME IInv, Facts, Facts', NEW e \in Executor, NEW h \in Handle, Copy(e, h)
  PROVE  \E a \in Address : Memory!Share(a)
<1>1. HeldBy(e, h) /\ view' = view /\ heap' = heap /\ pap' = pap
  BY DEF Copy, tableVars
<1>2. PICK x \in Pointer : x = ptr[h]
  BY <1>1, TypeFacts DEF IInv, Typed, TypedUsers, HeldBy
<1>3. PICK a \in Address : x.p = a BY DEF Pointer
<1>4. PICK k \in FreshHandles : ptr' = Put(ptr, k, x)
  BY <1>2 DEF Copy, Put
<1>5. h \in Refs[a] /\ Refs' = Plus(Refs, a, k)
  BY <1>1, <1>2, <1>3, <1>4, CopyObject
<1>6. k \in Handle /\ k \notin Refs[a] BY FreshFacts DEF IInv
<1>7. Contents' = Contents BY <1>1, SameContents
<1> QED BY <1>5, <1>6, <1>7, Shares

LEMMA PushShares ==
  ASSUME IInv, Facts, Facts', NEW e \in Executor, NEW h \in Handle,
         NEW t \in Executor, Push(e, h, t)
  PROVE  \E a \in Address : Memory!Share(a)
<1>1. HeldBy(e, h) /\ view' = view /\ heap' = heap /\ ptr' = ptr
  BY DEF Push, tableVars
<1>2. PICK a \in Address : ptr[h].p = a
  BY <1>1, TypeFacts DEF IInv, Typed, TypedUsers, HeldBy
<1>3. PICK k \in FreshHandles :
        pap' = pap \cup {[from |-> e, to |-> t, p |-> a,
                          author |-> view[e][a].author, ref |-> k]}
  BY <1>2 DEF Push
<1>4. k \in Handle /\ k \notin Refs[a] BY FreshFacts DEF IInv
<1>5. h \in Refs[a] BY <1>1, <1>2 DEF Refs, References, Held, HeldBy
<1>6. Refs' = Plus(Refs, a, k)
  <2>1. PICK m : m = [from |-> e, to |-> t, p |-> a,
                      author |-> view[e][a].author, ref |-> k]
    OBVIOUS
  <2>2. pap' = pap \cup {m} /\ m.p = a /\ m.ref = k BY <2>1, <1>3
  <2>3. \A b \in Address : Refs'[b] = IF b = a THEN Refs[b] \cup {k} ELSE Refs[b]
    BY <2>2, <1>1, <1>4 DEF Refs, References, Held, Sent
  <2> QED BY <2>3, RefsFunction DEF Plus
<1>7. Contents' = Contents BY <1>1, SameContents
<1> QED BY <1>4, <1>5, <1>6, <1>7, Shares

(* A pull changes neither: the pulled entry has no block, nor had the one  *)
(* it replaces.                                                            *)
LEMMA PullStutters ==
  ASSUME IInv, IInv', Facts, Facts', NEW e \in Executor, NEW m \in pap, Pull(e, m)
  PROVE  Counts' = Counts /\ Contents' = Contents
<1>1. /\ m.to = e /\ pap' = pap \ {m} /\ heap' = heap /\ rc' = rc
  BY DEF Pull
<1>2. PICK a \in Address, k \in Handle : m.p = a /\ m.ref = k
  BY TypeFacts DEF IInv, Typed, TypedPap
<1>3. \A f \in Executor, b \in Address :
        f # e \/ b # a => view'[f][b] = view[f][b]
  BY <1>2 DEF Pull, IInv, TypeOK, TableTypeOK
<1>4. ~IsHome(e, a)
  BY <1>1, <1>2, TypeFacts DEF IInv, Authors, Typed, TypedPap
<1>5. ~Backs(e, a) /\ ~Backs(e, a)'
  BY <1>1, <1>4 DEF IInv, Blocks, IsHome
<1>6. ASSUME NEW b \in Address PROVE Contents'[b] = Contents[b]
  <2>1. \A f \in Executor : f # e \/ b # a => (Backs(f, b)' <=> Backs(f, b))
    BY <1>3 DEF Backs, Mapped
  <2>2. \A f \in Executor : Backs(f, b) => view'[f][b] = view[f][b]
    BY <1>3, <1>5
  <2> QED BY <2>1, <2>2, <1>1, <1>5, ContentKept
<1>7. Refs' = Refs
  <2>1. ptr[k] = Null /\ \A n \in pap : n # m => n.ref # k
    BY <1>2 DEF IInv, Handles
  <2>2. PICK x : x = [p |-> a, at |-> e] OBVIOUS
  <2>3. x \in Pointer /\ x # Null /\ x.p = a
    BY <2>2, <1>2, BusyAssumption DEF Pointer
  <2>4. ptr' = [ptr EXCEPT ![k] = x] BY <2>2, <1>2 DEF Pull
  <2>5. ptr'[k] = x /\ \A j \in Handle : j # k => ptr'[j] = ptr[j]
    BY <2>4 DEF IInv, TypeOK
  <2>6. \A b \in Address : Refs'[b] = Refs[b]
    BY <2>1, <2>3, <2>5, <1>1, <1>2 DEF Refs, References, Held, Sent
  <2> QED BY <2>6, RefsFunction
<1> QED BY <1>6, <1>7, CountsSizes, SameCounts

(* Discounting a reference takes the content away, of an address nobody    *)
(* refers to, or changes none.                                             *)
LEMMA DiscountContents ==
  ASSUME IInv, IInv', Facts, Facts', NEW e \in Executor, NEW a \in Address,
         IsHome(e, a), rc[e][a] > 0, Discount(e, a)
  PROVE  \/ Contents' = Contents
         \/ /\ Refs'[a] = {} /\ Contents[a] # Null
            /\ Contents' = [Contents EXCEPT ![a] = Null]
<1>1. rc' = Recounted(rc, e, a, Decremented(rc[e][a]))
  BY DEF Discount, Recounted
<1>2. rc'[e][a] = Decremented(rc[e][a]) /\ rc'[e][a] # Null
  BY <1>1, CountedDown, ApplicationAssumption DEF SameHomes, IsHome
<1>3. CASE rc'[e][a] # 0
  <2>1. view' = view /\ heap' = heap BY <1>2, <1>3 DEF Discount, tableVars
  <2> QED BY <2>1, SameContents
<1>4. CASE rc'[e][a] = 0
  <2>1. Backs(e, a) /\ Unmap(e, a) BY <1>2, <1>4 DEF Discount
  <2>2. /\ \A f \in Executor, b \in Address :
              view'[f][b] = IF f = e /\ b = a THEN Null ELSE view[f][b]
        /\ \A f \in Executor, c \in Cell :
              heap'[f][c] = IF f = e /\ c = view[e][a].committed
                            THEN Null ELSE heap[f][c]
    BY <2>1, UnmapEffect
  <2>3. Refs'[a] = {} BY <1>2, <1>4 DEF Facts, Unreferred, IsHome
  <2>4. Contents[a] # Null BY <2>1 DEF Facts, Located, IInv, Blocks
  <2>5. Contents'[a] = Null
    <3>1. \A f \in Executor : f # e => ~Backs(f, a)
      BY <2>1 DEF Facts, OneHome
    <3>2. \A f \in Executor : ~Backs(f, a)'
      BY <3>1, <2>2 DEF Backs, Mapped
    <3> QED BY <3>2 DEF Facts, Located
  <2>6. ASSUME NEW b \in Address, b # a PROVE Contents'[b] = Contents[b]
    <3>1. \A f \in Executor : view'[f][b] = view[f][b] BY <2>2, <2>6
    <3>2. \A f \in Executor : Backs(f, b)' <=> Backs(f, b)
      BY <3>1 DEF Backs, Mapped
    <3>3. ASSUME NEW f \in Executor, Backs(f, b)
          PROVE  heap'[f][view'[f][b].committed] = heap[f][view[f][b].committed]
      <4>1. view[f][b].committed \in Cell
        BY <3>3, TypeFacts DEF IInv, Typed, TypedTables, Backs
      <4>2. f = e => view[f][b].committed # view[e][a].committed
        BY <2>1, <2>6, <3>3 DEF IInv, Blocks
      <4> QED BY <4>1, <4>2, <3>1, <2>2
    <3> QED BY <3>2, <3>3, ContentKept
  <2>7. Contents' = [Contents EXCEPT ![a] = Null]
    BY <2>5, <2>6, CountsSizes
  <2> QED BY <2>3, <2>4, <2>7
<1> QED BY <1>3, <1>4

(* A pointer that is dropped releases the location, with or without the    *)
(* content.                                                                *)
LEMMA DropReleases ==
  ASSUME IInv, IInv', Facts, Facts', NEW e \in Executor, NEW h \in Handle,
         Drop(e, h)
  PROVE  \E a \in Address : Memory!Release(a)
<1>1. HeldBy(e, h) /\ pap' = pap BY DEF Drop
<1>2. PICK a \in Address : ptr[h].p = a
  BY <1>1, TypeFacts DEF IInv, Typed, TypedUsers, HeldBy
<1>3. ptr' = Put(ptr, h, Null) BY DEF Drop, Put
<1>4. h \in Refs[a] /\ Refs' = Minus(Refs, a, h)
  BY <1>1, <1>2, <1>3, ObjectGone DEF HeldBy
<1>5. CASE AmAuthor(e, a)
  <2>1. Discount(e, a) BY <1>2, <1>5 DEF Drop
  <2>2. IsHome(e, a) BY <1>5 DEF AmAuthor, IInv, Authors
  <2>3. rc[e][a] > 0 BY <1>4, <2>2, Count
  <2>4. \/ Contents' = Contents
        \/ Refs'[a] = {} /\ Contents' = [Contents EXCEPT ![a] = Null]
    BY <2>1, <2>2, <2>3, DiscountContents
  <2> QED BY <1>4, <2>4, Releases
<1>6. CASE ~AmAuthor(e, a)
  <2>1. view' = view /\ heap' = heap BY <1>2, <1>6 DEF Drop, tableVars
  <2>2. Contents' = Contents BY <2>1, SameContents
  <2> QED BY <1>4, <2>2, Releases
<1> QED BY <1>5, <1>6

(* The RC_DEC handler reclaims a location without references, or changes   *)
(* nothing an application sees.                                            *)
LEMMA DmnRcDecReclaims ==
  ASSUME IInv, IInv', Facts, Facts', NEW r \in dmn, DmnRcDec(r)
  PROVE  \/ Counts' = Counts /\ Contents' = Contents
         \/ \E a \in Address : Memory!Reclaim(a)
<1>1. r.op = "RC_DEC" /\ ptr' = ptr /\ pap' = pap BY DEF DmnRcDec
<1>2. PICK e \in Executor, a \in Address, k \in Handle :
        r.to = e /\ r.p = a /\ r.ref = k
  BY <1>1, TypeFacts DEF IInv, Typed, TypedDmn
<1>3. Discount(e, a) BY <1>2 DEF DmnRcDec
<1>4. IsHome(e, a) BY <1>2 DEF IInv, Authors
<1>5. k \in Unrel[a] BY <1>1, <1>2 DEF Unrel, Unreleased, Counting
<1>6. rc[e][a] > 0 BY <1>4, <1>5, Count
<1>7. Refs' = Refs /\ Counts' = Counts BY <1>1, SameCounts
<1>8. \/ Contents' = Contents
      \/ /\ Refs'[a] = {} /\ Contents[a] # Null
         /\ Contents' = [Contents EXCEPT ![a] = Null]
  BY <1>3, <1>4, <1>6, DiscountContents
<1>9. ASSUME Refs'[a] = {}, Contents[a] # Null,
             Contents' = [Contents EXCEPT ![a] = Null]
      PROVE  Memory!Reclaim(a)
  <2>1. Counts[a] = 0 BY <1>7, <1>9, CountsSizes
  <2> QED BY <2>1, <1>7, <1>9 DEF Memory!Reclaim
<1> QED BY <1>7, <1>8, <1>9

(* A step that changes neither tables nor references is none of theirs.    *)
LEMMA Silent ==
  ASSUME Facts, Facts', view' = view, heap' = heap, ptr' = ptr, pap' = pap
  PROVE  Counts' = Counts /\ Contents' = Contents
BY SameContents, SameCounts

(* Every step is one of SharedMemory, or none.                             *)
LEMMA StepRefines ==
  ASSUME IInv, IInv', Facts, Facts', [Next]_vars
  PROVE  Memory!Next \/ (Counts' = Counts /\ Contents' = Contents)
<1>1. ASSUME NEW e \in Executor, User(e)
      PROVE  Memory!Next \/ (Counts' = Counts /\ Contents' = Contents)
  <2>1. ASSUME NEW v \in Value, Make(e, v) PROVE Memory!Next
    <3>1. PICK a \in Address : Memory!Create(a, v) BY <2>1, MakeCreates
    <3> QED BY <3>1 DEF Memory!Next
  <2>2. ASSUME NEW h \in Handle, Copy(e, h) PROVE Memory!Next
    <3>1. PICK a \in Address : Memory!Share(a) BY <2>2, CopyShares
    <3> QED BY <3>1 DEF Memory!Next
  <2>3. ASSUME NEW h \in Handle, NEW t \in Executor, Push(e, h, t)
        PROVE  Memory!Next
    <3>1. PICK a \in Address : Memory!Share(a) BY <2>3, PushShares
    <3> QED BY <3>1 DEF Memory!Next
  <2>4. ASSUME NEW h \in Handle, Drop(e, h) PROVE Memory!Next
    <3>1. PICK a \in Address : Memory!Release(a) BY <2>4, DropReleases
    <3> QED BY <3>1 DEF Memory!Next
  <2>5. ASSUME NEW h \in Handle, NEW op \in {"RLOAD", "RC_GET"}, Ask(e, h, op)
        PROVE  Counts' = Counts /\ Contents' = Contents
    BY <2>5, Silent DEF Ask, tableVars
  <2>6. ASSUME NEW m \in pap, Pull(e, m)
        PROVE  Counts' = Counts /\ Contents' = Contents
    BY <2>6, PullStutters
  <2> QED BY <1>1, <2>1, <2>2, <2>3, <2>4, <2>5, <2>6 DEF User
<1>2. ASSUME NEW e \in Executor, PushCount(e)
      PROVE  Counts' = Counts /\ Contents' = Contents
  BY <1>2, Silent DEF PushCount, tableVars
<1>3. ASSUME NEW e \in Executor, Answered(e)
      PROVE  Counts' = Counts /\ Contents' = Contents
  BY <1>3, Silent DEF Answered, tableVars
<1>4. ASSUME NEW r \in dmn, Handled(r)
      PROVE  Memory!Next \/ (Counts' = Counts /\ Contents' = Contents)
  <2>1. CASE DmnRcInc(r) BY <2>1, Silent DEF DmnRcInc, tableVars
  <2>2. CASE DmnRcDec(r)
    <3>1. ASSUME NEW a \in Address, Memory!Reclaim(a) PROVE Memory!Next
      BY <3>1 DEF Memory!Next
    <3> QED BY <2>2, <3>1, DmnRcDecReclaims
  <2>3. CASE DmnReply(r) BY <2>3, Silent DEF DmnReply, tableVars
  <2> QED BY <1>4, <2>1, <2>2, <2>3 DEF Handled
<1>5. CASE UNCHANGED vars
  BY <1>5, Silent DEF vars, tableVars, linkVars
<1> QED BY <1>1, <1>2, <1>3, <1>4, <1>5 DEF Next, Daemon, Finished

-----------------------------------------------------------------------------
(* However references are copied, pushed, pulled and dropped, and however  *)
(* late they are counted, an application sees one immutable location that  *)
(* lives as long as somebody refers to it.                                 *)
THEOREM PublicImplements == Spec => ImplementsMemory
<1>1. Init => Memory!Init
  <2> SUFFICES ASSUME Init PROVE Memory!Init OBVIOUS
  <2>1. \A a \in Address : Refs[a] = {}
    BY DEF Init, Refs, References, Held, Sent
  <2>2. \A a \in Address : Counts[a] = 0 BY <2>1, CountsSizes
  <2>3. \A a \in Address : Contents[a] = Null
    BY InitIInv, FactsHold DEF Facts, Located, Init, TableInit, Backs, Mapped
  <2> QED BY <2>2, <2>3, CountsSizes DEF Memory!Init
<1>2. IInv /\ IInv' /\ [Next]_vars => [Memory!Next]_(Memory!sharedVars)
  <2>1. SUFFICES ASSUME IInv, IInv', [Next]_vars
                 PROVE  [Memory!Next]_(Memory!sharedVars)
    OBVIOUS
  <2>2. Facts BY <2>1, FactsHold
  <2>3. Facts' BY <2>1, FactsNext
  <2>4. Memory!Next \/ (Counts' = Counts /\ Contents' = Contents)
    BY <2>1, <2>2, <2>3, StepRefines
  <2> QED BY <2>4 DEF Memory!sharedVars
<1> QED BY <1>1, <1>2, PublicInductive, PTL DEF Spec, ImplementsMemory, Memory!Spec
=============================================================================
