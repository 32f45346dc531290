--------------------------- MODULE GamContextCounts ---------------------------
(***************************************************************************)
(* The reference counts of GamContext, for any executors, addresses,       *)
(* references, blocks and values: counts are right up to what is on its    *)
(* way and to what the application lost, the memory of a public address is *)
(* at its home as long as the count is not zero, and no assert about       *)
(* public memory fails.                                                    *)
(*                                                                         *)
(* CInv is inductive on top of IInv of GamContextProofs.  Its core is      *)
(* Balanced, an equation over the natural numbers, without the wrap of the *)
(* counter, and AnchorOK: a drop waits until its address has nothing left  *)
(* to count, so that a count of zero means that nobody refers to the       *)
(* address.  Each lemma about an action first says what the step does to   *)
(* the sets that are counted; TablesStep, SteadyStep, BornStep and         *)
(* DiscountCounts then prove CInv for all the actions of a kind.           *)
(***************************************************************************)
EXTENDS GamContextProofs

-----------------------------------------------------------------------------
(* The sets that are counted, of every address.                            *)
Refs  == [a \in Address |-> Pub!References(a)]
Unc   == [a \in Address |-> Pub!Uncounted(a)]
Unrel == [a \in Address |-> Pub!Unreleased(a)]

(* One reference has one handle, which is held, on its way, or dropped and *)
(* not discounted, and is counted once.                                    *)
RefsApart ==
    /\ \A m, n \in pubPap : m.ref = n.ref => m = n
    /\ \A m \in pubPap : ptr[m.ref] = Null
    /\ \A r \in pubDmn : r.op = "RC_DEC" =>
          ptr[r.ref] = Null /\ \A m \in pubPap : m.ref # r.ref
    /\ \A r, q \in pubDmn :
          r.op = q.op /\ r.op \in {"RC_INC", "RC_DEC"} /\ r.ref = q.ref => r = q
    /\ \A r \in pubDmn, e \in Executor :
          r.op = "RC_INC" /\ Pub!IsPushing(e) => busy[e].ref # r.ref
    /\ \A e, f \in Executor :
          Pub!IsPushing(e) /\ Pub!IsPushing(f) /\ busy[e].ref = busy[f].ref => e = f

(* The count of a, without the wrap: it never comes to that.               *)
Balanced(e, a) ==
    rc[e][a] + Cardinality(Unc[a]) =
        Cardinality(Refs[a]) + Cardinality(Unrel[a]) + lost[a]

CountOK(a) == \A e \in Executor : rc[e][a] # Null => Balanced(e, a)

(* More references were made and not dropped than are still to be counted, *)
(* unless there are none at all.                                           *)
AnchorOK(a) ==
    \/ Cardinality(Unc[a]) < Cardinality(Refs[a]) + lost[a]
    \/ Unc[a] = {} /\ Refs[a] = {} /\ lost[a] = 0

(* The memory of a public address is at its home, while the count is not   *)
(* zero.                                                                   *)
MemoryOK(a) ==
    \A e \in Executor :
       /\ rc[e][a] # Null => (Backs(e, a) <=> rc[e][a] # 0)
       /\ Public(e, a) /\ rc[e][a] = Null => view[e][a].committed = Null

LostOK(a) == lost[a] > 0 => a \in issued /\ ~InPublish(a)

(* Whoever has a pointer has an entry for it.                              *)
HolderOK(h) == ptr[h] # Null => Public(ptr[h].at, ptr[h].p)

(* Who asks about an address has a pointer to it until the answer.         *)
AskerOK(e) ==
    /\ Pub!IsAsking(e) => \E h \in Handle : Pub!HeldBy(e, h) /\ ptr[h].p = busy[e].p
    /\ \A r \in pubDmn : r.from = e /\ IsAsk(r) => busy[e].p = r.p

CInv ==
    /\ RefsApart
    /\ \A a \in Address : CountOK(a) /\ AnchorOK(a) /\ MemoryOK(a) /\ LostOK(a)
    /\ \A h \in Handle : HolderOK(h)
    /\ \A m \in pubPap : m.to # m.author
    /\ \A e \in Executor : AskerOK(e)

-----------------------------------------------------------------------------
(* Counting *)

(* Sets of references are finite, and one more or one less changes their   *)
(* number by one.                                                          *)
LEMMA Sizes ==
  ASSUME NEW S \in SUBSET Handle
  PROVE  /\ Cardinality(S) \in Nat
         /\ Cardinality(S) <= Cardinality(Handle)
         /\ Cardinality(S) = 0 <=> S = {}
         /\ \A h \in Handle \ S : Cardinality(S \cup {h}) = Cardinality(S) + 1
         /\ \A h \in S : Cardinality(S \ {h}) = Cardinality(S) - 1
<1>1. IsFiniteSet(Handle) BY ContextAssumption
<1>2. IsFiniteSet(S) /\ Cardinality(S) <= Cardinality(Handle)
  BY <1>1, FS_Subset
<1> QED BY <1>1, <1>2, FS_CardinalityType, FS_EmptySet, FS_AddElement, FS_RemoveElement

LEMMA OneMore ==
  ASSUME NEW S \in SUBSET Handle, NEW h \in Handle, h \notin S, NEW T, T = S \cup {h}
  PROVE  Cardinality(T) = Cardinality(S) + 1
BY Sizes

LEMMA OneLess ==
  ASSUME NEW S \in SUBSET Handle, NEW h \in S, NEW T, T = S \ {h}
  PROVE  Cardinality(T) = Cardinality(S) - 1
BY Sizes

(* What the assumptions say of the numbers.                                *)
LEMMA Numbers ==
  /\ Cardinality(Handle) \in Nat /\ MaxLost \in Nat /\ RcRange \in Nat
  /\ RcRange > 2 * Cardinality(Handle) + MaxLost
  /\ Null \notin 0 .. RcRange - 1
<1>1. IsFiniteSet(Handle) BY ContextAssumption
<1> QED BY <1>1, ContextAssumption, FS_CardinalityType

(* The three sets are sets of references.                                  *)
LEMMA Subsets ==
  /\ Refs \in [Address -> SUBSET Handle]
  /\ Unc \in [Address -> SUBSET Handle]
  /\ Unrel \in [Address -> SUBSET Handle]
BY DEF Refs, Pub!References, Pub!Held, Pub!Sent, Unc, Pub!Uncounted, Unrel,
       Pub!Unreleased, Pub!Counting, Pub!InPush

LEMMA SubsetsNext ==
  /\ Refs' \in [Address -> SUBSET Handle]
  /\ Unc' \in [Address -> SUBSET Handle]
  /\ Unrel' \in [Address -> SUBSET Handle]
BY DEF Refs, Pub!References, Pub!Held, Pub!Sent, Unc, Pub!Uncounted, Unrel,
       Pub!Unreleased, Pub!Counting, Pub!InPush

(* The counts below which a counter of the code does not wrap.             *)
LEMMA NoWrap ==
  ASSUME NEW n \in Nat
  PROVE  /\ n < RcRange => n % RcRange = n
         /\ n + 1 < RcRange => Pub!Incremented(n) = n + 1
         /\ n > 0 /\ n < RcRange => Pub!Decremented(n) = n - 1
<1>1. RcRange \in Nat BY Numbers
<1>2. ASSUME NEW k \in Nat, k < RcRange PROVE k % RcRange = k
  BY <1>1, <1>2
<1>3. n + 1 < RcRange => Pub!Incremented(n) = n + 1
  BY <1>1, <1>2 DEF Pub!Incremented
<1>4. ASSUME n > 0, n < RcRange PROVE Pub!Decremented(n) = n - 1
  <2>1. n - 1 \in Nat /\ n - 1 < RcRange BY <1>1, <1>4
  <2> QED BY <2>1, <1>2 DEF Pub!Decremented
<1> QED BY <1>2, <1>3, <1>4

(* The count at the home of an address: it is not zero as long as there is *)
(* anything to count, and there is room for one more.                      *)
LEMMA Count ==
  ASSUME IInv, CInv, NEW e \in Executor, NEW a \in Address, rc[e][a] # Null
  PROVE  /\ rc[e][a] \in Nat /\ rc[e][a] < RcRange
         /\ lost[a] \in Nat
         /\ rc[e][a] + Cardinality(Unc[a]) =
               Cardinality(Refs[a]) + Cardinality(Unrel[a]) + lost[a]
         /\ \/ Cardinality(Unc[a]) < Cardinality(Refs[a]) + lost[a]
            \/ Unc[a] = {} /\ Refs[a] = {} /\ lost[a] = 0
         /\ Refs[a] # {} \/ Unc[a] # {} \/ Unrel[a] # {} \/ lost[a] > 0 => rc[e][a] > 0
         /\ Unc[a] # {} => rc[e][a] + 1 < RcRange
<1>1. PublicTyped /\ LostTyped BY TypeParts DEF IInv, TypesApart
<1>2. rc[e][a] \in Nat /\ rc[e][a] < RcRange BY <1>1, Numbers DEF PublicTyped
<1>3. lost[a] \in Nat /\ lost[a] <= MaxLost BY <1>1, Numbers DEF LostTyped
<1>4. CountOK(a) /\ AnchorOK(a) BY DEF CInv
<1>5. rc[e][a] + Cardinality(Unc[a]) =
        Cardinality(Refs[a]) + Cardinality(Unrel[a]) + lost[a]
  BY <1>4 DEF CountOK, Balanced
<1>6. /\ Unc[a] \in SUBSET Handle /\ Refs[a] \in SUBSET Handle /\ Unrel[a] \in SUBSET Handle
  BY Subsets
<1>7. PICK u, r, d, n : /\ u = Cardinality(Unc[a]) /\ r = Cardinality(Refs[a])
                        /\ d = Cardinality(Unrel[a]) /\ n = Cardinality(Handle)
  OBVIOUS
<1>8. /\ u \in Nat /\ r \in Nat /\ d \in Nat /\ n \in Nat
      /\ r <= n /\ d <= n
      /\ (u = 0 <=> Unc[a] = {}) /\ (r = 0 <=> Refs[a] = {}) /\ (d = 0 <=> Unrel[a] = {})
  BY <1>6, <1>7, Sizes, Numbers
<1>9. u < r + lost[a] \/ (u = 0 /\ r = 0 /\ lost[a] = 0)
  BY <1>4, <1>7, <1>8 DEF AnchorOK
<1>10. rc[e][a] + u = r + d + lost[a] BY <1>5, <1>7
<1>11. RcRange \in Nat /\ RcRange > 2 * n + MaxLost /\ MaxLost \in Nat BY <1>7, Numbers
<1>12. r # 0 \/ u # 0 \/ d # 0 \/ lost[a] > 0 => rc[e][a] > 0
  BY <1>2, <1>3, <1>8, <1>9, <1>10
<1>13. u # 0 => rc[e][a] + 1 < RcRange
  BY <1>2, <1>3, <1>8, <1>10, <1>11
<1>14. Refs[a] # {} \/ Unc[a] # {} \/ Unrel[a] # {} \/ lost[a] > 0 => rc[e][a] > 0
  BY <1>8, <1>12
<1>15. Unc[a] # {} => rc[e][a] + 1 < RcRange BY <1>8, <1>13
<1> QED BY <1>2, <1>3, <1>4, <1>5, <1>14, <1>15 DEF AnchorOK

(* The home of an address has its memory as long as anything is counted.   *)
LEMMA AtHome ==
  ASSUME IInv, CInv, NEW e \in Executor, NEW a \in Address, rc[e][a] # Null,
         Refs[a] # {} \/ Unc[a] # {} \/ Unrel[a] # {} \/ lost[a] > 0
  PROVE  Backs(e, a) /\ Pub!AmAuthor(e, a) /\ rc[e][a] # 0
<1>1. rc[e][a] > 0 /\ rc[e][a] \in Nat BY Count
<1>2. Backs(e, a) /\ rc[e][a] # 0 BY <1>1 DEF CInv, MemoryOK
<1>3. IsPublic(a) BY DEF IsPublic
<1>4. Mapped(e, a) BY <1>2 DEF Backs
<1>5. view[e][a].author \in Executor /\ rc[view[e][a].author][a] # Null
  BY <1>3, <1>4, HolderFacts
<1>6. view[e][a].author = e BY <1>5 DEF IInv, HomeOK
<1> QED BY <1>2, <1>4, <1>6, SameTables DEF Pub!AmAuthor

-----------------------------------------------------------------------------
(* What the parts of a step do to the three sets *)

(* Updates, as operators: the provers compare them as they stand.          *)
Put(f, i, x)   == [f EXCEPT ![i] = x]
Recounted(f, e, a, n) == [f EXCEPT ![e][a] = n]

(* A fresh handle names nothing yet.                                       *)
LEMMA FreshFacts ==
  ASSUME IInv, NEW k \in Pub!FreshHandles
  PROVE  /\ k \in Handle /\ ptr[k] = Null
         /\ \A m \in pubPap : m.ref # k
         /\ \A r \in pubDmn : r.op \in {"RC_INC", "RC_DEC"} => r.ref # k
         /\ \A e \in Executor : Pub!IsPushing(e) => busy[e].ref # k
         /\ \A a \in Address : k \notin Refs[a] /\ k \notin Unc[a] /\ k \notin Unrel[a]
<1> Typed BY TypeFacts DEF IInv
<1>1. /\ k \in Handle
      /\ \A a \in Address : /\ k \notin Pub!References(a) /\ k \notin Pub!Uncounted(a)
                            /\ k \notin Pub!Unreleased(a)
  BY DEF Pub!FreshHandles
<1>2. ptr[k] = Null /\ \A m \in pubPap : m.ref # k
  BY <1>1 DEF Typed, TypedCalls, TypedPublic, Pub!References, Pub!Held, Pub!Sent
<1>3. ASSUME NEW r \in pubDmn, r.op \in {"RC_INC", "RC_DEC"} PROVE r.ref # k
  <2>1. r.p \in Address BY DEF Typed, TypedPublic
  <2>2. k \notin Pub!Counting("RC_INC", r.p) /\ k \notin Pub!Counting("RC_DEC", r.p)
    BY <1>1, <2>1 DEF Pub!Uncounted, Pub!Unreleased
  <2> QED BY <1>1, <1>3, <2>2 DEF Pub!Counting
<1>4. ASSUME NEW e \in Executor, Pub!IsPushing(e) PROVE busy[e].ref # k
  <2>1. busy[e].p \in Address BY <1>4 DEF Typed, TypedCalls, Pub!IsPushing
  <2>2. k \notin Pub!InPush(busy[e].p) BY <1>1, <2>1 DEF Pub!Uncounted
  <2> QED BY <1>1, <1>4, <2>2 DEF Pub!InPush
<1> QED BY <1>1, <1>2, <1>3, <1>4 DEF Refs, Unc, Unrel

(* The sets depend on the pointers and the pushed ones, and on the         *)
(* requests and the pushes.                                                *)
LEMMA RefsSame ==
  ASSUME UNCHANGED <<ptr, pubPap>>
  PROVE  \A b \in Address : Refs'[b] = Refs[b]
BY DEF Refs, Pub!References, Pub!Held, Pub!Sent

LEMMA UncSame ==
  ASSUME UNCHANGED <<busy, pubDmn>>
  PROVE  \A b \in Address : Unc'[b] = Unc[b] /\ Unrel'[b] = Unrel[b]
BY DEF Unc, Pub!Uncounted, Unrel, Pub!Unreleased, Pub!Counting, Pub!InPush, Pub!IsPushing

(* A pointer object made with a fresh handle is one more reference.        *)
LEMMA ObjectMade ==
  ASSUME IInv, NEW k \in Pub!FreshHandles, NEW x \in Pub!Pointer,
         ptr' = Put(ptr, k, x), pubPap' = pubPap
  PROVE  /\ \A h \in Handle : ptr'[h] = IF h = k THEN x ELSE ptr[h]
         /\ x # Null
         /\ \A b \in Address : Refs'[b] = IF b = x.p THEN Refs[b] \cup {k} ELSE Refs[b]
<1>1. k \in Handle /\ ptr[k] = Null BY FreshFacts
<1>2. ptr \in [Handle -> Pub!Pointer \cup {Null}] BY TypeParts DEF IInv, TypesApart, PublicTyped
<1>3. x # Null BY ContextAssumption
<1>4. \A h \in Handle : ptr'[h] = IF h = k THEN x ELSE ptr[h]
  BY <1>1, <1>2 DEF Put
<1>5. \A b \in Address : Refs'[b] = IF b = x.p THEN Refs[b] \cup {k} ELSE Refs[b]
  BY <1>1, <1>3, <1>4 DEF Refs, Pub!References, Pub!Held, Pub!Sent
<1> QED BY <1>3, <1>4, <1>5

(* A pointer object that is dropped or overwritten is one reference less.  *)
LEMMA ObjectGone ==
  ASSUME IInv, CInv, NEW h \in Handle, ptr[h] # Null,
         ptr' = Put(ptr, h, Null), pubPap' = pubPap
  PROVE  /\ \A k \in Handle : ptr'[k] = IF k = h THEN Null ELSE ptr[k]
         /\ h \in Refs[ptr[h].p]
         /\ \A b \in Address : Refs'[b] = IF b = ptr[h].p THEN Refs[b] \ {h} ELSE Refs[b]
<1>1. ptr \in [Handle -> Pub!Pointer \cup {Null}] BY TypeParts DEF IInv, TypesApart, PublicTyped
<1>2. \A m \in pubPap : m.ref # h BY DEF CInv, RefsApart
<1>3. \A k \in Handle : ptr'[k] = IF k = h THEN Null ELSE ptr[k] BY <1>1 DEF Put
<1>4. ptr[h].p \in Address BY PublicKnown
<1>5. h \in Refs[ptr[h].p] BY <1>4 DEF Refs, Pub!References, Pub!Held
<1>6. \A b \in Address : Refs'[b] = IF b = ptr[h].p THEN Refs[b] \ {h} ELSE Refs[b]
  BY <1>2, <1>3 DEF Refs, Pub!References, Pub!Held, Pub!Sent
<1> QED BY <1>3, <1>5, <1>6

(* A message with a fresh reference is one more reference; a message that  *)
(* is taken, without a pointer made of it, is one less.                    *)
LEMMA MessageMade ==
  ASSUME NEW m, m.ref \in Handle, pubPap' = pubPap \cup {m}, ptr' = ptr
  PROVE  \A b \in Address : Refs'[b] = IF b = m.p THEN Refs[b] \cup {m.ref} ELSE Refs[b]
BY DEF Refs, Pub!References, Pub!Held, Pub!Sent

LEMMA MessageGone ==
  ASSUME IInv, CInv, NEW m \in pubPap, pubPap' = pubPap \ {m}, ptr' = ptr
  PROVE  /\ m.p \in Address /\ m.ref \in Handle /\ m.ref \in Refs[m.p]
         /\ \A b \in Address : Refs'[b] = IF b = m.p THEN Refs[b] \ {m.ref} ELSE Refs[b]
<1>1. m.p \in Address /\ m.ref \in Handle BY TypeFacts DEF IInv, Typed, TypedPublic
<1>2. ptr[m.ref] = Null /\ \A n \in pubPap : n.ref = m.ref => n = m BY DEF CInv, RefsApart
<1>3. m.ref \in Refs[m.p] BY <1>1 DEF Refs, Pub!References, Pub!Sent
<1>4. \A b \in Address : Refs'[b] = IF b = m.p THEN Refs[b] \ {m.ref} ELSE Refs[b]
  BY <1>2 DEF Refs, Pub!References, Pub!Held, Pub!Sent
<1> QED BY <1>1, <1>3, <1>4

(* A pulled pointer is the reference that was sent.                        *)
LEMMA MessagePulled ==
  ASSUME IInv, CInv, NEW m \in pubPap, NEW x \in Pub!Pointer, x.p = m.p,
         pubPap' = pubPap \ {m}, ptr' = Put(ptr, m.ref, x)
  PROVE  /\ \A h \in Handle : ptr'[h] = IF h = m.ref THEN x ELSE ptr[h]
         /\ x # Null
         /\ \A b \in Address : Refs'[b] = Refs[b]
<1>1. m.p \in Address /\ m.ref \in Handle BY TypeFacts DEF IInv, Typed, TypedPublic
<1>2. ptr[m.ref] = Null /\ \A n \in pubPap : n.ref = m.ref => n = m BY DEF CInv, RefsApart
<1>3. ptr \in [Handle -> Pub!Pointer \cup {Null}] BY TypeParts DEF IInv, TypesApart, PublicTyped
<1>4. x # Null BY ContextAssumption
<1>5. \A h \in Handle : ptr'[h] = IF h = m.ref THEN x ELSE ptr[h] BY <1>1, <1>3 DEF Put
<1>6. ASSUME NEW b \in Address, NEW h \in Handle
      PROVE  h \in Refs'[b] <=> h \in Refs[b]
  <2>1. h \in Refs[b] <=> \/ ptr[h] # Null /\ ptr[h].p = b
                          \/ \E n \in pubPap : n.p = b /\ n.ref = h
    BY DEF Refs, Pub!References, Pub!Held, Pub!Sent
  <2>2. h \in Refs'[b] <=> \/ ptr'[h] # Null /\ ptr'[h].p = b
                           \/ \E n \in pubPap' : n.p = b /\ n.ref = h
    BY DEF Refs, Pub!References, Pub!Held, Pub!Sent
  <2>3. CASE h = m.ref BY <2>1, <2>2, <2>3, <1>2, <1>4, <1>5
  <2>4. CASE h # m.ref BY <2>1, <2>2, <2>4, <1>5
  <2> QED BY <2>3, <2>4
<1>7. \A b \in Address : Refs'[b] = Refs[b]
  <2> SUFFICES ASSUME NEW b \in Address PROVE Refs'[b] = Refs[b] OBVIOUS
  <2>1. Refs[b] \subseteq Handle /\ Refs'[b] \subseteq Handle BY Subsets, SubsetsNext
  <2> QED BY <1>6, <2>1
<1> QED BY <1>4, <1>5, <1>7

(* A request to count or to discount a reference to a.                     *)
LEMMA RequestMade ==
  ASSUME NEW r, pubDmn' = pubDmn \cup {r}, busy' = busy, r.ref \in Handle
  PROVE  /\ r.op = "RC_INC" => \A b \in Address :
              /\ Unc'[b] = IF b = r.p THEN Unc[b] \cup {r.ref} ELSE Unc[b]
              /\ Unrel'[b] = Unrel[b]
         /\ r.op = "RC_DEC" => \A b \in Address :
              /\ Unrel'[b] = IF b = r.p THEN Unrel[b] \cup {r.ref} ELSE Unrel[b]
              /\ Unc'[b] = Unc[b]
<1>1. \A b \in Address : Pub!InPush(b)' = Pub!InPush(b) BY DEF Pub!InPush, Pub!IsPushing
<1>2. CASE r.op = "RC_INC"
  BY <1>1, <1>2 DEF Unc, Pub!Uncounted, Unrel, Pub!Unreleased, Pub!Counting
<1>3. CASE r.op = "RC_DEC"
  BY <1>1, <1>3 DEF Unc, Pub!Uncounted, Unrel, Pub!Unreleased, Pub!Counting
<1> QED BY <1>2, <1>3

(* A question, or its answer, changes no set.                              *)
LEMMA QuestionSame ==
  ASSUME \A r \in pubDmn \cup pubDmn' : ~IsAsk(r) => r \in pubDmn /\ r \in pubDmn',
         \A f \in Executor : Pub!IsPushing(f)' \/ Pub!IsPushing(f) => busy'[f] = busy[f]
  PROVE  \A b \in Address : Unc'[b] = Unc[b] /\ Unrel'[b] = Unrel[b]
<1>1. \A b \in Address : Pub!InPush(b)' = Pub!InPush(b) BY DEF Pub!InPush, Pub!IsPushing
<1>2. \A b \in Address : /\ Pub!Counting("RC_INC", b)' = Pub!Counting("RC_INC", b)
                         /\ Pub!Counting("RC_DEC", b)' = Pub!Counting("RC_DEC", b)
  BY DEF Pub!Counting, IsAsk
<1> QED BY <1>1, <1>2 DEF Unc, Pub!Uncounted, Unrel, Pub!Unreleased

(* A request to count names a reference.                                   *)
LEMMA RequestRef ==
  ASSUME IInv, NEW r \in pubDmn, r.op \in {"RC_INC", "RC_DEC"}
  PROVE  r.ref \in Handle
<1>1. r \in Pub!Request BY TypeParts DEF IInv, TypesApart, PublicTyped
<1> QED BY <1>1 DEF Pub!Request

LEMMA RefTypes ==
  ASSUME IInv
  PROVE  /\ \A m \in pubPap : m.ref \in Handle /\ m.p \in Address
         /\ \A r \in pubDmn : r.op \in {"RC_INC", "RC_DEC"} => r.ref \in Handle
         /\ \A f \in Executor : Pub!IsPushing(f) => busy[f].ref \in Handle
BY RequestRef, TypeFacts DEF IInv, Typed, TypedPublic, TypedCalls

(* A request that the daemon has read is gone from the sets.               *)
LEMMA RequestDone ==
  ASSUME IInv, CInv, NEW r \in pubDmn, pubDmn' = pubDmn \ {r}, busy' = busy
  PROVE  /\ r.op = "RC_INC" =>
              /\ r.ref \in Unc[r.p]
              /\ \A b \in Address :
                    /\ Unc'[b] = IF b = r.p THEN Unc[b] \ {r.ref} ELSE Unc[b]
                    /\ Unrel'[b] = Unrel[b]
         /\ r.op = "RC_DEC" =>
              /\ r.ref \in Unrel[r.p]
              /\ \A b \in Address :
                    /\ Unrel'[b] = IF b = r.p THEN Unrel[b] \ {r.ref} ELSE Unrel[b]
                    /\ Unc'[b] = Unc[b]
<1>0. r.p \in Address BY TypeFacts DEF IInv, Typed, TypedPublic
<1>1. \A b \in Address : Pub!InPush(b)' = Pub!InPush(b) BY DEF Pub!InPush, Pub!IsPushing
<1>2. \A q \in pubDmn : q.op = r.op /\ r.op \in {"RC_INC", "RC_DEC"} /\ q.ref = r.ref => q = r
  BY DEF CInv, RefsApart
<1>3. CASE r.op = "RC_INC"
  <2>1. r.ref \in Handle BY <1>3, RequestRef
  <2>2. r.ref \in Unc[r.p] BY <1>0, <1>3, <2>1 DEF Unc, Pub!Uncounted, Pub!Counting
  <2>3. \A b \in Address : r.ref \notin Pub!InPush(b)
    BY <1>3 DEF CInv, RefsApart, Pub!InPush
  <2>4. \A b \in Address :
          /\ Unc'[b] = IF b = r.p THEN Unc[b] \ {r.ref} ELSE Unc[b]
          /\ Unrel'[b] = Unrel[b]
    BY <1>1, <1>2, <1>3, <2>3 DEF Unc, Pub!Uncounted, Unrel, Pub!Unreleased, Pub!Counting
  <2> QED BY <1>3, <2>2, <2>4
<1>4. CASE r.op = "RC_DEC"
  <2>1. r.ref \in Handle BY <1>4, RequestRef
  <2>2. r.ref \in Unrel[r.p] BY <1>0, <1>4, <2>1 DEF Unrel, Pub!Unreleased, Pub!Counting
  <2>3. \A b \in Address :
          /\ Unrel'[b] = IF b = r.p THEN Unrel[b] \ {r.ref} ELSE Unrel[b]
          /\ Unc'[b] = Unc[b]
    BY <1>1, <1>2, <1>4 DEF Unc, Pub!Uncounted, Unrel, Pub!Unreleased, Pub!Counting
  <2> QED BY <1>4, <2>2, <2>3
<1> QED BY <1>3, <1>4

(* A push that begins leaves a reference to be counted.                    *)
LEMMA PushBegun ==
  ASSUME IInv, NEW e \in Executor, busy[e] = Null,
         NEW x \in Pub!Pushing, busy' = Put(busy, e, x), pubDmn' = pubDmn
  PROVE  /\ x.op = "push" /\ x.p \in Address /\ x.ref \in Handle
         /\ busy'[e] = x /\ \A f \in Executor : f # e => busy'[f] = busy[f]
         /\ Pub!IsPushing(e)' /\ ~Pub!IsPushing(e)
         /\ \A b \in Address : /\ Unc'[b] = IF b = x.p THEN Unc[b] \cup {x.ref} ELSE Unc[b]
                               /\ Unrel'[b] = Unrel[b]
<1>1. busy \in [Executor -> Pub!Pushing \cup Pub!Asking \cup {Null}]
  BY TypeParts DEF IInv, TypesApart, PublicTyped
<1>2. busy'[e] = x /\ \A f \in Executor : f # e => busy'[f] = busy[f] BY <1>1 DEF Put
<1>3. x.op = "push" /\ x.ref \in Handle /\ x # Null /\ x.p \in Address
  BY ContextAssumption DEF Pub!Pushing
<1>4. \A b \in Address : Pub!InPush(b)' = IF b = x.p THEN Pub!InPush(b) \cup {x.ref}
                                          ELSE Pub!InPush(b)
  BY <1>2, <1>3 DEF Pub!InPush, Pub!IsPushing
<1>5. \A b \in Address : /\ Pub!Counting("RC_INC", b)' = Pub!Counting("RC_INC", b)
                         /\ Pub!Counting("RC_DEC", b)' = Pub!Counting("RC_DEC", b)
  BY DEF Pub!Counting
<1>6. \A b \in Address : /\ Unc'[b] = IF b = x.p THEN Unc[b] \cup {x.ref} ELSE Unc[b]
                         /\ Unrel'[b] = Unrel[b]
  BY <1>4, <1>5 DEF Unc, Pub!Uncounted, Unrel, Pub!Unreleased
<1> QED BY <1>2, <1>3, <1>6 DEF Pub!IsPushing

(* A push that is over: the reference is counted, or a request to count it *)
(* is under way.                                                           *)
LEMMA PushOver ==
  ASSUME IInv, CInv, NEW e \in Executor, Pub!IsPushing(e), busy' = Put(busy, e, Null)
  PROVE  /\ busy'[e] = Null /\ \A f \in Executor : f # e => busy'[f] = busy[f]
         /\ busy[e].p \in Address /\ busy[e].ref \in Handle
         /\ busy[e].ref \in Unc[busy[e].p]
         /\ pubDmn' = pubDmn => \A b \in Address :
               /\ Unc'[b] = IF b = busy[e].p THEN Unc[b] \ {busy[e].ref} ELSE Unc[b]
               /\ Unrel'[b] = Unrel[b]
         /\ \A r : r.op = "RC_INC" /\ r.p = busy[e].p /\ r.ref = busy[e].ref
                   /\ pubDmn' = pubDmn \cup {r}
                   => \A b \in Address : Unc'[b] = Unc[b] /\ Unrel'[b] = Unrel[b]
<1>1. busy \in [Executor -> Pub!Pushing \cup Pub!Asking \cup {Null}]
  BY TypeParts DEF IInv, TypesApart, PublicTyped
<1>2. busy'[e] = Null /\ \A f \in Executor : f # e => busy'[f] = busy[f] BY <1>1 DEF Put
<1>3. busy[e].p \in Address /\ busy[e].ref \in Handle
  BY TypeFacts DEF IInv, Typed, TypedCalls, Pub!IsPushing
<1> PICK a, k : a = busy[e].p /\ k = busy[e].ref OBVIOUS
<1>4. \A f \in Executor : Pub!IsPushing(f) /\ busy[f].ref = k => f = e
  BY DEF CInv, RefsApart
<1>5. k \in Pub!InPush(a) BY <1>3 DEF Pub!InPush
<1>6. \A b \in Address : k \notin Pub!Counting("RC_INC", b)
  BY DEF Pub!Counting, CInv, RefsApart
<1>7. \A b \in Address : Pub!InPush(b)' = IF b = a THEN Pub!InPush(b) \ {k} ELSE Pub!InPush(b)
  BY <1>2, <1>4 DEF Pub!InPush, Pub!IsPushing
<1>8. ASSUME pubDmn' = pubDmn, NEW b \in Address
      PROVE  /\ Unc'[b] = IF b = a THEN Unc[b] \ {k} ELSE Unc[b]
             /\ Unrel'[b] = Unrel[b]
  BY <1>6, <1>7, <1>8 DEF Unc, Pub!Uncounted, Unrel, Pub!Unreleased, Pub!Counting
<1>9. ASSUME NEW r, r.op = "RC_INC", r.p = a, r.ref = k, pubDmn' = pubDmn \cup {r},
             NEW b \in Address
      PROVE  Unc'[b] = Unc[b] /\ Unrel'[b] = Unrel[b]
  BY <1>3, <1>5, <1>7, <1>9 DEF Unc, Pub!Uncounted, Unrel, Pub!Unreleased, Pub!Counting
<1>10. k \in Unc[a] BY <1>3, <1>5 DEF Unc, Pub!Uncounted
<1>11. ASSUME pubDmn' = pubDmn
       PROVE  \A b \in Address :
               /\ Unc'[b] = IF b = busy[e].p THEN Unc[b] \ {busy[e].ref} ELSE Unc[b]
               /\ Unrel'[b] = Unrel[b]
  BY <1>8, <1>11
<1>12. ASSUME NEW r, r.op = "RC_INC", r.p = busy[e].p, r.ref = busy[e].ref,
              pubDmn' = pubDmn \cup {r}
       PROVE  \A b \in Address : Unc'[b] = Unc[b] /\ Unrel'[b] = Unrel[b]
  <2>1. r.p = a /\ r.ref = k BY <1>12
  <2> QED BY <1>9, <1>12, <2>1
<1>13. busy[e].ref \in Unc[busy[e].p] BY <1>10
<1> QED BY <1>2, <1>3, <1>11, <1>12, <1>13

-----------------------------------------------------------------------------
(* Steps that concern one address *)

SameHomes == \A f \in Executor, b \in Address : rc'[f][b] # Null <=> rc[f][b] # Null

OthersKept(a) ==
    \A b \in Address : b # a =>
        /\ Refs'[b] = Refs[b] /\ Unc'[b] = Unc[b] /\ Unrel'[b] = Unrel[b]
        /\ lost'[b] = lost[b]
        /\ \A f \in Executor : rc'[f][b] = rc[f][b]

(* The counts are right if the one that changes is.                        *)
LEMMA CountsKept ==
  ASSUME IInv, CInv, NEW e \in Executor, NEW a \in Address,
         SameHomes, rc[e][a] # Null, OthersKept(a), Balanced(e, a)', AnchorOK(a)'
  PROVE  \A b \in Address : CountOK(b)' /\ AnchorOK(b)'
<1> SUFFICES ASSUME NEW b \in Address PROVE CountOK(b)' /\ AnchorOK(b)' OBVIOUS
<1>1. CASE b # a
  <2>1. CountOK(b) /\ AnchorOK(b) BY DEF CInv
  <2> QED BY <1>1, <2>1 DEF OthersKept, CountOK, AnchorOK, Balanced
<1>2. CASE b = a
  <2>1. \A f \in Executor : rc[f][a] # Null => f = e BY DEF IInv, HomeOK
  <2> QED BY <1>2, <2>1 DEF SameHomes, CountOK
<1> QED BY <1>1, <1>2

(* Who asks goes on having a pointer.                                      *)
LEMMA AskerKept ==
  ASSUME CInv, NEW f \in Executor,
         Pub!IsAsking(f)' \/ (\E r \in pubDmn' : r.from = f /\ IsAsk(r)) => busy'[f] = busy[f],
         \A h \in Handle : Pub!HeldBy(f, h) => ptr'[h] = ptr[h],
         \A r \in pubDmn' : r.from = f /\ IsAsk(r) => r \in pubDmn
  PROVE  AskerOK(f)'
<1>1. AskerOK(f) BY DEF CInv
<1>2. \A r \in pubDmn' : r.from = f /\ IsAsk(r) => busy'[f].p = r.p
  BY <1>1 DEF AskerOK
<1>3. Pub!IsAsking(f)' => \E h \in Handle : Pub!HeldBy(f, h)' /\ ptr'[h].p = busy'[f].p
  BY <1>1 DEF AskerOK, Pub!IsAsking, Pub!HeldBy
<1> QED BY <1>2, <1>3 DEF AskerOK

(* No entry changes, no address gets another home, and a count that        *)
(* changes neither was zero nor becomes zero.                              *)
LEMMA SteadyStep ==
  ASSUME IInv, IInv', CInv, NEW e \in Executor, NEW a \in Address,
         UNCHANGED <<issued, view, pub>>,
         SameHomes, rc[e][a] # Null, OthersKept(a),
         rc'[e][a] # rc[e][a] => rc[e][a] # 0 /\ rc'[e][a] # 0,
         Balanced(e, a)', AnchorOK(a)', RefsApart',
         \A h \in Handle : ptr'[h] # Null => Public(ptr'[h].at, ptr'[h].p),
         \A m \in pubPap' : m \in pubPap \/ m.to # m.author,
         \A f \in Executor : AskerOK(f)'
  PROVE  CInv'
<1>1. \A b \in Address : CountOK(b)' /\ AnchorOK(b)' BY CountsKept
<1>2. \A f, b : (Backs(f, b)' <=> Backs(f, b)) /\ (Public(f, b)' <=> Public(f, b))
  BY DEF Backs, Public, Mapped
<1>3. ASSUME NEW b \in Address PROVE MemoryOK(b)'
  <2>1. MemoryOK(b) BY DEF CInv
  <2>2. \A f \in Executor : f # e => rc[f][a] = Null BY DEF IInv, HomeOK
  <2>3. \A f \in Executor : rc[f][b] # Null => (rc'[f][b] = 0 <=> rc[f][b] = 0)
    BY <2>2 DEF OthersKept
  <2> QED BY <1>2, <2>1, <2>3 DEF MemoryOK, SameHomes
<1>4. ASSUME NEW b \in Address PROVE LostOK(b)'
  <2>1. LostOK(b) BY DEF CInv
  <2>2. CASE b = a
    <3>1. IsPublic(a)' BY DEF IsPublic, SameHomes
    <3>2. LevelOK(a)' BY DEF IInv, AddressOK
    <3> QED BY <2>2, <3>1, <3>2 DEF LevelOK, LostOK
  <2>3. CASE b # a
    <3>1. lost'[b] = lost[b] BY <2>3 DEF OthersKept
    <3> QED BY <2>1, <3>1 DEF LostOK, InPublish
  <2> QED BY <2>2, <2>3
<1>5. \A h \in Handle : HolderOK(h)' BY <1>2 DEF HolderOK
<1>6. \A m \in pubPap' : m.to # m.author BY DEF CInv
<1> QED BY <1>1, <1>3, <1>4, <1>5, <1>6 DEF CInv

-----------------------------------------------------------------------------
(* Copies and pushes *)

(* The author a holder knows is the home.                                  *)
LEMMA KnownHome ==
  ASSUME IInv, NEW e \in Executor, NEW a \in Address, IsPublic(a), Mapped(e, a)
  PROVE  /\ view[e][a].author \in Executor /\ rc[view[e][a].author][a] # Null
         /\ Pub!AmAuthor(e, a) <=> rc[e][a] # Null
<1>1. view[e][a].author \in Executor /\ rc[view[e][a].author][a] # Null BY HolderFacts
<1>2. \A f \in Executor : rc[f][a] # Null => f = view[e][a].author
  BY <1>1 DEF IInv, HomeOK
<1> QED BY <1>1, <1>2, SameTables DEF Pub!AmAuthor

(* A held reference is counted at the home of its address, which has it.   *)
LEMMA HolderHome ==
  ASSUME IInv, CInv, NEW h \in Handle, ptr[h] # Null
  PROVE  /\ ptr[h].at \in Executor /\ ptr[h].p \in Address /\ IsPublic(ptr[h].p)
         /\ Public(ptr[h].at, ptr[h].p) /\ Mapped(ptr[h].at, ptr[h].p)
         /\ h \in Refs[ptr[h].p]
<1>1. ptr[h].at \in Executor BY TypeFacts DEF IInv, Typed, TypedCalls
<1>2. ptr[h].p \in Address /\ IsPublic(ptr[h].p) BY PublicKnown
<1>3. Public(ptr[h].at, ptr[h].p) BY DEF CInv, HolderOK
<1>4. h \in Refs[ptr[h].p] BY <1>2 DEF Refs, Pub!References, Pub!Held
<1> QED BY <1>1, <1>2, <1>3, <1>4 DEF Public

LEMMA OneCountedMore ==
  ASSUME IInv, NEW e \in Executor, NEW a \in Address, rc[e][a] # Null,
         rc[e][a] + 1 < RcRange,
         rc' = Recounted(rc, e, a, Pub!Incremented(rc[e][a]))
  PROVE  /\ SameHomes /\ rc'[e][a] = rc[e][a] + 1
         /\ \A f \in Executor, b \in Address : b # a => rc'[f][b] = rc[f][b]
<1>1. rc \in [Executor -> [Address -> 0 .. RcRange - 1 \cup {Null}]]
  BY TypeParts DEF IInv, TypesApart, PublicTyped
<1> PICK n : n = rc[e][a] OBVIOUS
<1>2. n \in Nat /\ n + 1 \in 0 .. RcRange - 1 /\ n \in 0 .. RcRange - 1 BY <1>1, Numbers
<1>3. Pub!Incremented(rc[e][a]) = n + 1 BY <1>2, NoWrap
<1>4. n + 1 # Null /\ n # Null BY <1>2, Numbers
<1> QED BY <1>1, <1>2, <1>3, <1>4 DEF SameHomes, Recounted

LEMMA OneCountedLess ==
  ASSUME IInv, NEW e \in Executor, NEW a \in Address, rc[e][a] # Null, rc[e][a] > 0,
         rc' = Recounted(rc, e, a, Pub!Decremented(rc[e][a]))
  PROVE  /\ SameHomes /\ rc'[e][a] = rc[e][a] - 1
         /\ Pub!Decremented(rc[e][a]) = rc[e][a] - 1
         /\ \A f \in Executor, b \in Address : b # a => rc'[f][b] = rc[f][b]
         /\ \A f \in Executor : f # e => rc'[f][a] = rc[f][a]
<1>1. rc \in [Executor -> [Address -> 0 .. RcRange - 1 \cup {Null}]]
  BY TypeParts DEF IInv, TypesApart, PublicTyped
<1> PICK n : n = rc[e][a] OBVIOUS
<1>2. n \in Nat /\ n < RcRange BY <1>1, Numbers
<1>3. n - 1 \in 0 .. RcRange - 1 /\ n \in 0 .. RcRange - 1 BY <1>2, Numbers
<1>4. Pub!Decremented(rc[e][a]) = n - 1 BY <1>2, NoWrap
<1>5. n - 1 # Null /\ n # Null BY <1>3, Numbers
<1> QED BY <1>1, <1>3, <1>4, <1>5 DEF SameHomes, Recounted

(* Room to count one more reference than there are.                        *)
LEMMA RoomForOne ==
  ASSUME IInv, CInv, NEW e \in Executor, NEW a \in Address, rc[e][a] # Null,
         NEW k \in Handle, k \notin Refs[a], k \notin Unrel[a]
  PROVE  rc[e][a] + 1 < RcRange
<1>1. /\ rc[e][a] \in Nat /\ lost[a] \in Nat
      /\ rc[e][a] + Cardinality(Unc[a]) =
            Cardinality(Refs[a]) + Cardinality(Unrel[a]) + lost[a]
  BY Count
<1>2. lost[a] <= MaxLost BY TypeParts, Numbers DEF IInv, TypesApart, LostTyped
<1>3. PICK u, r, d, n : /\ u = Cardinality(Unc[a]) /\ r = Cardinality(Refs[a])
                        /\ d = Cardinality(Unrel[a]) /\ n = Cardinality(Handle)
  OBVIOUS
<1>4. u \in Nat /\ r \in Nat /\ d \in Nat /\ n \in Nat /\ d <= n
  BY <1>3, Subsets, Sizes, Numbers
<1>5. r + 1 <= n
  <2>1. Refs[a] \in SUBSET Handle /\ Refs[a] \cup {k} \in SUBSET Handle BY Subsets
  <2>2. Cardinality(Refs[a] \cup {k}) = Cardinality(Refs[a]) + 1 BY <2>1, Sizes
  <2>3. Cardinality(Refs[a] \cup {k}) <= Cardinality(Handle) BY <2>1, Sizes
  <2> QED BY <1>3, <2>2, <2>3
<1> QED BY <1>1, <1>2, <1>3, <1>4, <1>5, Numbers

LEMMA CopyCounts ==
  ASSUME IInv, IInv', CInv, NEW e \in Executor, NEW h \in Handle, Idle(e),
         Pub!Copy(e, h), UNCHANGED <<privateVars, pub, lost>>
  PROVE  CInv'
<1>1. /\ ptr[h] # Null /\ ptr[h].at = e
      /\ UNCHANGED <<tableVars, busy, pubPap, pubMem>>
  BY DEF Pub!Copy, Pub!HeldBy, Pub!tableVars, tableVars
<1>2. PICK k \in Pub!FreshHandles :
         ptr' = [ptr EXCEPT ![k] = ptr[h]] /\ Pub!RcInc(e, ptr[h].p, k)
  BY DEF Pub!Copy
<1>3. PICK a : a = ptr[h].p OBVIOUS
<1>4. a \in Address /\ IsPublic(a) /\ Mapped(e, a) /\ h \in Refs[a]
  BY <1>1, <1>3, HolderHome
<1>5. ptr[h] \in Pub!Pointer BY <1>1, TypeParts DEF IInv, TypesApart, PublicTyped
<1>6. /\ \A g \in Handle : ptr'[g] = IF g = k THEN ptr[h] ELSE ptr[g]
      /\ \A b \in Address : Refs'[b] = IF b = a THEN Refs[b] \cup {k} ELSE Refs[b]
  <2>1. ptr' = Put(ptr, k, ptr[h]) /\ pubPap' = pubPap BY <1>1, <1>2 DEF Put
  <2>2. PICK x \in Pub!Pointer : x = ptr[h] BY <1>5
  <2>3. \A b \in Address : Refs'[b] = IF b = x.p THEN Refs[b] \cup {k} ELSE Refs[b]
    BY <1>2, <2>1, <2>2, ObjectMade
  <2>4. \A g \in Handle : ptr'[g] = IF g = k THEN x ELSE ptr[g]
    BY <1>2, <2>1, <2>2, ObjectMade
  <2> QED BY <1>3, <2>2, <2>3, <2>4
<1>7. /\ k \in Handle /\ ptr[k] = Null
      /\ \A m \in pubPap : m.ref # k
      /\ \A r \in pubDmn : r.op \in {"RC_INC", "RC_DEC"} => r.ref # k
      /\ \A f \in Executor : Pub!IsPushing(f) => busy[f].ref # k
      /\ k \notin Refs[a] /\ k \notin Unc[a] /\ k \notin Unrel[a]
  BY <1>2, <1>4, FreshFacts
<1>8. \A g \in Handle : ptr'[g] # Null => Public(ptr'[g].at, ptr'[g].p)
  BY <1>1, <1>3, <1>4, <1>6, HolderHome
<1>9. Cardinality(Refs'[a]) = Cardinality(Refs[a]) + 1
  <2>1. Refs[a] \in SUBSET Handle /\ Refs'[a] = Refs[a] \cup {k} BY <1>4, <1>6, Subsets
  <2> QED BY <1>7, <2>1, OneMore
<1>10. Cardinality(Refs[a]) \in Nat /\ Cardinality(Unc[a]) \in Nat /\ Cardinality(Unrel[a]) \in Nat
  BY <1>4, Subsets, Sizes
<1>11. UNCHANGED <<issued, view, pub>> /\ \A f \in Executor : Pub!IsPushing(f)' <=> Pub!IsPushing(f)
  BY <1>1 DEF tableVars, Pub!IsPushing
<1>12. \A m \in pubPap' : m \in pubPap \/ m.to # m.author BY <1>1
<1>13. CASE Pub!AmAuthor(e, a)
  <2>1. rc[e][a] # Null BY <1>4, <1>13, KnownHome
  <2>2. rc' = Recounted(rc, e, a, Pub!Incremented(rc[e][a])) /\ pubDmn' = pubDmn
    BY <1>2, <1>3, <1>13 DEF Pub!RcInc, Recounted
  <2>3. rc[e][a] \in Nat /\ rc[e][a] > 0 /\ lost[a] \in Nat
        /\ rc[e][a] + Cardinality(Unc[a]) =
              Cardinality(Refs[a]) + Cardinality(Unrel[a]) + lost[a]
        /\ \/ Cardinality(Unc[a]) < Cardinality(Refs[a]) + lost[a]
           \/ Unc[a] = {} /\ Refs[a] = {} /\ lost[a] = 0
    BY <1>4, <2>1, Count
  <2>4. rc[e][a] + 1 < RcRange BY <1>4, <1>7, <2>1, RoomForOne
  <2>5. /\ SameHomes /\ rc'[e][a] = rc[e][a] + 1
        /\ \A f \in Executor, b \in Address : b # a => rc'[f][b] = rc[f][b]
    BY <1>4, <2>1, <2>2, <2>4, OneCountedMore
  <2>6. \A b \in Address : Unc'[b] = Unc[b] /\ Unrel'[b] = Unrel[b]
    BY <1>1, <2>2, UncSame
  <2>7. OthersKept(a) BY <1>6, <2>5, <2>6 DEF OthersKept
  <2>8. Balanced(e, a)' BY <1>4, <1>9, <1>10, <2>3, <2>5, <2>6 DEF Balanced
  <2>9. AnchorOK(a)'
    <3>1. Cardinality(Unc[a]) < Cardinality(Refs[a]) + lost[a] BY <1>4, <2>3
    <3> QED BY <1>4, <1>9, <1>10, <2>3, <2>6, <3>1 DEF AnchorOK
  <2>10. RefsApart' BY <1>1, <1>6, <1>7, <1>11, <2>2, RefTypes DEF CInv, RefsApart
  <2>11. \A f \in Executor : AskerOK(f)'
    <3>1. \A f \in Executor, g \in Handle : Pub!HeldBy(f, g) => ptr'[g] = ptr[g]
      BY <1>6, <1>7 DEF Pub!HeldBy
    <3> QED BY <1>1, <2>2, <3>1, AskerKept
  <2>12. rc'[e][a] # 0 /\ rc[e][a] # 0 BY <2>3, <2>5
  <2> QED BY <1>4, <1>8, <1>11, <1>12, <2>1, <2>5, <2>7, <2>8, <2>9, <2>10, <2>11, <2>12, SteadyStep
<1>14. CASE ~Pub!AmAuthor(e, a)
  <2>1. PICK r : r = Pub!RequestTo("RC_INC", e, a, k) OBVIOUS
  <2>2. rc' = rc /\ pubDmn' = pubDmn \cup {r}
    BY <1>2, <1>3, <1>14, <2>1 DEF Pub!RcInc
  <2>3. r.op = "RC_INC" /\ r.p = a /\ r.ref = k /\ ~IsAsk(r)
    BY <2>1 DEF Pub!RequestTo, IsAsk
  <2>4. PICK t \in Executor : rc[t][a] # Null BY <1>4, KnownHome
  <2>5. rc[t][a] \in Nat /\ lost[a] \in Nat
        /\ rc[t][a] + Cardinality(Unc[a]) =
              Cardinality(Refs[a]) + Cardinality(Unrel[a]) + lost[a]
        /\ \/ Cardinality(Unc[a]) < Cardinality(Refs[a]) + lost[a]
           \/ Unc[a] = {} /\ Refs[a] = {} /\ lost[a] = 0
    BY <1>4, <2>4, Count
  <2>6. \A b \in Address : /\ Unc'[b] = IF b = a THEN Unc[b] \cup {k} ELSE Unc[b]
                           /\ Unrel'[b] = Unrel[b]
    BY <1>1, <1>7, <2>2, <2>3, RequestMade
  <2>7. SameHomes /\ OthersKept(a) BY <1>6, <2>2, <2>6 DEF OthersKept, SameHomes
  <2>8. Cardinality(Unc'[a]) = Cardinality(Unc[a]) + 1
    <3>1. Unc[a] \in SUBSET Handle /\ Unc'[a] = Unc[a] \cup {k} BY <1>4, <2>6, Subsets
    <3> QED BY <1>7, <3>1, OneMore
  <2>9. Balanced(t, a)'
    <3>1. rc' = rc /\ lost' = lost /\ Unrel'[a] = Unrel[a] BY <1>4, <2>2, <2>6
    <3> QED BY <1>9, <1>10, <2>5, <2>8, <3>1 DEF Balanced
  <2>10. AnchorOK(a)'
    <3>1. Cardinality(Unc[a]) < Cardinality(Refs[a]) + lost[a] BY <1>4, <2>5
    <3> QED BY <1>4, <1>9, <1>10, <2>5, <2>8, <3>1 DEF AnchorOK
  <2>11. RefsApart' BY <1>1, <1>6, <1>7, <1>11, <2>2, <2>3, RefTypes DEF CInv, RefsApart
  <2>12. \A f \in Executor : AskerOK(f)'
    <3>1. \A f \in Executor, g \in Handle : Pub!HeldBy(f, g) => ptr'[g] = ptr[g]
      BY <1>6, <1>7 DEF Pub!HeldBy
    <3> QED BY <1>1, <2>2, <2>3, <3>1, AskerKept
  <2> QED BY <1>4, <1>8, <1>11, <1>12, <2>2, <2>4, <2>7, <2>9, <2>10, <2>11, <2>12, SteadyStep
<1> QED BY <1>13, <1>14

LEMMA PushCounts ==
  ASSUME IInv, IInv', CInv, NEW e \in Executor, NEW h \in Handle, NEW t \in Executor,
         Idle(e), Pub!Push(e, h, t), ~Pub!AuthorOf(h, t), UNCHANGED <<privateVars, pub, lost>>
  PROVE  CInv'
<1>1. /\ ptr[h] # Null /\ ptr[h].at = e /\ busy[e] = Null
      /\ UNCHANGED <<tableVars, ptr, rc, pubDmn, pubMem>>
  BY DEF Pub!Push, Pub!HeldBy, Pub!Running, Pub!tableVars, tableVars
<1>2. PICK k \in Pub!FreshHandles :
         /\ pubPap' = pubPap \cup {[from |-> e, to |-> t, p |-> ptr[h].p,
                                    author |-> view[e][ptr[h].p].author, ref |-> k]}
         /\ busy' = [busy EXCEPT ![e] = [op |-> "push", p |-> ptr[h].p, ref |-> k]]
  BY DEF Pub!Push
<1>3. PICK a : a = ptr[h].p OBVIOUS
<1>4. a \in Address /\ IsPublic(a) /\ Mapped(e, a) /\ h \in Refs[a]
  BY <1>1, <1>3, HolderHome
<1>5. PICK m : m = [from |-> e, to |-> t, p |-> a, author |-> view[e][a].author, ref |-> k]
  OBVIOUS
<1>6. m.to = t /\ m.p = a /\ m.author = view[e][a].author /\ m.ref = k BY <1>5
<1>7. /\ k \in Handle /\ ptr[k] = Null
      /\ \A n \in pubPap : n.ref # k
      /\ \A r \in pubDmn : r.op \in {"RC_INC", "RC_DEC"} => r.ref # k
      /\ \A f \in Executor : Pub!IsPushing(f) => busy[f].ref # k
      /\ k \notin Refs[a] /\ k \notin Unc[a] /\ k \notin Unrel[a]
  BY <1>2, <1>4, FreshFacts
<1>8. pubPap' = pubPap \cup {m} BY <1>2, <1>3, <1>5
<1>9. \A b \in Address : Refs'[b] = IF b = a THEN Refs[b] \cup {k} ELSE Refs[b]
  BY <1>1, <1>6, <1>7, <1>8, MessageMade
<1>10. PICK x : x = [op |-> "push", p |-> a, ref |-> k] OBVIOUS
<1>11. x \in Pub!Pushing /\ x.p = a /\ x.ref = k BY <1>4, <1>7, <1>10 DEF Pub!Pushing
<1>12. busy' = Put(busy, e, x) BY <1>2, <1>3, <1>10 DEF Put
<1>13. /\ busy'[e] = x /\ \A f \in Executor : f # e => busy'[f] = busy[f]
       /\ Pub!IsPushing(e)' /\ ~Pub!IsPushing(e)
       /\ \A b \in Address : /\ Unc'[b] = IF b = x.p THEN Unc[b] \cup {x.ref} ELSE Unc[b]
                             /\ Unrel'[b] = Unrel[b]
  BY <1>1, <1>11, <1>12, PushBegun
<1>14. PICK y \in Executor : rc[y][a] # Null BY <1>4 DEF IsPublic
<1>15. rc[y][a] \in Nat /\ lost[a] \in Nat
       /\ rc[y][a] + Cardinality(Unc[a]) =
             Cardinality(Refs[a]) + Cardinality(Unrel[a]) + lost[a]
       /\ \/ Cardinality(Unc[a]) < Cardinality(Refs[a]) + lost[a]
          \/ Unc[a] = {} /\ Refs[a] = {} /\ lost[a] = 0
  BY <1>4, <1>14, Count
<1>16. rc' = rc /\ lost' = lost /\ Unrel'[a] = Unrel[a] BY <1>1, <1>4, <1>13
<1>17. /\ Refs[a] \in SUBSET Handle /\ Refs'[a] = Refs[a] \cup {k}
       /\ Unc[a] \in SUBSET Handle /\ Unc'[a] = Unc[a] \cup {k}
  BY <1>4, <1>9, <1>11, <1>13, Subsets
<1>18. /\ Cardinality(Refs'[a]) = Cardinality(Refs[a]) + 1
       /\ Cardinality(Unc'[a]) = Cardinality(Unc[a]) + 1
  BY <1>7, <1>17, OneMore
<1>19. Cardinality(Refs[a]) \in Nat /\ Cardinality(Unc[a]) \in Nat /\ Cardinality(Unrel[a]) \in Nat
  BY <1>4, Subsets, Sizes
<1>20. Balanced(y, a)' BY <1>15, <1>16, <1>18, <1>19 DEF Balanced
<1>21. AnchorOK(a)'
  <2>1. Cardinality(Unc[a]) < Cardinality(Refs[a]) + lost[a] BY <1>4, <1>15
  <2> QED BY <1>15, <1>16, <1>18, <1>19, <2>1 DEF AnchorOK
<1>22. SameHomes /\ OthersKept(a) BY <1>9, <1>11, <1>13, <1>16 DEF SameHomes, OthersKept
<1>23. RefsApart'
  <2>1. \A f \in Executor : Pub!IsPushing(f)' => f = e \/ (Pub!IsPushing(f) /\ busy'[f] = busy[f])
    BY <1>13 DEF Pub!IsPushing
  <2>2. busy'[e].ref = k BY <1>11, <1>13
  <2> QED BY <1>1, <1>6, <1>7, <1>8, <2>1, <2>2, RefTypes DEF CInv, RefsApart
<1>24. m.to # m.author
  BY <1>1, <1>3, <1>4, <1>6, SameTables DEF Pub!AuthorOf
<1>25. \A f \in Executor : AskerOK(f)'
  <2>1. AskOK(e)' BY DEF IInv
  <2>2. busy'[e].op = "push" BY <1>10, <1>13
  <2>3. ~Pub!IsAsking(e)' /\ \A r \in pubDmn' : r.from = e => ~IsAsk(r)
    BY <2>1, <2>2 DEF AskOK, Asks, Pub!IsAsking
  <2> QED BY <1>1, <1>13, <2>3, AskerKept
<1>26. \A g \in Handle : ptr'[g] # Null => Public(ptr'[g].at, ptr'[g].p)
  BY <1>1, HolderHome
<1>27. UNCHANGED <<issued, view, pub>> BY <1>1 DEF tableVars
<1>28. \A n \in pubPap' : n \in pubPap \/ n.to # n.author BY <1>8, <1>24
<1> QED BY <1>4, <1>14, <1>16, <1>20, <1>21, <1>22, <1>23, <1>25, <1>26, <1>27, <1>28, SteadyStep

(* A push that is over, or a request served: one reference is counted.     *)
LEMMA PushCountCounts ==
  ASSUME IInv, IInv', CInv, NEW e \in Executor, Pub!PushCount(e),
         UNCHANGED <<privateVars, pub, lost>>
  PROVE  CInv'
<1>1. /\ Pub!IsPushing(e) /\ Mapped(e, busy[e].p) /\ Pub!RcInc(e, busy[e].p, busy[e].ref)
      /\ busy' = Put(busy, e, Null)
      /\ UNCHANGED <<tableVars, ptr, pubPap, pubMem>>
  BY SameTables, TypeFacts
     DEF IInv, Typed, TypedCalls, Pub!PushCount, Pub!IsPushing, Pub!tableVars, tableVars, Put
<1>2. PICK a, k : a = busy[e].p /\ k = busy[e].ref OBVIOUS
<1>3. /\ busy'[e] = Null /\ \A f \in Executor : f # e => busy'[f] = busy[f]
      /\ a \in Address /\ k \in Handle /\ k \in Unc[a]
      /\ pubDmn' = pubDmn => \A b \in Address :
            /\ Unc'[b] = IF b = a THEN Unc[b] \ {k} ELSE Unc[b]
            /\ Unrel'[b] = Unrel[b]
      /\ \A r : r.op = "RC_INC" /\ r.p = a /\ r.ref = k /\ pubDmn' = pubDmn \cup {r}
                => \A b \in Address : Unc'[b] = Unc[b] /\ Unrel'[b] = Unrel[b]
  BY <1>1, <1>2, PushOver
<1>4. IsPublic(a) BY <1>1, <1>2, PublicKnown DEF Pub!IsPushing
<1>5. \A b \in Address : Refs'[b] = Refs[b] BY <1>1, RefsSame
<1>6. PICK y \in Executor : rc[y][a] # Null BY <1>4 DEF IsPublic
<1>7. rc[y][a] \in Nat /\ lost[a] \in Nat /\ rc[y][a] > 0 /\ rc[y][a] + 1 < RcRange
      /\ rc[y][a] + Cardinality(Unc[a]) =
             Cardinality(Refs[a]) + Cardinality(Unrel[a]) + lost[a]
      /\ Cardinality(Unc[a]) < Cardinality(Refs[a]) + lost[a]
  BY <1>3, <1>6, Count
<1>8. UNCHANGED <<issued, view, pub>> /\ lost' = lost /\ ptr' = ptr /\ pubPap' = pubPap
  BY <1>1 DEF tableVars
<1>9. Cardinality(Refs[a]) \in Nat /\ Cardinality(Unc[a]) \in Nat /\ Cardinality(Unrel[a]) \in Nat
  BY <1>3, Subsets, Sizes
<1>10. \A g \in Handle : ptr'[g] # Null => Public(ptr'[g].at, ptr'[g].p)
  BY <1>8, HolderHome
<1>11. \A f \in Executor : Pub!IsPushing(f)' => f # e /\ Pub!IsPushing(f) /\ busy'[f] = busy[f]
  BY <1>3 DEF Pub!IsPushing
<1>12. \A f \in Executor : Pub!IsPushing(f) /\ busy[f].ref = k => f = e
  BY <1>1, <1>2 DEF CInv, RefsApart
<1>13. \A r \in pubDmn : r.op = "RC_INC" => r.ref # k
  BY <1>1, <1>2 DEF CInv, RefsApart
<1>14. CASE Pub!AmAuthor(e, a)
  <2>1. /\ rc' = Recounted(rc, e, a, Pub!Incremented(rc[e][a])) /\ pubDmn' = pubDmn
        /\ rc[e][a] # Null
    BY <1>1, <1>2, <1>3, <1>4, <1>14, KnownHome DEF Pub!RcInc, Recounted
  <2>2. y = e BY <1>3, <1>6, <2>1 DEF IInv, HomeOK
  <2>3. /\ SameHomes /\ rc'[e][a] = rc[e][a] + 1
        /\ \A f \in Executor, b \in Address : b # a => rc'[f][b] = rc[f][b]
    BY <1>3, <1>7, <2>1, <2>2, OneCountedMore
  <2>4. /\ OthersKept(a)
        /\ Unc'[a] = Unc[a] \ {k} /\ Unrel'[a] = Unrel[a] /\ Refs'[a] = Refs[a]
    BY <1>3, <1>5, <1>8, <2>1, <2>3 DEF OthersKept
  <2>5. Unc[a] \in SUBSET Handle BY <1>3, Subsets
  <2>6. Cardinality(Unc'[a]) = Cardinality(Unc[a]) - 1 BY <1>3, <2>4, <2>5, OneLess
  <2>7. Balanced(e, a)' BY <1>7, <1>8, <1>9, <2>2, <2>3, <2>4, <2>6 DEF Balanced
  <2>8. AnchorOK(a)' BY <1>7, <1>8, <1>9, <2>4, <2>6 DEF AnchorOK
  <2>9. RefsApart' BY <1>8, <1>11, <2>1 DEF CInv, RefsApart
  <2>10. \A f \in Executor : AskerOK(f)'
    <3>1. AskOK(e)' BY DEF IInv
    <3>2. ~Pub!IsAsking(e)' /\ \A r \in pubDmn' : r.from = e => ~IsAsk(r)
      BY <1>3, <3>1 DEF AskOK, Asks, Pub!IsAsking
    <3> QED BY <1>3, <1>8, <2>1, <3>2, AskerKept
  <2>11. rc[e][a] # 0 /\ rc'[e][a] # 0 BY <1>7, <2>2, <2>3
  <2> QED BY <1>3, <1>8, <1>10, <2>1, <2>3, <2>4, <2>7, <2>8, <2>9, <2>10, <2>11, SteadyStep
<1>15. CASE ~Pub!AmAuthor(e, a)
  <2>1. PICK r : r = Pub!RequestTo("RC_INC", e, a, k) OBVIOUS
  <2>2. rc' = rc /\ pubDmn' = pubDmn \cup {r}
    BY <1>1, <1>2, <1>15, <2>1 DEF Pub!RcInc
  <2>3. r.op = "RC_INC" /\ r.p = a /\ r.ref = k /\ ~IsAsk(r)
    BY <2>1 DEF Pub!RequestTo, IsAsk
  <2>4. \A b \in Address : Unc'[b] = Unc[b] /\ Unrel'[b] = Unrel[b]
    BY <1>3, <2>2, <2>3
  <2>5. SameHomes /\ OthersKept(a) BY <1>5, <1>8, <2>2, <2>4 DEF SameHomes, OthersKept
  <2>6. Balanced(y, a)' BY <1>3, <1>5, <1>7, <1>8, <2>2, <2>4 DEF Balanced
  <2>7. AnchorOK(a)' BY <1>3, <1>5, <1>7, <1>8, <2>4 DEF AnchorOK
  <2>8. RefsApart'
    BY <1>8, <1>11, <1>12, <1>13, <2>2, <2>3 DEF CInv, RefsApart
  <2>9. \A f \in Executor : AskerOK(f)'
    <3>1. AskOK(e)' BY DEF IInv
    <3>2. ~Pub!IsAsking(e)' /\ \A q \in pubDmn' : q.from = e => ~IsAsk(q)
      BY <1>3, <3>1 DEF AskOK, Asks, Pub!IsAsking
    <3> QED BY <1>3, <1>8, <2>2, <2>3, <3>2, AskerKept
  <2> QED BY <1>3, <1>6, <1>8, <1>10, <2>2, <2>5, <2>6, <2>7, <2>8, <2>9, SteadyStep
<1> QED BY <1>14, <1>15

-----------------------------------------------------------------------------
(* Requests, questions, and references that go                             *)

(* Who does nothing asks nothing.                                          *)
LEMMA NothingAsked ==
  ASSUME IInv', NEW e \in Executor, busy'[e] = Null \/ busy'[e].op = "push"
  PROVE  ~Pub!IsAsking(e)' /\ \A r \in pubDmn' : r.from = e => ~IsAsk(r)
<1>1. AskOK(e)' BY DEF IInv
<1>2. ~Pub!IsAsking(e)' BY DEF Pub!IsAsking
<1> QED BY <1>1, <1>2 DEF AskOK, Asks, Pub!IsAsking

LEMMA DmnRcIncCounts ==
  ASSUME IInv, IInv', CInv, NEW r \in pubDmn, Pub!DmnRcInc(r),
         UNCHANGED <<privateVars, pub, lost>>
  PROVE  CInv'
<1>1. /\ r.op = "RC_INC" /\ pubDmn' = pubDmn \ {r}
      /\ rc' = Recounted(rc, r.to, r.p, Pub!Incremented(rc[r.to][r.p]))
      /\ UNCHANGED <<tableVars, ptr, busy, pubPap, pubMem>>
  BY DEF Pub!DmnRcInc, Pub!tableVars, tableVars, Recounted
<1>2. PICK a, k, y : a = r.p /\ k = r.ref /\ y = r.to OBVIOUS
<1>3. a \in Address /\ y \in Executor /\ rc[y][a] # Null BY <1>2, PublicKnown
<1>4. /\ k \in Unc[a]
      /\ \A b \in Address : /\ Unc'[b] = IF b = a THEN Unc[b] \ {k} ELSE Unc[b]
                            /\ Unrel'[b] = Unrel[b]
  BY <1>1, <1>2, RequestDone
<1>5. \A b \in Address : Refs'[b] = Refs[b] BY <1>1, RefsSame
<1>6. rc[y][a] \in Nat /\ lost[a] \in Nat /\ rc[y][a] > 0 /\ rc[y][a] + 1 < RcRange
      /\ rc[y][a] + Cardinality(Unc[a]) =
             Cardinality(Refs[a]) + Cardinality(Unrel[a]) + lost[a]
      /\ Cardinality(Unc[a]) < Cardinality(Refs[a]) + lost[a]
  BY <1>3, <1>4, Count
<1>7. UNCHANGED <<issued, view, pub>> /\ lost' = lost /\ ptr' = ptr /\ pubPap' = pubPap
  BY <1>1 DEF tableVars
<1>8. Cardinality(Refs[a]) \in Nat /\ Cardinality(Unc[a]) \in Nat /\ Cardinality(Unrel[a]) \in Nat
  BY <1>3, Subsets, Sizes
<1>9. \A g \in Handle : ptr'[g] # Null => Public(ptr'[g].at, ptr'[g].p)
  BY <1>7, HolderHome
<1>10. /\ SameHomes /\ rc'[y][a] = rc[y][a] + 1
       /\ \A f \in Executor, b \in Address : b # a => rc'[f][b] = rc[f][b]
  <2>1. rc' = Recounted(rc, y, a, Pub!Incremented(rc[y][a])) BY <1>1, <1>2
  <2> QED BY <1>3, <1>6, <2>1, OneCountedMore
<1>11. /\ OthersKept(a)
       /\ Unc'[a] = Unc[a] \ {k} /\ Unrel'[a] = Unrel[a] /\ Refs'[a] = Refs[a]
  BY <1>3, <1>4, <1>5, <1>7, <1>10 DEF OthersKept
<1>12. Unc[a] \in SUBSET Handle BY <1>3, Subsets
<1>13. Cardinality(Unc'[a]) = Cardinality(Unc[a]) - 1 BY <1>4, <1>11, <1>12, OneLess
<1>14. Balanced(y, a)' BY <1>6, <1>7, <1>8, <1>10, <1>11, <1>13 DEF Balanced
<1>15. AnchorOK(a)' BY <1>6, <1>7, <1>8, <1>11, <1>13 DEF AnchorOK
<1>16. RefsApart' BY <1>1, <1>7 DEF CInv, RefsApart, Pub!IsPushing
<1>17. \A f \in Executor : AskerOK(f)' BY <1>1, AskerKept
<1>18. rc[y][a] # 0 /\ rc'[y][a] # 0 BY <1>6, <1>10
<1> QED BY <1>3, <1>7, <1>9, <1>10, <1>11, <1>14, <1>15, <1>16, <1>17, <1>18, SteadyStep

(* A question changes no count, nor does its answer.                       *)
LEMMA QuestionCounts ==
  ASSUME IInv, IInv', CInv, NEW a \in Address, IsPublic(a),
         UNCHANGED <<issued, view, pub, lost, ptr, rc, pubPap>>,
         \A r \in pubDmn \cup pubDmn' : ~IsAsk(r) => r \in pubDmn /\ r \in pubDmn',
         \A f \in Executor : Pub!IsPushing(f)' \/ Pub!IsPushing(f) => busy'[f] = busy[f],
         \A f \in Executor : AskerOK(f)'
  PROVE  CInv'
<1>1. \A b \in Address : Unc'[b] = Unc[b] /\ Unrel'[b] = Unrel[b]
  BY QuestionSame
<1>2. \A b \in Address : Refs'[b] = Refs[b] BY RefsSame
<1>3. SameHomes /\ OthersKept(a) BY <1>1, <1>2 DEF SameHomes, OthersKept
<1>4. PICK y \in Executor : rc[y][a] # Null BY DEF IsPublic
<1>5. CountOK(a) /\ AnchorOK(a) BY DEF CInv
<1>6. Balanced(y, a)' /\ AnchorOK(a)'
  BY <1>1, <1>2, <1>4, <1>5 DEF CountOK, Balanced, AnchorOK
<1>7. RefsApart'
  <2>1. \A r \in pubDmn' : r.op \in {"RC_INC", "RC_DEC"} => r \in pubDmn BY DEF IsAsk
  <2>2. \A f \in Executor : Pub!IsPushing(f)' => Pub!IsPushing(f) /\ busy'[f] = busy[f]
    BY DEF Pub!IsPushing
  <2> QED BY <2>1, <2>2 DEF CInv, RefsApart
<1>8. \A g \in Handle : ptr'[g] # Null => Public(ptr'[g].at, ptr'[g].p)
  BY HolderHome
<1> QED BY <1>3, <1>4, <1>6, <1>7, <1>8, SteadyStep

LEMMA AskCounts ==
  ASSUME IInv, IInv', CInv, NEW e \in Executor, NEW h \in Handle,
         NEW op \in {"RLOAD", "RC_GET"}, Idle(e), Pub!Ask(e, h, op),
         UNCHANGED <<privateVars, pub, lost>>
  PROVE  CInv'
<1>1. PICK a : a = ptr[h].p OBVIOUS
<1>2. PICK r : r = Pub!RequestTo(op, e, a, Null) OBVIOUS
<1>3. PICK x : x = [op |-> op, p |-> a, to |-> view[e][a].author] OBVIOUS
<1>4. /\ ptr[h] # Null /\ ptr[h].at = e /\ busy[e] = Null
      /\ pubDmn' = pubDmn \cup {r} /\ busy' = [busy EXCEPT ![e] = x]
      /\ UNCHANGED <<tableVars, ptr, rc, pubPap, pubMem>>
  BY <1>1, <1>2, <1>3 DEF Pub!Ask, Pub!HeldBy, Pub!Running, Pub!tableVars, tableVars
<1>5. a \in Address /\ IsPublic(a) BY <1>1, <1>4, HolderHome
<1>6. r.op = op /\ r.from = e /\ r.p = a /\ IsAsk(r) /\ x.op = op /\ x.p = a /\ x.op # "push"
  BY <1>2, <1>3 DEF Pub!RequestTo, IsAsk
<1>7. busy \in [Executor -> Pub!Pushing \cup Pub!Asking \cup {Null}]
  BY TypeParts DEF IInv, TypesApart, PublicTyped
<1>8. busy'[e] = x /\ \A f \in Executor : f # e => busy'[f] = busy[f] BY <1>4, <1>7
<1>9. \A f \in Executor : Pub!IsPushing(f)' \/ Pub!IsPushing(f) => busy'[f] = busy[f]
  BY <1>4, <1>6, <1>8 DEF Pub!IsPushing
<1>10. ASSUME NEW f \in Executor PROVE AskerOK(f)'
  <2>1. CASE f # e BY <1>4, <1>6, <1>8, <2>1, AskerKept
  <2>2. CASE f = e
    <3>1. \A q \in pubDmn : q.from = e => ~IsAsk(q)
      BY <1>4 DEF IInv, AskOK, Asks, Pub!IsAsking
    <3>2. \A q \in pubDmn' : q.from = e /\ IsAsk(q) => q = r BY <1>4, <3>1
    <3> QED BY <1>1, <1>4, <1>6, <1>8, <2>2, <3>2 DEF AskerOK, Pub!HeldBy
  <2> QED BY <2>1, <2>2
<1>11. UNCHANGED <<issued, view, pub, lost, ptr, rc, pubPap>> BY <1>4 DEF tableVars
<1>12. \A q \in pubDmn \cup pubDmn' : ~IsAsk(q) => q \in pubDmn /\ q \in pubDmn'
  BY <1>4, <1>6
<1> QED BY <1>5, <1>9, <1>10, <1>11, <1>12, QuestionCounts

LEMMA AnsweredCounts ==
  ASSUME IInv, IInv', CInv, NEW e \in Executor, Pub!Answered(e),
         UNCHANGED <<privateVars, pub, lost>>
  PROVE  CInv'
<1>1. /\ Pub!IsAsking(e) /\ busy' = [busy EXCEPT ![e] = Null]
      /\ UNCHANGED <<tableVars, ptr, rc, pubPap, pubDmn>>
  BY DEF Pub!Answered, Pub!tableVars, tableVars
<1>2. busy[e].p \in Address /\ IsPublic(busy[e].p) BY <1>1, PublicKnown DEF Pub!IsAsking
<1>3. busy \in [Executor -> Pub!Pushing \cup Pub!Asking \cup {Null}]
  BY TypeParts DEF IInv, TypesApart, PublicTyped
<1>4. busy'[e] = Null /\ \A f \in Executor : f # e => busy'[f] = busy[f] BY <1>1, <1>3
<1>5. \A f \in Executor : Pub!IsPushing(f)' \/ Pub!IsPushing(f) => busy'[f] = busy[f]
  BY <1>1, <1>4 DEF Pub!IsPushing, Pub!IsAsking
<1>6. ASSUME NEW f \in Executor PROVE AskerOK(f)'
  <2>1. ~Pub!IsAsking(e)' /\ \A r \in pubDmn' : r.from = e => ~IsAsk(r)
    BY <1>4, NothingAsked
  <2> QED BY <1>1, <1>4, <2>1, AskerKept
<1>7. UNCHANGED <<issued, view, pub, lost, ptr, rc, pubPap>> BY <1>1 DEF tableVars
<1>8. pubDmn' = pubDmn BY <1>1
<1> QED BY <1>2, <1>5, <1>6, <1>7, <1>8, QuestionCounts

LEMMA DmnReplyCounts ==
  ASSUME IInv, IInv', CInv, NEW r \in pubDmn, Pub!DmnReply(r),
         UNCHANGED <<privateVars, pub, lost>>
  PROVE  CInv'
<1>1. /\ IsAsk(r) /\ pubDmn' = pubDmn \ {r}
      /\ UNCHANGED <<tableVars, ptr, rc, busy, pubPap>>
  BY DEF Pub!DmnReply, Pub!tableVars, tableVars, IsAsk
<1>2. r.p \in Address /\ IsPublic(r.p) BY PublicKnown DEF IsPublic
<1>4. \A f \in Executor : AskerOK(f)' BY <1>1, AskerKept
<1>5. UNCHANGED <<issued, view, pub, lost, ptr, rc, pubPap>> BY <1>1 DEF tableVars
<1>6. \A f \in Executor : Pub!IsPushing(f)' \/ Pub!IsPushing(f) => busy'[f] = busy[f]
  BY <1>1
<1>7. \A q \in pubDmn \cup pubDmn' : ~IsAsk(q) => q \in pubDmn /\ q \in pubDmn'
  BY <1>1
<1> QED BY <1>2, <1>4, <1>5, <1>6, <1>7, QuestionCounts

(* A reference that is lost: it counts for ever.                           *)
LEMMA ReferenceLost ==
  ASSUME IInv, IInv', CInv, NEW a \in Address, IsPublic(a), Lose(a),
         UNCHANGED <<issued, view, pub, rc, busy, pubDmn>>,
         NEW h \in Handle, h \in Refs[a],
         \A b \in Address : Refs'[b] = IF b = a THEN Refs[b] \ {h} ELSE Refs[b],
         RefsApart',
         \A g \in Handle : ptr'[g] # Null => ptr'[g] = ptr[g],
         pubPap' \subseteq pubPap,
         \A f \in Executor : AskerOK(f)'
  PROVE  CInv'
<1>1. \A b \in Address : Unc'[b] = Unc[b] /\ Unrel'[b] = Unrel[b] BY UncSame
<1>2. LostTyped BY TypeParts DEF IInv, TypesApart
<1>3. lost'[a] = lost[a] + 1 /\ \A b \in Address : b # a => lost'[b] = lost[b]
  BY <1>2 DEF Lose, LostTyped
<1>4. SameHomes /\ OthersKept(a) BY <1>1, <1>3 DEF SameHomes, OthersKept
<1>5. PICK y \in Executor : rc[y][a] # Null BY DEF IsPublic
<1>6. rc[y][a] \in Nat /\ lost[a] \in Nat /\ rc[y][a] > 0
      /\ rc[y][a] + Cardinality(Unc[a]) =
             Cardinality(Refs[a]) + Cardinality(Unrel[a]) + lost[a]
      /\ Cardinality(Unc[a]) < Cardinality(Refs[a]) + lost[a]
  BY <1>5, Count
<1>7. Refs[a] \in SUBSET Handle /\ Refs'[a] = Refs[a] \ {h} BY Subsets
<1>8. Cardinality(Refs'[a]) = Cardinality(Refs[a]) - 1 BY <1>7, OneLess
<1>9. Cardinality(Refs[a]) \in Nat /\ Cardinality(Unc[a]) \in Nat /\ Cardinality(Unrel[a]) \in Nat
  BY Subsets, Sizes
<1>10. rc' = rc /\ Unc'[a] = Unc[a] /\ Unrel'[a] = Unrel[a] BY <1>1
<1>11. Balanced(y, a)' BY <1>3, <1>6, <1>8, <1>9, <1>10 DEF Balanced
<1>12. AnchorOK(a)' BY <1>3, <1>6, <1>8, <1>9, <1>10 DEF AnchorOK
<1>13. \A g \in Handle : ptr'[g] # Null => Public(ptr'[g].at, ptr'[g].p)
  BY HolderHome
<1>14. \A m \in pubPap' : m \in pubPap \/ m.to # m.author OBVIOUS
<1> QED BY <1>4, <1>5, <1>10, <1>11, <1>12, <1>13, <1>14, SteadyStep

LEMMA OverwriteCounts ==
  ASSUME IInv, IInv', CInv, NEW e \in Executor, NEW h \in Handle, Overwrite(e, h)
  PROVE  CInv'
<1>1. /\ ptr[h] # Null /\ ptr[h].at = e /\ busy[e] = Null
      /\ ptr' = Put(ptr, h, Null) /\ Lose(ptr[h].p)
      /\ UNCHANGED <<tableVars, rc, busy, pubPap, pubDmn, pub>>
  BY DEF Overwrite, Pub!HeldBy, Idle, Put
<1>2. PICK a : a = ptr[h].p OBVIOUS
<1>3. a \in Address /\ IsPublic(a) BY <1>1, <1>2, HolderHome
<1>4. /\ \A g \in Handle : ptr'[g] = IF g = h THEN Null ELSE ptr[g]
      /\ h \in Refs[a]
      /\ \A b \in Address : Refs'[b] = IF b = a THEN Refs[b] \ {h} ELSE Refs[b]
  BY <1>1, <1>2, ObjectGone
<1>5. RefsApart' BY <1>1, <1>4, RefTypes DEF CInv, RefsApart, Pub!IsPushing
<1>6. ASSUME NEW f \in Executor PROVE AskerOK(f)'
  <2>1. ~Pub!IsAsking(e)' /\ \A r \in pubDmn' : r.from = e => ~IsAsk(r)
    BY <1>1, NothingAsked
  <2>2. f # e => \A g \in Handle : Pub!HeldBy(f, g) => ptr'[g] = ptr[g]
    BY <1>1, <1>4 DEF Pub!HeldBy
  <2>3. CASE f # e BY <1>1, <2>2, <2>3, AskerKept
  <2>4. CASE f = e BY <2>1, <2>4 DEF AskerOK
  <2> QED BY <2>3, <2>4
<1>7. \A g \in Handle : ptr'[g] # Null => ptr'[g] = ptr[g] BY <1>4
<1>8. UNCHANGED <<issued, view, pub, rc, busy, pubDmn>> /\ pubPap' \subseteq pubPap
  BY <1>1 DEF tableVars
<1>9. Lose(a) BY <1>1, <1>2
<1> QED BY <1>3, <1>4, <1>5, <1>6, <1>7, <1>8, <1>9, ReferenceLost

LEMMA PullPublicAsPrivateCounts ==
  ASSUME IInv, IInv', CInv, NEW e \in Executor, NEW m \in pubPap, PullPublicAsPrivate(e, m)
  PROVE  CInv'
<1>1. /\ pubPap' = pubPap \ {m} /\ Lose(m.p)
      /\ UNCHANGED <<tableVars, ptr, rc, busy, pubDmn, pub>>
  BY DEF PullPublicAsPrivate
<1>2. PICK a, k : a = m.p /\ k = m.ref OBVIOUS
<1>3. IsPublic(a) BY <1>2, PublicKnown DEF IsPublic
<1>4. /\ a \in Address /\ k \in Handle /\ k \in Refs[a]
      /\ \A b \in Address : Refs'[b] = IF b = a THEN Refs[b] \ {k} ELSE Refs[b]
  BY <1>1, <1>2, MessageGone
<1>5. RefsApart' BY <1>1 DEF CInv, RefsApart, Pub!IsPushing
<1>6. \A f \in Executor : AskerOK(f)' BY <1>1, AskerKept
<1>7. \A g \in Handle : ptr'[g] # Null => ptr'[g] = ptr[g] BY <1>1
<1>8. UNCHANGED <<issued, view, pub, rc, busy, pubDmn>> /\ pubPap' \subseteq pubPap
  BY <1>1 DEF tableVars
<1>9. Lose(a) BY <1>1, <1>2
<1> QED BY <1>3, <1>4, <1>5, <1>6, <1>7, <1>8, <1>9, ReferenceLost

LEMMA DropAwayCounts ==
  ASSUME IInv, IInv', CInv, NEW e \in Executor, NEW h \in Handle, Idle(e),
         ptr[h] # Null, ~Pub!AmAuthor(e, ptr[h].p), Pub!Uncounted(ptr[h].p) = {},
         Pub!Drop(e, h), UNCHANGED <<privateVars, pub, lost>>
  PROVE  CInv'
<1>1. PICK a : a = ptr[h].p OBVIOUS
<1>2. PICK r : r = Pub!RequestTo("RC_DEC", e, a, h) OBVIOUS
<1>3. /\ ptr[h].at = e /\ busy[e] = Null /\ ptr' = Put(ptr, h, Null)
      /\ pubDmn' = pubDmn \cup {r}
      /\ UNCHANGED <<tableVars, rc, busy, pubPap>>
  BY <1>1, <1>2
     DEF Pub!Drop, Pub!HeldBy, Pub!Running, Idle, Put, Pub!tableVars, tableVars
<1>4. a \in Address /\ IsPublic(a) BY <1>1, HolderHome
<1>5. /\ \A g \in Handle : ptr'[g] = IF g = h THEN Null ELSE ptr[g]
      /\ h \in Refs[a]
      /\ \A b \in Address : Refs'[b] = IF b = a THEN Refs[b] \ {h} ELSE Refs[b]
  BY <1>1, <1>3, ObjectGone
<1>6. r.op = "RC_DEC" /\ r.from = e /\ r.p = a /\ r.ref = h /\ ~IsAsk(r)
  BY <1>2 DEF Pub!RequestTo, IsAsk
<1>7. \A b \in Address : /\ Unrel'[b] = IF b = a THEN Unrel[b] \cup {h} ELSE Unrel[b]
                         /\ Unc'[b] = Unc[b]
  BY <1>3, <1>6, RequestMade
<1>8. h \notin Unrel[a]
  <2>1. \A q \in pubDmn : q.op = "RC_DEC" => q.ref # h BY DEF CInv, RefsApart
  <2> QED BY <2>1, <1>4 DEF Unrel, Pub!Unreleased, Pub!Counting
<1>9. Unc[a] = {} BY <1>1, <1>4 DEF Unc
<1>10. PICK y \in Executor : rc[y][a] # Null BY <1>4 DEF IsPublic
<1>11. rc[y][a] \in Nat /\ lost[a] \in Nat
      /\ rc[y][a] + Cardinality(Unc[a]) =
             Cardinality(Refs[a]) + Cardinality(Unrel[a]) + lost[a]
  BY <1>4, <1>10, Count
<1>12. /\ Refs[a] \in SUBSET Handle /\ Refs'[a] = Refs[a] \ {h} /\ Refs'[a] \in SUBSET Handle
       /\ Unrel[a] \in SUBSET Handle /\ Unrel'[a] = Unrel[a] \cup {h}
       /\ Unc'[a] = Unc[a] /\ Unc[a] \in SUBSET Handle
  BY <1>4, <1>5, <1>7, Subsets
<1>13. /\ Cardinality(Refs'[a]) = Cardinality(Refs[a]) - 1
       /\ Cardinality(Unrel'[a]) = Cardinality(Unrel[a]) + 1
  BY <1>5, <1>8, <1>12, OneLess, OneMore
<1>14. /\ Cardinality(Refs[a]) \in Nat /\ Cardinality(Unc[a]) \in Nat /\ Cardinality(Unrel[a]) \in Nat
       /\ Cardinality(Refs'[a]) \in Nat
       /\ Cardinality(Refs'[a]) = 0 <=> Refs'[a] = {}
       /\ Cardinality(Unc[a]) = 0
  BY <1>9, <1>12, Sizes
<1>15. rc' = rc /\ lost' = lost BY <1>3
<1>16. Balanced(y, a)' BY <1>11, <1>12, <1>13, <1>14, <1>15 DEF Balanced
<1>17. AnchorOK(a)'
  <2>1. CASE Refs'[a] = {} /\ lost[a] = 0 BY <2>1, <1>9, <1>12, <1>15 DEF AnchorOK
  <2>2. CASE Refs'[a] # {} \/ lost[a] # 0
    <3>1. Cardinality(Unc[a]) < Cardinality(Refs'[a]) + lost[a]
      <4>1. PICK x, u, l : x = Cardinality(Refs'[a]) /\ u = Cardinality(Unc[a]) /\ l = lost[a]
        OBVIOUS
      <4>2. x \in Nat /\ u = 0 /\ l \in Nat /\ (x # 0 \/ l # 0) BY <1>11, <1>14, <2>2, <4>1
      <4>3. u < x + l BY <4>2
      <4> QED BY <4>1, <4>3
    <3> QED BY <3>1, <1>12, <1>15 DEF AnchorOK
  <2> QED BY <2>1, <2>2
<1>18. SameHomes /\ OthersKept(a) BY <1>5, <1>7, <1>15 DEF SameHomes, OthersKept
<1>19. RefsApart'
  <2>1. \A f \in Executor : Pub!IsPushing(f)' => Pub!IsPushing(f) /\ busy'[f] = busy[f]
    BY <1>3 DEF Pub!IsPushing
  <2> QED BY <1>3, <1>5, <1>6, <2>1, RefTypes DEF CInv, RefsApart
<1>20. ASSUME NEW f \in Executor PROVE AskerOK(f)'
  <2>1. ~Pub!IsAsking(e)' /\ \A q \in pubDmn' : q.from = e => ~IsAsk(q)
    BY <1>3, NothingAsked
  <2>2. f # e => \A g \in Handle : Pub!HeldBy(f, g) => ptr'[g] = ptr[g]
    BY <1>3, <1>5 DEF Pub!HeldBy
  <2>3. CASE f # e BY <1>3, <1>6, <2>2, <2>3, AskerKept
  <2>4. CASE f = e BY <2>1, <2>4 DEF AskerOK
  <2> QED BY <2>3, <2>4
<1>21. \A g \in Handle : ptr'[g] # Null => Public(ptr'[g].at, ptr'[g].p)
  BY <1>5, HolderHome
<1>22. UNCHANGED <<issued, view, pub>> /\ \A m \in pubPap' : m \in pubPap \/ m.to # m.author
  BY <1>3 DEF tableVars
<1> QED BY <1>4, <1>10, <1>15, <1>16, <1>17, <1>18, <1>19, <1>20, <1>21, <1>22, SteadyStep

-----------------------------------------------------------------------------
(* Steps that change the tables *)

(* Nothing is counted of an address that is not public.                    *)
LEMMA NothingCounted ==
  ASSUME IInv, NEW b \in Address, ~IsPublic(b)
  PROVE  Refs[b] = {} /\ Unc[b] = {} /\ Unrel[b] = {}
<1>1. HomeOK(b) BY DEF IInv
<1>2. \A m \in pubPap : m.author \in Executor BY PublicKnown
<1>3. \A r \in pubDmn : r.to \in Executor BY PublicKnown
<1>4. Pub!References(b) = {}
  BY <1>1, <1>2 DEF HomeOK, IsPublic, Pub!References, Pub!Held, Pub!Sent
<1>5. Pub!Uncounted(b) = {}
  BY <1>1, <1>3 DEF HomeOK, IsPublic, Pub!Uncounted, Pub!Counting, Pub!InPush, Pub!IsPushing
<1>6. Pub!Unreleased(b) = {}
  BY <1>1, <1>3 DEF HomeOK, IsPublic, Pub!Unreleased, Pub!Counting
<1> QED BY <1>4, <1>5, <1>6 DEF Refs, Unc, Unrel

(* No number changes, but for losses of private addresses, and the memory  *)
(* of public addresses stays.                                              *)
LEMMA TablesStep ==
  ASSUME IInv, IInv', CInv, rc' = rc,
         \A b \in Address : Refs'[b] = Refs[b] /\ Unc'[b] = Unc[b] /\ Unrel'[b] = Unrel[b],
         \A b \in Address : IsPublic(b) => lost'[b] = lost[b],
         \A b \in Address : lost'[b] # lost[b] => lost'[b] > 0,
         \A b \in Address : LostOK(b)',
         \A f \in Executor, b \in Address : rc[f][b] # Null => view'[f][b] = view[f][b],
         \A f \in Executor, b \in Address :
             Public(f, b)' /\ rc[f][b] = Null => view'[f][b].committed = Null,
         \A h \in Handle : HolderOK(h)',
         \A m \in pubPap' : m \in pubPap,
         RefsApart', \A f \in Executor : AskerOK(f)'
  PROVE  CInv'
<1>1. ASSUME NEW b \in Address PROVE CountOK(b)'
  <2>1. CountOK(b) BY DEF CInv
  <2>2. ASSUME NEW f \in Executor, rc'[f][b] # Null PROVE Balanced(f, b)'
    <3>1. rc[f][b] # Null /\ IsPublic(b) BY <2>2 DEF IsPublic
    <3>2. lost'[b] = lost[b] BY <3>1
    <3>3. Balanced(f, b) BY <2>1, <3>1 DEF CountOK
    <3> QED BY <3>2, <3>3 DEF Balanced
  <2> QED BY <2>2 DEF CountOK
<1>2. ASSUME NEW b \in Address PROVE AnchorOK(b)'
  <2>1. AnchorOK(b) BY DEF CInv
  <2>2. CASE lost'[b] = lost[b] BY <2>1, <2>2 DEF AnchorOK
  <2>3. CASE lost'[b] # lost[b]
    <3>1. ~IsPublic(b) /\ lost'[b] > 0 BY <2>3
    <3>2. Refs[b] = {} /\ Unc[b] = {} BY <3>1, NothingCounted
    <3>3. Refs'[b] = {} /\ Unc'[b] = {} BY <3>2
    <3>4. Cardinality(Refs'[b]) = 0 /\ Cardinality(Unc'[b]) = 0 BY <3>3, FS_EmptySet
    <3>5. lost'[b] \in Nat
      BY TypePartsNext, Numbers DEF IInv, TypesApart, LostTyped
    <3> QED BY <3>1, <3>4, <3>5 DEF AnchorOK
  <2> QED BY <2>2, <2>3
<1>3. ASSUME NEW b \in Address PROVE MemoryOK(b)'
  <2>1. MemoryOK(b) BY DEF CInv
  <2>2. \A f \in Executor : rc[f][b] # Null => (Backs(f, b)' <=> Backs(f, b))
    BY DEF Backs, Mapped
  <2> QED BY <2>1, <2>2 DEF MemoryOK
<1> QED BY <1>1, <1>2, <1>3 DEF CInv

LEMMA PullCounts ==
  ASSUME IInv, IInv', CInv, NEW e \in Executor, NEW m \in pubPap, Idle(e),
         Pub!Pull(e, m), UNCHANGED <<privateVars, pub, lost>>
  PROVE  CInv'
<1>1. PICK a \in Address, y \in Executor, h \in Handle, x \in {Pub!PulledEntry(e, m)},
           l \in {[p |-> m.p, at |-> e]} :
        a = m.p /\ y = m.author /\ h = m.ref /\ rc[y][a] # Null
  BY PublicKnown, TypeFacts DEF IInv, Typed, TypedPublic
<1>2. /\ pubPap' = pubPap \ {m} /\ m.to = e /\ busy[e] = Null
      /\ view' = [view EXCEPT ![e][a] = x]
      /\ ptr' = Put(ptr, m.ref, l)
      /\ UNCHANGED <<issued, rc, busy, pubDmn, pub, lost>>
  BY <1>1 DEF Pub!Pull, Pub!Running, Put
<1>3. x.committed = Null /\ x.access_level = "public" /\ x # Null
  <2>1. Typed BY TypeFacts DEF IInv
  <2>2. (IF Mapped(e, a) THEN view[e][a].child ELSE Null) \in Cell \cup {Null}
    BY <2>1 DEF Typed, TypedTables
  <2>3. x = [committed |-> Null, owner |-> Null, author |-> y,
             child |-> IF Mapped(e, a) THEN view[e][a].child ELSE Null,
             access_level |-> "public"]
    BY <1>1, SameTables DEF Pub!PulledEntry
  <2>4. x \in Entry BY <2>2, <2>3 DEF Entry, AccessLevel
  <2> QED BY <2>3, <2>4, ViewAssumption
<1>4. l \in Pub!Pointer /\ l.p = m.p /\ l.at = e BY <1>1 DEF Pub!Pointer
<1>5. /\ \A g \in Handle : ptr'[g] = IF g = m.ref THEN l ELSE ptr[g]
      /\ \A b \in Address : Refs'[b] = Refs[b]
  BY <1>2, <1>4, MessagePulled
<1>6. \A b \in Address : Unc'[b] = Unc[b] /\ Unrel'[b] = Unrel[b] BY <1>2, UncSame
<1>7. rc[e][a] = Null
  <2>1. e # y BY <1>1, <1>2 DEF CInv
  <2> QED BY <1>1, <2>1 DEF IInv, HomeOK
<1>8. /\ view'[e][a] = x
      /\ \A f \in Executor, b \in Address : f # e \/ b # a => view'[f][b] = view[f][b]
  <2>1. view \in [Executor -> [Address -> Entry \cup {Null}]]
    BY TypeParts DEF IInv, TypesApart, TableTypeOK
  <2> QED BY <1>2, <2>1
<1>9. ASSUME NEW f \in Executor, NEW b \in Address
      PROVE  /\ rc[f][b] # Null => view'[f][b] = view[f][b]
             /\ Public(f, b)' /\ rc[f][b] = Null => view'[f][b].committed = Null
  <2>1. CASE f = e /\ b = a BY <1>3, <1>7, <1>8, <2>1
  <2>2. CASE f # e \/ b # a
    <3>1. view'[f][b] = view[f][b] BY <1>8, <2>2
    <3>2. MemoryOK(b) BY DEF CInv
    <3> QED BY <3>1, <3>2 DEF MemoryOK, Public, Mapped
  <2> QED BY <2>1, <2>2
<1>10. ASSUME NEW f \in Executor, NEW b \in Address, Public(f, b) PROVE Public(f, b)'
  <2>2. CASE f = e /\ b = a BY <1>3, <1>8, <2>2 DEF Public, Mapped
  <2>3. CASE f # e \/ b # a BY <1>8, <1>10, <2>3 DEF Public, Mapped
  <2> QED BY <2>2, <2>3
<1>11. ASSUME NEW g \in Handle PROVE HolderOK(g)'
  <2>1. CASE g = m.ref
    <3>1. ptr'[g] = l /\ l.at = e /\ l.p = a BY <1>1, <1>4, <1>5, <2>1
    <3>2. Public(e, a)' BY <1>3, <1>8 DEF Public, Mapped
    <3> QED BY <3>1, <3>2 DEF HolderOK
  <2>2. CASE g # m.ref
    <3>1. ptr'[g] = ptr[g] BY <1>5, <2>2
    <3> QED BY <3>1, <1>10, HolderHome DEF HolderOK
  <2> QED BY <2>1, <2>2
<1>12. RefsApart'
  <2>1. /\ \A r \in pubDmn : r.op = "RC_DEC" => r.ref # m.ref
        /\ \A n \in pubPap' : n \in pubPap /\ n.ref # m.ref
    BY <1>2 DEF CInv, RefsApart
  <2> QED BY <1>2, <1>5, <2>1, RefTypes DEF CInv, RefsApart, Pub!IsPushing
<1>13. ASSUME NEW f \in Executor PROVE AskerOK(f)'
  <2>1. ptr[m.ref] = Null BY DEF CInv, RefsApart
  <2>2. \A g \in Handle : Pub!HeldBy(f, g) => ptr'[g] = ptr[g]
    BY <1>5, <2>1 DEF Pub!HeldBy
  <2> QED BY <1>2, <2>2, AskerKept
<1>14. \A b \in Address : LostOK(b)' BY <1>2 DEF CInv, LostOK, InPublish
<1> QED BY <1>2, <1>5, <1>6, <1>9, <1>11, <1>12, <1>13, <1>14, TablesStep

(* A reference is discounted at home: the last one frees the memory.       *)
LEMMA DiscountCounts ==
  ASSUME IInv, IInv', CInv, NEW e \in Executor, NEW a \in Address,
         Pub!AmAuthor(e, a), IsPublic(a), Pub!Discount(e, a), rc[e][a] > 0,
         UNCHANGED <<pub, lost, pubPap>>,
         \A b \in Address : b # a =>
             Refs'[b] = Refs[b] /\ Unc'[b] = Unc[b] /\ Unrel'[b] = Unrel[b],
         rc'[e][a] = rc[e][a] - 1 => Balanced(e, a)', AnchorOK(a)',
         \A g \in Handle : ptr'[g] # Null => ptr'[g] = ptr[g],
         RefsApart', \A f \in Executor : AskerOK(f)'
  PROVE  CInv'
<1>1. Mapped(e, a) /\ rc[e][a] # Null /\ rc[e][a] \in Nat
  <2>1. Mapped(e, a) BY SameTables DEF Pub!AmAuthor
  <2> QED BY <2>1, KnownHome, Count
<1>2. /\ SameHomes /\ rc'[e][a] = rc[e][a] - 1
      /\ Pub!Decremented(rc[e][a]) = rc[e][a] - 1
      /\ \A f \in Executor, b \in Address : b # a => rc'[f][b] = rc[f][b]
      /\ \A f \in Executor : f # e => rc'[f][a] = rc[f][a]
  <2>1. rc' = Recounted(rc, e, a, Pub!Decremented(rc[e][a])) BY DEF Pub!Discount, Recounted
  <2> QED BY <1>1, <2>1, OneCountedLess
<1>3. OthersKept(a) BY <1>2 DEF OthersKept
<1>4. Balanced(e, a)' BY <1>2
<1>5. \A b \in Address : CountOK(b)' /\ AnchorOK(b)'
  BY <1>1, <1>2, <1>3, <1>4, CountsKept
<1>6. Refs'[a] # {} => rc'[e][a] # 0
  <2>1. PICK u, r, d, l, n : /\ u = Cardinality(Unc'[a]) /\ r = Cardinality(Refs'[a])
                             /\ d = Cardinality(Unrel'[a]) /\ l = lost'[a] /\ n = rc'[e][a]
    OBVIOUS
  <2>2. /\ u \in Nat /\ r \in Nat /\ d \in Nat /\ l \in Nat
        /\ r = 0 <=> Refs'[a] = {}
    <3>1. lost[a] \in Nat BY <1>1, Count
    <3> QED BY <2>1, <3>1, SubsetsNext, Sizes
  <2>3. n + u = r + d + l BY <1>4, <2>1 DEF Balanced
  <2>4. u < r + l \/ r = 0
    BY <2>1, <2>2 DEF AnchorOK
  <2>5. n \in Int BY <1>1, <1>2, <2>1
  <2>6. r # 0 => n # 0 BY <2>2, <2>3, <2>4, <2>5
  <2> QED BY <2>1, <2>2, <2>6
<1>7. /\ issued' = issued
      /\ \A f \in Executor, b \in Address : f # e \/ b # a => view'[f][b] = view[f][b]
      /\ rc'[e][a] = 0 => view'[e][a] = Null
      /\ rc'[e][a] # 0 => view'[e][a] = view[e][a]
  <2>1. UNCHANGED tableVars \/ Freed(e, a) BY DiscountEffect
  <2>2. CASE rc'[e][a] = 0
    <3>1. Unmap(e, a) BY <1>2, <2>2, SameTables DEF Pub!Discount
    <3>2. view \in [Executor -> [Address -> Entry \cup {Null}]]
      BY TypeParts DEF IInv, TypesApart, TableTypeOK
    <3> QED BY <2>2, <3>1, <3>2 DEF Unmap
  <2>3. CASE rc'[e][a] # 0
    <3>1. UNCHANGED tableVars BY <1>2, <2>3 DEF Pub!Discount, Pub!tableVars, tableVars
    <3> QED BY <2>3, <3>1 DEF tableVars
  <2> QED BY <2>2, <2>3
<1>8. ASSUME NEW b \in Address PROVE MemoryOK(b)'
  <2>1. MemoryOK(b) BY DEF CInv
  <2>2. CASE b # a
    <3>1. \A f \in Executor : view'[f][b] = view[f][b] /\ rc'[f][b] = rc[f][b]
      BY <1>2, <1>7, <2>2
    <3> QED BY <2>1, <3>1 DEF MemoryOK, Backs, Public, Mapped
  <2>3. CASE b = a
    <3>1. \A f \in Executor : f # e => view'[f][a] = view[f][a] /\ rc'[f][a] = rc[f][a]
      BY <1>2, <1>7
    <3>2. Backs(e, a)' <=> rc'[e][a] # 0
      <4>1. Backs(e, a) BY <1>1, <2>1, <2>3 DEF MemoryOK
      <4> QED BY <1>7, <4>1 DEF Backs, Mapped
    <3>3. rc'[e][a] # Null BY <1>1, <1>2 DEF SameHomes
    <3> QED BY <2>1, <2>3, <3>1, <3>2, <3>3 DEF MemoryOK, Backs, Public, Mapped
  <2> QED BY <2>2, <2>3
<1>9. ASSUME NEW g \in Handle PROVE HolderOK(g)'
  <2> SUFFICES ASSUME ptr'[g] # Null, ptr'[g] = ptr[g] PROVE Public(ptr[g].at, ptr[g].p)'
    BY DEF HolderOK
  <2>1. ptr'[g] = ptr[g] OBVIOUS
  <2>2. /\ ptr[g].at \in Executor /\ ptr[g].p \in Address
        /\ Public(ptr[g].at, ptr[g].p)
    BY <2>1, HolderHome
  <2>3. g \in Refs'[ptr[g].p] BY <2>1, <2>2 DEF Refs, Pub!References, Pub!Held
  <2>4. view'[ptr[g].at][ptr[g].p] = view[ptr[g].at][ptr[g].p]
    BY <1>6, <1>7, <2>2, <2>3
  <2> QED BY <2>1, <2>2, <2>4 DEF Public, Mapped
<1>10. \A b \in Address : LostOK(b)' BY <1>7 DEF CInv, LostOK, InPublish
<1>11. \A m \in pubPap' : m.to # m.author BY DEF CInv
<1> QED BY <1>5, <1>8, <1>9, <1>10, <1>11 DEF CInv

LEMMA DropAtHomeCounts ==
  ASSUME IInv, IInv', CInv, NEW e \in Executor, NEW h \in Handle, Idle(e),
         ptr[h] # Null, Pub!AmAuthor(e, ptr[h].p), Pub!Uncounted(ptr[h].p) = {},
         Pub!Drop(e, h), UNCHANGED <<privateVars, pub, lost>>
  PROVE  CInv'
<1>1. PICK a : a = ptr[h].p OBVIOUS
<1>2. /\ ptr[h].at = e /\ busy[e] = Null /\ ptr' = Put(ptr, h, Null)
      /\ Pub!Discount(e, a) /\ UNCHANGED <<busy, pubPap, pubDmn, pub, lost>>
  BY <1>1 DEF Pub!Drop, Pub!HeldBy, Idle, Put
<1>3. a \in Address /\ IsPublic(a) /\ Mapped(e, a) BY <1>1, <1>2, HolderHome
<1>4. rc[e][a] # Null BY <1>1, <1>3, KnownHome
<1>5. /\ \A g \in Handle : ptr'[g] = IF g = h THEN Null ELSE ptr[g]
      /\ h \in Refs[a]
      /\ \A b \in Address : Refs'[b] = IF b = a THEN Refs[b] \ {h} ELSE Refs[b]
  BY <1>1, <1>2, ObjectGone
<1>6. \A b \in Address : Unc'[b] = Unc[b] /\ Unrel'[b] = Unrel[b] BY <1>2, UncSame
<1>7. /\ rc[e][a] \in Nat /\ lost[a] \in Nat /\ rc[e][a] > 0
      /\ rc[e][a] + Cardinality(Unc[a]) =
             Cardinality(Refs[a]) + Cardinality(Unrel[a]) + lost[a]
  BY <1>3, <1>4, <1>5, Count
<1>8. /\ Refs[a] \in SUBSET Handle /\ Refs'[a] = Refs[a] \ {h} /\ Refs'[a] \in SUBSET Handle
      /\ Unrel'[a] = Unrel[a] /\ Unc'[a] = Unc[a]
      /\ Unrel[a] \in SUBSET Handle /\ Unc[a] \in SUBSET Handle /\ Unc[a] = {}
  BY <1>1, <1>3, <1>5, <1>6, Subsets DEF Unc
<1>9. /\ Cardinality(Refs'[a]) = Cardinality(Refs[a]) - 1
      /\ Cardinality(Refs[a]) \in Nat /\ Cardinality(Unrel[a]) \in Nat
      /\ Cardinality(Unc[a]) = 0 /\ Cardinality(Refs'[a]) \in Nat
      /\ Cardinality(Refs'[a]) = 0 <=> Refs'[a] = {}
  BY <1>5, <1>8, OneLess, Sizes
<1>10. ASSUME rc'[e][a] = rc[e][a] - 1 PROVE Balanced(e, a)'
  <2>1. lost'[a] = lost[a] /\ Unrel'[a] = Unrel[a] /\ Unc'[a] = Unc[a] BY <1>2, <1>8
  <2> QED BY <1>7, <1>9, <1>10, <2>1 DEF Balanced
<1>11. AnchorOK(a)'
  <2>1. CASE Refs'[a] = {} /\ lost[a] = 0 BY <1>2, <1>8, <2>1 DEF AnchorOK
  <2>2. CASE Refs'[a] # {} \/ lost[a] # 0
    <3>1. PICK x, u, l : x = Cardinality(Refs'[a]) /\ u = Cardinality(Unc[a]) /\ l = lost[a]
      OBVIOUS
    <3>2. x \in Nat /\ u = 0 /\ l \in Nat /\ (x # 0 \/ l # 0) BY <1>7, <1>9, <2>2, <3>1
    <3>3. u < x + l BY <3>2
    <3> QED BY <1>2, <1>8, <3>1, <3>3 DEF AnchorOK
  <2> QED BY <2>1, <2>2
<1>12. RefsApart' BY <1>2, <1>5, RefTypes DEF CInv, RefsApart, Pub!IsPushing
<1>13. ASSUME NEW f \in Executor PROVE AskerOK(f)'
  <2>1. ~Pub!IsAsking(e)' /\ \A q \in pubDmn' : q.from = e => ~IsAsk(q)
    BY <1>2, NothingAsked
  <2>2. f # e => \A g \in Handle : Pub!HeldBy(f, g) => ptr'[g] = ptr[g]
    BY <1>2, <1>5 DEF Pub!HeldBy
  <2>3. CASE f # e BY <1>2, <2>2, <2>3, AskerKept
  <2>4. CASE f = e BY <2>1, <2>4 DEF AskerOK
  <2> QED BY <2>3, <2>4
<1>14. /\ \A g \in Handle : ptr'[g] # Null => ptr'[g] = ptr[g]
       /\ \A b \in Address : b # a =>
             Refs'[b] = Refs[b] /\ Unc'[b] = Unc[b] /\ Unrel'[b] = Unrel[b]
       /\ UNCHANGED <<pub, lost, pubPap>> /\ Pub!AmAuthor(e, a)
  BY <1>1, <1>2, <1>5, <1>6
<1> QED BY <1>2, <1>3, <1>7, <1>10, <1>11, <1>12, <1>13, <1>14, DiscountCounts

LEMMA DmnRcDecCounts ==
  ASSUME IInv, IInv', CInv, NEW r \in pubDmn, Pub!DmnRcDec(r),
         UNCHANGED <<privateVars, pub, lost>>
  PROVE  CInv'
<1>1. PICK a, k, y : a = r.p /\ k = r.ref /\ y = r.to OBVIOUS
<1>2. /\ r.op = "RC_DEC" /\ Pub!AmAuthor(y, a) /\ Pub!Discount(y, a)
      /\ pubDmn' = pubDmn \ {r}
      /\ UNCHANGED <<ptr, busy, pubPap, pub, lost>>
  BY <1>1 DEF Pub!DmnRcDec, Pub!Serviceable
<1>3. a \in Address /\ y \in Executor /\ rc[y][a] # Null /\ IsPublic(a)
  BY <1>1, PublicKnown DEF IsPublic
<1>4. /\ k \in Unrel[a]
      /\ \A b \in Address : /\ Unrel'[b] = IF b = a THEN Unrel[b] \ {k} ELSE Unrel[b]
                            /\ Unc'[b] = Unc[b]
  BY <1>1, <1>2, RequestDone
<1>5. \A b \in Address : Refs'[b] = Refs[b] BY <1>2, RefsSame
<1>6. /\ rc[y][a] \in Nat /\ lost[a] \in Nat /\ rc[y][a] > 0
      /\ rc[y][a] + Cardinality(Unc[a]) =
             Cardinality(Refs[a]) + Cardinality(Unrel[a]) + lost[a]
  BY <1>3, <1>4, Count
<1>7. /\ Unrel[a] \in SUBSET Handle /\ Unrel'[a] = Unrel[a] \ {k}
      /\ Unc'[a] = Unc[a] /\ Refs'[a] = Refs[a]
  BY <1>3, <1>4, <1>5, Subsets
<1>8. /\ Cardinality(Unrel'[a]) = Cardinality(Unrel[a]) - 1
      /\ Cardinality(Refs[a]) \in Nat /\ Cardinality(Unrel[a]) \in Nat
      /\ Cardinality(Unc[a]) \in Nat
  BY <1>3, <1>4, <1>7, OneLess, Sizes, Subsets
<1>9. ASSUME rc'[y][a] = rc[y][a] - 1 PROVE Balanced(y, a)'
  <2>1. lost'[a] = lost[a] /\ Refs'[a] = Refs[a] /\ Unc'[a] = Unc[a] BY <1>2, <1>7
  <2> QED BY <1>6, <1>8, <1>9, <2>1 DEF Balanced
<1>10. AnchorOK(a)'
  <2>1. AnchorOK(a) BY <1>3 DEF CInv
  <2> QED BY <1>2, <1>7, <2>1 DEF AnchorOK
<1>11. RefsApart' BY <1>2 DEF CInv, RefsApart, Pub!IsPushing
<1>12. \A f \in Executor : AskerOK(f)' BY <1>2, AskerKept
<1>13. /\ \A g \in Handle : ptr'[g] # Null => ptr'[g] = ptr[g]
       /\ \A b \in Address : b # a =>
             Refs'[b] = Refs[b] /\ Unc'[b] = Unc[b] /\ Unrel'[b] = Unrel[b]
       /\ UNCHANGED <<pub, lost, pubPap>>
  BY <1>2, <1>4, <1>5
<1> QED BY <1>2, <1>3, <1>6, <1>9, <1>10, <1>11, <1>12, <1>13, DiscountCounts

-----------------------------------------------------------------------------
(* Public memory is born *)

LEMMA BornStep ==
  ASSUME IInv, IInv', CInv, NEW e \in Executor, NEW b \in Address, NEW c \in Cell,
         NEW k \in Pub!FreshHandles, ~IsPublic(b), lost[b] = 0,
         view'[e][b] = Pub!PublicEntry(e, c),
         rc' = Recounted(rc, e, b, 1), ptr' = Put(ptr, k, [p |-> b, at |-> e]),
         UNCHANGED <<busy, pubPap, pubDmn, lost>>,
         \A f \in Executor, d \in Address : IsPublic(d) => view'[f][d] = view[f][d],
         \A f \in Executor : f # e => view'[f][b] = view[f][b],
         issued \subseteq issued', \A d \in Address : InPublish(d)' => InPublish(d)
  PROVE  CInv'
<1>1. PICK l \in {[p |-> b, at |-> e]} : l.p = b /\ l.at = e /\ l = [p |-> b, at |-> e]
  OBVIOUS
<1>2. l \in Pub!Pointer BY <1>1 DEF Pub!Pointer
<1>3. /\ \A h \in Handle : ptr'[h] = IF h = k THEN l ELSE ptr[h]
      /\ \A d \in Address : Refs'[d] = IF d = b THEN Refs[d] \cup {k} ELSE Refs[d]
  <2>1. ptr' = Put(ptr, k, l) /\ pubPap' = pubPap BY <1>1
  <2>2. \A d \in Address : Refs'[d] = IF d = l.p THEN Refs[d] \cup {k} ELSE Refs[d]
    BY <1>2, <2>1, ObjectMade
  <2>3. \A h \in Handle : ptr'[h] = IF h = k THEN l ELSE ptr[h]
    BY <1>2, <2>1, ObjectMade
  <2> QED BY <1>1, <2>2, <2>3
<1>4. /\ k \in Handle /\ ptr[k] = Null
      /\ \A m \in pubPap : m.ref # k
      /\ \A r \in pubDmn : r.op \in {"RC_INC", "RC_DEC"} => r.ref # k
      /\ \A f \in Executor : Pub!IsPushing(f) => busy[f].ref # k
  BY FreshFacts
<1>5. \A d \in Address : Unc'[d] = Unc[d] /\ Unrel'[d] = Unrel[d] BY UncSame
<1>6. Refs[b] = {} /\ Unc[b] = {} /\ Unrel[b] = {} BY NothingCounted
<1>7. /\ Cardinality(Refs'[b]) = 1 /\ Cardinality(Unc'[b]) = 0 /\ Cardinality(Unrel'[b]) = 0
  <2>1. Refs'[b] = {k} /\ Unc'[b] = {} /\ Unrel'[b] = {} BY <1>3, <1>5, <1>6
  <2> QED BY <2>1, FS_Singleton, FS_EmptySet
<1>8. /\ rc'[e][b] = 1 /\ 1 # Null /\ 1 # 0
      /\ \A f \in Executor : f # e => rc'[f][b] = Null
      /\ \A f \in Executor, d \in Address : d # b => rc'[f][d] = rc[f][d]
  <2>1. rc \in [Executor -> [Address -> 0 .. RcRange - 1 \cup {Null}]]
    BY TypeParts DEF IInv, TypesApart, PublicTyped
  <2>2. \A f \in Executor : rc[f][b] = Null BY DEF IsPublic
  <2>3. 1 # Null
    <3>1. Cardinality(Handle) > 0
      <4>1. Cardinality({k}) <= Cardinality(Handle) BY <1>4, Sizes
      <4>2. Cardinality({k}) = 1 BY FS_Singleton
      <4> QED BY <4>1, <4>2, Numbers
    <3>2. 1 \in 0 .. RcRange - 1 BY <3>1, Numbers
    <3> QED BY <3>2, Numbers
  <2> QED BY <2>1, <2>2, <2>3 DEF Recounted
<1>9. ASSUME NEW d \in Address PROVE CountOK(d)' /\ AnchorOK(d)'
  <2>1. CASE d = b
    <3>1. Balanced(e, b)' BY <1>7, <1>8 DEF Balanced
    <3>2. lost'[b] = 0 OBVIOUS
    <3>3. AnchorOK(b)' BY <1>7, <3>2 DEF AnchorOK
    <3>4. CountOK(b)' BY <1>8, <3>1 DEF CountOK
    <3> QED BY <2>1, <3>3, <3>4
  <2>2. CASE d # b
    <3>1. CountOK(d) /\ AnchorOK(d) BY DEF CInv
    <3>2. /\ Refs'[d] = Refs[d] /\ Unc'[d] = Unc[d] /\ Unrel'[d] = Unrel[d]
          /\ \A f \in Executor : rc'[f][d] = rc[f][d]
      BY <1>3, <1>5, <1>8, <2>2
    <3> QED BY <3>1, <3>2 DEF CountOK, AnchorOK, Balanced
  <2> QED BY <2>1, <2>2
<1>10. /\ Public(e, b)' /\ Backs(e, b)'
       /\ \A f \in Executor : f # e => ~Public(f, b)'
  <2>1. view'[e][b].committed = c /\ view'[e][b].access_level = "public"
    BY DEF Pub!PublicEntry
  <2>2. view'[e][b] # Null /\ c # Null
    <3>1. Pub!PublicEntry(e, c) \in Entry BY DEF Pub!PublicEntry, Entry, AccessLevel
    <3> QED BY <3>1, ViewAssumption
  <2>3. ASSUME NEW f \in Executor, f # e PROVE ~Public(f, b)'
    <3>1. HomeOK(b) /\ Typed BY TypeFacts DEF IInv
    <3>2. ~Public(f, b)
      BY <3>1 DEF HomeOK, IsPublic, Public, Typed, TypedTables
    <3>3. view'[f][b] = view[f][b] BY <2>3
    <3> QED BY <3>2, <3>3 DEF Public, Mapped
  <2> QED BY <2>1, <2>2, <2>3 DEF Public, Backs, Mapped
<1>11. ASSUME NEW d \in Address PROVE MemoryOK(d)'
  <2>1. CASE d = b BY <1>8, <1>10, <2>1 DEF MemoryOK
  <2>2. CASE d # b
    <3>1. \A f \in Executor : rc'[f][d] = rc[f][d] BY <1>8, <2>2
    <3>2. CASE IsPublic(d)
      <4>1. \A f \in Executor : view'[f][d] = view[f][d] BY <3>2
      <4>2. MemoryOK(d) BY DEF CInv
      <4> QED BY <3>1, <4>1, <4>2 DEF MemoryOK, Backs, Public, Mapped
    <3>3. CASE ~IsPublic(d)
      <4>1. \A f \in Executor : rc'[f][d] = Null BY <3>1, <3>3 DEF IsPublic
      <4>2. \A f \in Executor : Public(f, d)' => view'[f][d].author \in Executor
        <5>1. \A f \in Executor : Mapped(f, d)' => view'[f][d].author \in Executor
          <6>1. view' \in [Executor -> [Address -> Entry \cup {Null}]]
            BY TypePartsNext DEF IInv, TypesApart, TableTypeOK
          <6> QED BY <6>1 DEF Mapped, Entry
        <5> QED BY <5>1 DEF Public
      <4>3. HomeOK(d)' BY DEF IInv
      <4>4. \A f \in Executor : ~Public(f, d)' BY <4>1, <4>2, <4>3 DEF HomeOK
      <4> QED BY <4>1, <4>4 DEF MemoryOK
    <3> QED BY <3>2, <3>3
  <2> QED BY <2>1, <2>2
<1>12. ASSUME NEW d \in Address PROVE LostOK(d)' BY DEF CInv, LostOK
<1>13. ASSUME NEW g \in Handle PROVE HolderOK(g)'
  <2>1. CASE g = k
    <3>1. ptr'[k] = l BY <1>3, <1>4
    <3> QED BY <1>1, <1>10, <2>1, <3>1 DEF HolderOK
  <2>2. CASE g # k
    <3>1. ptr'[g] = ptr[g] BY <1>3, <2>2
    <3>2. ptr[g] # Null => /\ ptr[g].at \in Executor /\ ptr[g].p \in Address
                           /\ IsPublic(ptr[g].p) /\ Public(ptr[g].at, ptr[g].p)
      BY HolderHome
    <3>3. ptr[g] # Null => view'[ptr[g].at][ptr[g].p] = view[ptr[g].at][ptr[g].p]
      BY <3>2
    <3> QED BY <3>1, <3>2, <3>3 DEF HolderOK, Public, Mapped
  <2> QED BY <2>1, <2>2
<1>14. RefsApart' BY <1>3, <1>4, RefTypes DEF CInv, RefsApart, Pub!IsPushing
<1>15. ASSUME NEW f \in Executor PROVE AskerOK(f)'
  <2>1. \A g \in Handle : Pub!HeldBy(f, g) => ptr'[g] = ptr[g]
    BY <1>3, <1>4 DEF Pub!HeldBy
  <2> QED BY <2>1, AskerKept
<1>16. \A m \in pubPap' : m.to # m.author BY DEF CInv
<1> QED BY <1>9, <1>11, <1>12, <1>13, <1>14, <1>15, <1>16 DEF CInv

(* What was not issued, or waits to be published, cannot have been lost.   *)
LEMMA NotLost ==
  ASSUME IInv, CInv, NEW b \in Address, b \notin issued \/ InPublish(b)
  PROVE  lost[b] = 0
<1>1. lost[b] \in Nat BY TypeParts, Numbers DEF IInv, TypesApart, LostTyped
<1>2. LostOK(b) BY DEF CInv
<1> QED BY <1>1, <1>2 DEF LostOK

LEMMA PublicMakeCounts ==
  ASSUME IInv, IInv', CInv, NEW e \in Executor, NEW v \in Value, Idle(e),
         Pub!Make(e, v), UNCHANGED <<privateVars, pub, lost>>
  PROVE  CInv'
<1>1. PICK b \in Pub!FreshAddresses, c \in Pub!FreeCells(e), k \in Pub!FreshHandles :
        /\ issued' = issued \cup {b}
        /\ view' = [view EXCEPT ![e][b] = Pub!PublicEntry(e, c)]
        /\ Pub!RcInit(e, b)
        /\ ptr' = [ptr EXCEPT ![k] = [p |-> b, at |-> e]]
  BY DEF Pub!Make
<1>2. UNCHANGED <<busy, pubPap, pubDmn, pub, lost>> BY DEF Pub!Make, Pub!linkVars
<1>3. b \in Address /\ b \notin issued /\ c \in Cell
  BY DEF Pub!FreshAddresses, Pub!FreeCells
<1>4. ~IsPublic(b) /\ lost[b] = 0 BY <1>3, FreshAddress, NotLost
<1>5. rc' = Recounted(rc, e, b, 1) /\ ptr' = Put(ptr, k, [p |-> b, at |-> e])
  BY <1>1 DEF Pub!RcInit, Recounted, Put
<1>6. /\ view'[e][b] = Pub!PublicEntry(e, c)
      /\ \A f \in Executor, d \in Address : f # e \/ d # b => view'[f][d] = view[f][d]
  <2>1. view \in [Executor -> [Address -> Entry \cup {Null}]]
    BY TypeParts DEF IInv, TypesApart, TableTypeOK
  <2> QED BY <1>1, <1>3, <2>1
<1>7. /\ \A f \in Executor, d \in Address : IsPublic(d) => view'[f][d] = view[f][d]
      /\ \A f \in Executor : f # e => view'[f][b] = view[f][b]
  BY <1>3, <1>4, <1>6
<1>8. issued \subseteq issued' /\ \A d \in Address : InPublish(d)' => InPublish(d)
  BY <1>1, <1>2 DEF InPublish
<1> QED BY <1>2, <1>3, <1>4, <1>5, <1>6, <1>7, <1>8, BornStep

(* publish: the private address a gives way to the public address b.       *)
LEMMA PublishedCounts ==
  ASSUME IInv, IInv', CInv, NEW e \in Executor, NEW a \in Address, NEW b \in Address,
         NEW c \in Cell, a \in pvt[e], b \notin issued \/ InPublish(b),
         Remap(e, a, b, c), Publicize(e, a, b), issued \subseteq issued',
         \A d \in Address : InPublish(d)' => InPublish(d),
         UNCHANGED <<busy, pubPap, pubDmn, lost>>
  PROVE  CInv'
<1>1. PICK k \in Pub!FreshHandles : ptr' = Put(ptr, k, [p |-> b, at |-> e])
  BY DEF Publicize, Put
<1>2. rc' = Recounted(rc, e, b, 1) BY DEF Publicize, Pub!RcInit, Recounted
<1>3. lost[b] = 0 BY NotLost
<1>4. ~IsPublic(b) /\ ~KnownPrivate(b)
  <2>1. LevelOK(b) BY DEF IInv, AddressOK
  <2> QED BY <2>1 DEF LevelOK
<1>5. KnownPrivate(a) /\ ~IsPublic(a) /\ a # b
  <2>1. LevelOK(a) BY DEF IInv, AddressOK
  <2>2. KnownPrivate(a) BY DEF KnownPrivate
  <2> QED BY <1>4, <2>1, <2>2 DEF LevelOK
<1>6. /\ view'[e][b] = Pub!PublicEntry(e, c)
      /\ \A f \in Executor, d \in Address : ~(f = e /\ d \in {a, b}) => view'[f][d] = view[f][d]
  <2>1. view \in [Executor -> [Address -> Entry \cup {Null}]]
    BY TypeParts DEF IInv, TypesApart, TableTypeOK
  <2>2. PICK w : w = [view EXCEPT ![e][a] = Null] OBVIOUS
  <2>3. /\ w \in [Executor -> [Address -> Entry \cup {Null}]]
        /\ \A f \in Executor, d \in Address : f # e \/ d # a => w[f][d] = view[f][d]
    BY <2>1, <2>2, Written
  <2>4. view' = [w EXCEPT ![e][b] = Pub!PublicEntry(e, c)] BY <2>2 DEF Remap
  <2> QED BY <2>3, <2>4
<1>7. /\ \A f \in Executor, d \in Address : IsPublic(d) => view'[f][d] = view[f][d]
      /\ \A f \in Executor : f # e => view'[f][b] = view[f][b]
  BY <1>4, <1>5, <1>6
<1> QED BY <1>1, <1>2, <1>3, <1>4, <1>6, <1>7, BornStep

LEMMA PublishAtHomeCounts ==
  ASSUME IInv, IInv', CInv, NEW e \in Executor, NEW a \in Address, PublishAtHome(e, a)
  PROVE  CInv'
<1>1. PICK b \in Address : /\ b \notin issued /\ issued' = issued \cup {b}
                           /\ Remap(e, a, b, view[e][a].committed) /\ Publicize(e, a, b)
  BY DEF PublishAtHome, FreshAddresses
<1>2. /\ a \in pvt[e] /\ view[e][a].author = e
      /\ UNCHANGED <<busy, pubPap, pubDmn, lost, pub>>
  BY DEF PublishAtHome, Pvt!AmAuthor
<1>3. view[e][a].committed \in Cell
  <2>1. Keeps(e, a) BY <1>2 DEF IInv, AddressOK, HandleOK, Source
  <2> QED BY <2>1, TypeFacts DEF IInv, Keeps, Private, Typed, TypedTables
<1>4. \A d \in Address : InPublish(d)' => InPublish(d) BY <1>2 DEF InPublish
<1> QED BY <1>1, <1>2, <1>3, <1>4, PublishedCounts

LEMMA PublishAnswerCounts ==
  ASSUME IInv, IInv', CInv, NEW e \in Executor, NEW s \in pvtMem, PublishAnswer(e, s)
  PROVE  CInv'
<1>1. PICK a \in Address, b \in Address, c \in Cell :
        pub[e] # Null /\ a = pub[e].p /\ b = pub[e].as /\ c = pub[e].lp
  BY TypeFacts DEF IInv, Typed, TypedCalls, PublishAnswer
<1>2. /\ Remap(e, a, b, c) /\ Publicize(e, a, b)
      /\ pub' = [pub EXCEPT ![e] = Null]
      /\ UNCHANGED <<issued, busy, pubPap, pubDmn, lost>>
  BY <1>1 DEF PublishAnswer
<1>3. InPublish(b) /\ a \in pvt[e]
  <2>1. WaitOK(a) BY DEF IInv, AddressOK
  <2> QED BY <1>1, <2>1 DEF InPublish, WaitOK, Publishes
<1>4. \A d \in Address : InPublish(d)' => InPublish(d)
  <2>1. pub \in [Executor -> Publishing \cup {Null}] BY TypeParts DEF IInv, TypesApart, PubTyped
  <2> QED BY <1>2, <2>1 DEF InPublish
<1> QED BY <1>2, <1>3, <1>4, PublishedCounts

-----------------------------------------------------------------------------
(* Steps of private pointers *)

(* Private pointers touch neither counts nor the memory of public          *)
(* addresses.                                                              *)
LEMMA PrivateKeepsCounts ==
  ASSUME IInv, IInv', CInv, UNCHANGED publicVars,
         \A f \in Executor, b \in Address : IsPublic(b) => view'[f][b] = view[f][b],
         \A b \in Address : IsPublic(b) => lost'[b] = lost[b],
         \A b \in Address : lost'[b] # lost[b] => lost'[b] > 0,
         \A b \in Address : LostOK(b)'
  PROVE  CInv'
<1>1. UNCHANGED <<ptr, rc, busy, pubPap, pubDmn, pubMem>> BY DEF publicVars
<1>2. \A b \in Address : Refs'[b] = Refs[b] /\ Unc'[b] = Unc[b] /\ Unrel'[b] = Unrel[b]
  BY <1>1, RefsSame, UncSame
<1>3. ASSUME NEW f \in Executor, NEW b \in Address
      PROVE  /\ rc[f][b] # Null => view'[f][b] = view[f][b]
             /\ Public(f, b)' /\ rc[f][b] = Null => view'[f][b].committed = Null
  <2>1. rc[f][b] # Null => view'[f][b] = view[f][b] BY DEF IsPublic
  <2>2. ASSUME Public(f, b)', rc[f][b] = Null PROVE view'[f][b].committed = Null
    <3>1. HomeOK(b)' BY DEF IInv
    <3>2. view'[f][b].author \in Executor
      <4>1. view' \in [Executor -> [Address -> Entry \cup {Null}]]
        BY TypePartsNext DEF IInv, TypesApart, TableTypeOK
      <4> QED BY <2>2, <4>1 DEF Public, Mapped, Entry
    <3>3. IsPublic(b) BY <1>1, <2>2, <3>1, <3>2 DEF HomeOK, IsPublic
    <3>4. view'[f][b] = view[f][b] BY <3>3
    <3>5. MemoryOK(b) BY DEF CInv
    <3> QED BY <2>2, <3>4, <3>5 DEF MemoryOK, Public, Mapped
  <2> QED BY <2>1, <2>2
<1>4. ASSUME NEW g \in Handle PROVE HolderOK(g)'
  <2>1. ptr'[g] = ptr[g] BY <1>1
  <2>2. ptr[g] # Null => /\ ptr[g].at \in Executor /\ ptr[g].p \in Address
                         /\ IsPublic(ptr[g].p) /\ Public(ptr[g].at, ptr[g].p)
    BY HolderHome
  <2>3. ptr[g] # Null => view'[ptr[g].at][ptr[g].p] = view[ptr[g].at][ptr[g].p]
    BY <2>2
  <2> QED BY <2>1, <2>2, <2>3 DEF HolderOK, Public, Mapped
<1>5. RefsApart' BY <1>1 DEF CInv, RefsApart, Pub!IsPushing
<1>6. \A f \in Executor : AskerOK(f)' BY <1>1, AskerKept
<1>7. \A m \in pubPap' : m \in pubPap BY <1>1
<1>8. rc' = rc BY <1>1
<1> QED BY <1>2, <1>3, <1>4, <1>5, <1>6, <1>7, <1>8, TablesStep

(* They work on an entry of a private address, or of a fresh one.          *)
LEMMA EntryCounts ==
  ASSUME IInv, IInv', CInv, UNCHANGED <<publicVars, pub, lost>>, issued \subseteq issued',
         NEW e \in Executor, NEW a \in Address, KnownPrivate(a) \/ a \notin issued,
         \A f \in Executor, b \in Address : f # e \/ b # a => view'[f][b] = view[f][b]
  PROVE  CInv'
<1>1. ~IsPublic(a)
  <2>1. LevelOK(a) BY DEF IInv, AddressOK
  <2> QED BY <2>1 DEF LevelOK
<1>2. \A f \in Executor, b \in Address : IsPublic(b) => view'[f][b] = view[f][b]
  BY <1>1
<1>3. \A b \in Address : LostOK(b)' BY DEF CInv, LostOK, InPublish
<1>4. \A b \in Address : lost'[b] = lost[b] OBVIOUS
<1>5. UNCHANGED publicVars OBVIOUS
<1> QED BY <1>2, <1>3, <1>4, <1>5, PrivateKeepsCounts

LEMMA NoEntryCounts ==
  ASSUME IInv, IInv', CInv, UNCHANGED <<publicVars, pub, lost, issued, view>>
  PROVE  CInv'
<1>1. \A f \in Executor, b \in Address : IsPublic(b) => view'[f][b] = view[f][b]
  OBVIOUS
<1>2. \A b \in Address : LostOK(b)' BY DEF CInv, LostOK, InPublish
<1>3. \A b \in Address : lost'[b] = lost[b] OBVIOUS
<1>4. UNCHANGED publicVars OBVIOUS
<1> QED BY <1>1, <1>2, <1>3, <1>4, PrivateKeepsCounts

(* One entry is written.                                                   *)
LEMMA WrittenCounts ==
  ASSUME IInv, IInv', CInv, UNCHANGED <<publicVars, pub, lost>>, issued \subseteq issued',
         NEW e \in Executor, NEW a \in Address, KnownPrivate(a) \/ a \notin issued,
         NEW x, view' = Recounted(view, e, a, x)
  PROVE  CInv'
<1>1. view \in [Executor -> [Address -> Entry \cup {Null}]]
  BY TypeParts DEF IInv, TypesApart, TableTypeOK
<1>2. \A f \in Executor, b \in Address : f # e \/ b # a => view'[f][b] = view[f][b]
  BY <1>1 DEF Recounted
<1> QED BY <1>2, EntryCounts

LEMMA PrivateUserCounts ==
  ASSUME IInv, IInv', CInv, NEW e \in Executor, PrivateUser(e)
  PROVE  CInv'
<1>0. UNCHANGED <<publicVars, pub, lost>> BY DEF PrivateUser
<1>k. \A a \in pvt[e] : a \in Address /\ KnownPrivate(a)
  BY DEF KnownPrivate, IInv, TypeOK, Pvt!TypeOK
<1>1. ASSUME NEW v \in Content, Pvt!Make(e, v) PROVE CInv'
  <2>1. PICK a \in Address, c \in Cell :
          /\ a \notin issued /\ issued' = issued \cup {a}
          /\ view' = Recounted(view, e, a, Pvt!PrivateEntry(e, c))
    BY <1>1 DEF Pvt!Make, Pvt!MmapPrivate, Pvt!FreshAddresses, Pvt!FreeCells, Recounted
  <2> QED BY <1>0, <2>1, WrittenCounts
<1>2. ASSUME NEW c \in Cell, Pvt!DropUnique(e, c) PROVE CInv'
  <2>1. CASE Pvt!HasParent(e, c)
    <3>1. PICK a : a = parent[e][c] OBVIOUS
    <3>2. a \in Address /\ KnownPrivate(a)
      <4>1. a \in Address
        BY <2>1, <3>1, TypeFacts DEF Pvt!HasParent, IInv, Typed, TypedTables
      <4> QED BY <3>1, <4>1 DEF KnownPrivate
    <3>3. view' = Recounted(view, e, a, Null) /\ issued' = issued
      BY <1>2, <2>1, <3>1 DEF Pvt!DropUnique, Pvt!Unmap, Recounted
    <3> QED BY <1>0, <3>2, <3>3, WrittenCounts
  <2>2. CASE ~Pvt!HasParent(e, c)
    <3>1. UNCHANGED <<issued, view>> BY <1>2, <2>2 DEF Pvt!DropUnique
    <3> QED BY <1>0, <3>1, NoEntryCounts
  <2> QED BY <2>1, <2>2
<1>3. ASSUME NEW a \in Address, Pvt!LocalAtHome(e, a) PROVE CInv'
  <2>1. UNCHANGED <<issued, view>> BY <1>3 DEF Pvt!LocalAtHome, Pvt!tableVars
  <2> QED BY <1>0, <2>1, NoEntryCounts
<1>4. ASSUME NEW a \in Address, Pvt!LocalRequest(e, a) PROVE CInv'
  <2>1. PICK x : view' = Recounted(view, e, a, x) /\ issued' = issued
    BY <1>4 DEF Pvt!LocalRequest, Recounted
  <2>2. a \in pvt[e] BY <1>4 DEF Pvt!LocalRequest
  <2> QED BY <1>0, <1>k, <2>1, <2>2, WrittenCounts
<1>5. ASSUME NEW a \in Address, Pvt!Drop(e, a) PROVE CInv'
  <2>1. a \in pvt[e] BY <1>5 DEF Pvt!Drop
  <2>2. CASE Pvt!AmAuthor(e, a)
    <3>1. view' = Recounted(view, e, a, Null) /\ issued' = issued
      BY <1>5, <2>2 DEF Pvt!Drop, Pvt!Unmap, Recounted
    <3> QED BY <1>0, <1>k, <2>1, <3>1, WrittenCounts
  <2>3. CASE ~Pvt!AmAuthor(e, a)
    <3>1. UNCHANGED <<issued, view>> BY <1>5, <2>3 DEF Pvt!Drop, Pvt!tableVars
    <3> QED BY <1>0, <3>1, NoEntryCounts
  <2> QED BY <2>2, <2>3
<1>6. ASSUME NEW a \in Address, NEW t \in Executor, Pvt!Push(e, a, t) PROVE CInv'
  <2>1. PICK x : view' = Recounted(view, e, a, x) /\ issued' = issued
    BY <1>6 DEF Pvt!Push, Recounted
  <2>2. a \in pvt[e] BY <1>6 DEF Pvt!Push
  <2> QED BY <1>0, <1>k, <2>1, <2>2, WrittenCounts
<1>7. ASSUME NEW m \in pvtPap, Pvt!Pull(e, m) PROVE CInv'
  <2>1. view' = Recounted(view, e, m.p, Pvt!PulledEntry(e, m)) /\ issued' = issued
    BY <1>7 DEF Pvt!Pull, Recounted
  <2>2. m.p \in Address /\ KnownPrivate(m.p)
    BY TypeFacts DEF IInv, Typed, TypedPrivate, KnownPrivate
  <2> QED BY <1>0, <2>1, <2>2, WrittenCounts
<1> QED BY <1>1, <1>2, <1>3, <1>4, <1>5, <1>6, <1>7 DEF PrivateUser

LEMMA LocalAnswerCounts ==
  ASSUME IInv, IInv', CInv, NEW e \in Executor, Pvt!Answered(e),
         UNCHANGED <<publicVars, pub, lost>>
  PROVE  CInv'
<1>1. PICK s \in pvtMem : Pvt!LocalAnswer(e, s) BY DEF Pvt!Answered
<1>2. fwd[e] # Null BY <1>1 DEF Pvt!LocalAnswer, Pvt!Running
<1>3. PICK x : view' = Recounted(view, e, fwd[e].p, x) /\ issued' = issued
  BY <1>1 DEF Pvt!LocalAnswer, Recounted
<1>4. fwd[e].p \in Address BY <1>2, TypeFacts DEF IInv, Typed, TypedCalls
<1>5. KnownPrivate(fwd[e].p)
  <2>1. WaitOK(fwd[e].p) BY <1>4 DEF IInv, AddressOK
  <2> QED BY <1>2, <2>1 DEF WaitOK, Loads, KnownPrivate
<1> QED BY <1>3, <1>4, <1>5, WrittenCounts

LEMMA PrivateDaemonCounts ==
  ASSUME IInv, IInv', CInv, NEW e \in Executor, PrivateDaemon(e)
  PROVE  CInv'
<1>0. UNCHANGED <<publicVars, pub, lost>> BY DEF PrivateDaemon
<1>1. PICK r \in pvtDmn : Pvt!DmnRload(r) \/ Pvt!DmnPvtReset(r)
  BY DEF PrivateDaemon, Pvt!Daemon
<1>2. CASE Pvt!DmnRload(r)
  <2>1. UNCHANGED <<issued, view>> BY <1>2 DEF Pvt!DmnRload, Pvt!tableVars
  <2> QED BY <1>0, <2>1, NoEntryCounts
<1>3. CASE Pvt!DmnPvtReset(r)
  <2>1. view' = Recounted(view, r.to, r.p, Null) /\ issued' = issued
    BY <1>3 DEF Pvt!DmnPvtReset, Pvt!Unmap, Recounted
  <2>2. r.p \in Address /\ r.to \in Executor /\ KnownPrivate(r.p)
    BY TypeFacts DEF IInv, Typed, TypedPrivate, KnownPrivate
  <2> QED BY <1>0, <2>1, <2>2, WrittenCounts
<1> QED BY <1>1, <1>2, <1>3

LEMMA PublishRequestCounts ==
  ASSUME IInv, IInv', CInv, NEW e \in Executor, NEW a \in Address, PublishRequest(e, a)
  PROVE  CInv'
<1>1. PICK b \in Address, c \in Cell :
        /\ b \notin issued /\ issued' = issued \cup {b}
        /\ pub' = [pub EXCEPT ![e] =
                      [p |-> a, as |-> b, lp |-> c, to |-> view[e][a].author]]
  BY DEF PublishRequest, FreshAddresses, FreeCells
<1>2. UNCHANGED <<view, publicVars, lost>> BY DEF PublishRequest
<1>3. pub \in [Executor -> Publishing \cup {Null}] BY TypeParts DEF IInv, TypesApart, PubTyped
<1>4. \A d \in Address : InPublish(d)' => InPublish(d) \/ d \notin issued
  BY <1>1, <1>3 DEF InPublish
<1>5. ASSUME NEW d \in Address PROVE LostOK(d)'
  <2>1. LostOK(d) /\ lost'[d] = lost[d] /\ issued \subseteq issued' BY <1>1, <1>2 DEF CInv
  <2> QED BY <1>4, <2>1 DEF LostOK
<1>6. /\ \A f \in Executor, d \in Address : IsPublic(d) => view'[f][d] = view[f][d]
      /\ \A d \in Address : lost'[d] = lost[d]
      /\ UNCHANGED publicVars
  BY <1>2
<1> QED BY <1>5, <1>6, PrivateKeepsCounts

(* A capability that is lost is of a private address.                      *)
LEMMA PullPrivateAsPublicCounts ==
  ASSUME IInv, IInv', CInv, NEW e \in Executor, NEW m \in pvtPap, PullPrivateAsPublic(e, m)
  PROVE  CInv'
<1>1. PICK a \in Address : a = m.p BY TypeFacts DEF IInv, Typed, TypedPrivate
<1>2. /\ Lose(a) /\ UNCHANGED <<tableVars, publicVars, pub>>
  BY <1>1 DEF PullPrivateAsPublic
<1>3. a \in issued /\ ~IsPublic(a) /\ ~InPublish(a)
  <2>1. LevelOK(a) BY DEF IInv, AddressOK
  <2>2. KnownPrivate(a) BY <1>1 DEF KnownPrivate
  <2> QED BY <2>1, <2>2 DEF LevelOK
<1>4. LostTyped BY TypeParts DEF IInv, TypesApart
<1>5. lost[a] \in Nat /\ lost'[a] = lost[a] + 1 /\ \A b \in Address : b # a => lost'[b] = lost[b]
  BY <1>2, <1>4, Numbers DEF Lose, LostTyped
<1>6. UNCHANGED <<issued, view, pub>> BY <1>2 DEF tableVars
<1>7. ASSUME NEW b \in Address PROVE LostOK(b)'
  <2>1. CASE b = a BY <1>3, <1>6, <2>1 DEF LostOK, InPublish
  <2>2. CASE b # a
    <3>1. LostOK(b) /\ lost'[b] = lost[b] BY <1>5, <2>2 DEF CInv
    <3> QED BY <1>6, <3>1 DEF LostOK, InPublish
  <2> QED BY <2>1, <2>2
<1>8. \A b \in Address : IsPublic(b) => lost'[b] = lost[b] BY <1>3, <1>5
<1>9. lost'[a] > 0 BY <1>5
<1>10. \A b \in Address : lost'[b] # lost[b] => lost'[b] > 0 BY <1>5, <1>9
<1>11. \A f \in Executor, b \in Address : IsPublic(b) => view'[f][b] = view[f][b]
  BY <1>6
<1>12. UNCHANGED publicVars BY <1>2
<1> QED BY <1>7, <1>8, <1>10, <1>11, <1>12, PrivateKeepsCounts

-----------------------------------------------------------------------------
(* The counts are right, and what follows *)

LEMMA InitCounts == Init => CInv
<1> SUFFICES ASSUME Init PROVE CInv OBVIOUS
<1>1. /\ view = [e \in Executor |-> [a \in Address |-> Null]]
      /\ ptr = [h \in Handle |-> Null]
      /\ rc = [e \in Executor |-> [a \in Address |-> Null]]
      /\ busy = [e \in Executor |-> Null]
      /\ pubPap = {} /\ pubDmn = {} /\ pubMem = {}
      /\ lost = [a \in Address |-> 0]
  BY DEF Init, Pub!Init, Pub!TableInit
<1>2. \A e \in Executor : ~Pub!IsPushing(e) /\ ~Pub!IsAsking(e)
  BY <1>1 DEF Pub!IsPushing, Pub!IsAsking
<1>3. RefsApart BY <1>1, <1>2 DEF RefsApart
<1>4. ASSUME NEW a \in Address PROVE CountOK(a) /\ AnchorOK(a) /\ MemoryOK(a) /\ LostOK(a)
  <2>1. \A e \in Executor : rc[e][a] = Null /\ ~Public(e, a)
    BY <1>1 DEF Public, Mapped
  <2>2. Refs[a] = {} /\ Unc[a] = {} /\ lost[a] = 0
    BY <1>1, <1>2 DEF Refs, Unc, Pub!References, Pub!Held, Pub!Sent, Pub!Uncounted,
                      Pub!Counting, Pub!InPush
  <2> QED BY <2>1, <2>2 DEF CountOK, AnchorOK, MemoryOK, LostOK
<1>5. \A h \in Handle : HolderOK(h) BY <1>1 DEF HolderOK
<1>6. \A e \in Executor : AskerOK(e) BY <1>1, <1>2 DEF AskerOK
<1> QED BY <1>1, <1>3, <1>4, <1>5, <1>6 DEF CInv

LEMMA PublicUserCounts ==
  ASSUME IInv, IInv', CInv, NEW e \in Executor, PublicUser(e)
  PROVE  CInv'
<1>0. Idle(e) /\ Pub!User(e) /\ UNCHANGED <<privateVars, pub, lost>> BY DEF PublicUser
<1>1. ASSUME NEW v \in Value, Pub!Make(e, v) PROVE CInv'
  BY <1>0, <1>1, PublicMakeCounts
<1>2. ASSUME NEW h \in Handle, Pub!Copy(e, h) PROVE CInv'
  BY <1>0, <1>2, CopyCounts
<1>3. ASSUME NEW h \in Handle, NEW t \in Executor, ~Pub!AuthorOf(h, t), Pub!Push(e, h, t)
      PROVE  CInv'
  BY <1>0, <1>3, PushCounts
<1>4. ASSUME NEW h \in Handle, ptr[h] # Null, Pub!Uncounted(ptr[h].p) = {}, Pub!Drop(e, h)
      PROVE  CInv'
  <2>1. CASE Pub!AmAuthor(e, ptr[h].p) BY <1>0, <1>4, <2>1, DropAtHomeCounts
  <2>2. CASE ~Pub!AmAuthor(e, ptr[h].p) BY <1>0, <1>4, <2>2, DropAwayCounts
  <2> QED BY <2>1, <2>2
<1>5. ASSUME NEW h \in Handle, NEW op \in {"RLOAD", "RC_GET"}, Pub!Ask(e, h, op)
      PROVE  CInv'
  BY <1>0, <1>5, AskCounts
<1>6. ASSUME NEW m \in pubPap, Pub!Pull(e, m) PROVE CInv'
  BY <1>0, <1>6, PullCounts
<1> QED BY <1>0, <1>1, <1>2, <1>3, <1>4, <1>5, <1>6 DEF Pub!User

LEMMA NextCounts ==
  ASSUME IInv, IInv', CInv, [Next]_vars
  PROVE  CInv'
<1>1. ASSUME NEW e \in Executor, PrivateUser(e) PROVE CInv'
  BY <1>1, PrivateUserCounts
<1>2. ASSUME NEW e \in Executor, PublicUser(e) PROVE CInv'
  BY <1>2, PublicUserCounts
<1>3. ASSUME NEW e \in Executor, Both(e) PROVE CInv'
  <2>1. ASSUME NEW a \in Address, PublishAtHome(e, a) PROVE CInv'
    BY <2>1, PublishAtHomeCounts
  <2>2. ASSUME NEW a \in Address, PublishRequest(e, a) PROVE CInv'
    BY <2>2, PublishRequestCounts
  <2>3. ASSUME NEW m \in pvtPap, PullPrivateAsPublic(e, m) PROVE CInv'
    BY <2>3, PullPrivateAsPublicCounts
  <2>4. ASSUME NEW m \in pubPap, PullPublicAsPrivate(e, m) PROVE CInv'
    BY <2>4, PullPublicAsPrivateCounts
  <2>5. ASSUME NEW h \in Handle, Overwrite(e, h) PROVE CInv'
    BY <2>5, OverwriteCounts
  <2> QED BY <1>3, <2>1, <2>2, <2>3, <2>4, <2>5 DEF Both
<1>4. ASSUME NEW e \in Executor, Resume(e) PROVE CInv'
  <2>1. ASSUME Pvt!Answered(e), UNCHANGED <<publicVars, pub, lost>> PROVE CInv'
    BY <2>1, LocalAnswerCounts
  <2>2. ASSUME Pub!Answered(e), UNCHANGED <<privateVars, pub, lost>> PROVE CInv'
    BY <2>2, AnsweredCounts
  <2>3. ASSUME Pub!PushCount(e), UNCHANGED <<privateVars, pub, lost>> PROVE CInv'
    BY <2>3, PushCountCounts
  <2>4. ASSUME NEW s \in pvtMem, PublishAnswer(e, s) PROVE CInv'
    BY <2>4, PublishAnswerCounts
  <2> QED BY <1>4, <2>1, <2>2, <2>3, <2>4 DEF Resume
<1>5. ASSUME NEW e \in Executor, PrivateDaemon(e) PROVE CInv'
  BY <1>5, PrivateDaemonCounts
<1>6. ASSUME NEW r \in pubDmn, PublicDaemon(r) PROVE CInv'
  <2>1. UNCHANGED <<privateVars, pub, lost>> BY <1>6 DEF PublicDaemon
  <2>2. Pub!DmnRcInc(r) \/ Pub!DmnRcDec(r) \/ Pub!DmnReply(r)
    BY <1>6 DEF PublicDaemon, Pub!Handled
  <2> QED BY <2>1, <2>2, DmnRcIncCounts, DmnRcDecCounts, DmnReplyCounts
<1>7. CASE Finished \/ UNCHANGED vars
  <2>1. UNCHANGED vars
    BY <1>7 DEF Finished, Pvt!Finished, Pub!Finished, Pvt!vars, Pub!vars, vars,
                Pvt!tableVars, Pvt!userVars, Pvt!linkVars, Pub!tableVars, Pub!linkVars,
                tableVars, privateVars, publicVars
  <2>2. UNCHANGED <<publicVars, pub, lost, issued, view>> BY <2>1 DEF vars, tableVars
  <2> QED BY <2>2, NoEntryCounts
<1> QED BY <1>1, <1>2, <1>3, <1>4, <1>5, <1>6, <1>7 DEF Next

(* In every reachable state, at whatever point of pushes, drops and        *)
(* publishes: the counts add up, a reference is in one place, memory is at *)
(* its home as long as it is counted, and a holder has an entry.           *)
THEOREM CountInvariant == Spec => [](IInv /\ CInv)
<1>1. Init => IInv /\ CInv BY InitOK, InitCounts
<1>2. (IInv /\ CInv) /\ [Next]_vars => (IInv /\ CInv)'
  <2> SUFFICES ASSUME IInv, CInv, [Next]_vars PROVE IInv' /\ CInv' OBVIOUS
  <2>1. IInv' BY NextStep
  <2> QED BY <2>1, NextCounts
<1> QED BY <1>1, <1>2, PTL DEF Spec

(* ref_cnt of an address is the number of its references, up to what is on *)
(* its way and what was lost, and so for memory that was published too.    *)
THEOREM Conserved == Spec => []CountsConserved
<1>1. ASSUME IInv, CInv PROVE CountsConserved
  <2> SUFFICES ASSUME NEW e \in Executor, NEW a \in Address, rc[e][a] # Null
               PROVE  rc[e][a] = (Cardinality(Pub!References(a)) + Cardinality(Pub!Unreleased(a))
                                  - Cardinality(Pub!Uncounted(a)) + lost[a]) % RcRange
    BY DEF CountsConserved
  <2>1. /\ rc[e][a] \in Nat /\ rc[e][a] < RcRange /\ lost[a] \in Nat
        /\ rc[e][a] + Cardinality(Unc[a]) =
             Cardinality(Refs[a]) + Cardinality(Unrel[a]) + lost[a]
    BY <1>1, Count
  <2>2. PICK u, r, d : /\ u = Cardinality(Pub!Uncounted(a)) /\ r = Cardinality(Pub!References(a))
                       /\ d = Cardinality(Pub!Unreleased(a))
    OBVIOUS
  <2>3. u \in Nat /\ r \in Nat /\ d \in Nat
    <3>1. Cardinality(Refs[a]) \in Nat /\ Cardinality(Unc[a]) \in Nat /\ Cardinality(Unrel[a]) \in Nat
      BY Subsets, Sizes
    <3> QED BY <2>2, <3>1 DEF Refs, Unc, Unrel
  <2>4. rc[e][a] + u = r + d + lost[a] BY <2>1, <2>2 DEF Refs, Unc, Unrel
  <2>5. r + d - u + lost[a] = rc[e][a] BY <2>1, <2>3, <2>4
  <2>6. rc[e][a] % RcRange = rc[e][a] BY <2>1, NoWrap
  <2> QED BY <2>2, <2>5, <2>6
<1> QED BY <1>1, CountInvariant, PTL

(* No assert on public memory fails: a request finds the author with the   *)
(* memory it asks for, a holder has a public entry, and an author that     *)
(* holds a pointer has the memory.                                         *)
LEMMA PublicAssertsOK == IInv /\ CInv => PublicAsserts
<1> SUFFICES ASSUME IInv, CInv PROVE PublicAsserts OBVIOUS
<1>1. ASSUME NEW r \in pubDmn PROVE Pub!Serviceable(r)
  <2>1. PICK a, y : a = r.p /\ y = r.to OBVIOUS
  <2>2. a \in Address /\ y \in Executor /\ rc[y][a] # Null BY <2>1, PublicKnown
  <2>3. Refs[a] # {} \/ Unc[a] # {} \/ Unrel[a] # {}
    <3>1. r \in Pub!Request BY TypeParts DEF IInv, TypesApart, PublicTyped
    <3>2. CASE r.op = "RC_INC"
      <4>1. r.ref \in Handle BY <3>2, RequestRef
      <4> QED BY <2>1, <2>2, <3>2, <4>1 DEF Unc, Pub!Uncounted, Pub!Counting
    <3>3. CASE r.op = "RC_DEC"
      <4>1. r.ref \in Handle BY <3>3, RequestRef
      <4> QED BY <2>1, <2>2, <3>3, <4>1 DEF Unrel, Pub!Unreleased, Pub!Counting
    <3>4. CASE IsAsk(r)
      <4>1. r.from \in Executor BY TypeFacts DEF IInv, Typed, TypedPublic
      <4>2. Pub!IsAsking(r.from) BY <3>4, <4>1 DEF IInv, AskOK, Asks
      <4>3. PICK h \in Handle : ptr[h] # Null /\ ptr[h].p = a
        BY <2>1, <3>4, <4>1, <4>2 DEF CInv, AskerOK, Pub!HeldBy
      <4> QED BY <4>3, HolderHome
    <3> QED BY <3>2, <3>3, <3>4, TypeFacts DEF IInv, Typed, TypedPublic, IsAsk
  <2>4. Backs(y, a) /\ Pub!AmAuthor(y, a) BY <2>2, <2>3, AtHome
  <2> QED BY <2>1, <2>4, SameTables DEF Pub!Serviceable, Pub!Backs, Backs, Pub!Mapped, Mapped
<1>2. ASSUME NEW h \in Handle, ptr[h] # Null
      PROVE  /\ Mapped(ptr[h].at, ptr[h].p)
             /\ Pub!AmAuthor(ptr[h].at, ptr[h].p) => Backs(ptr[h].at, ptr[h].p)
             /\ view[ptr[h].at][ptr[h].p].access_level = "public"
  <2>1. PICK e, a : e = ptr[h].at /\ a = ptr[h].p OBVIOUS
  <2>2. /\ e \in Executor /\ a \in Address /\ IsPublic(a) /\ Public(e, a)
        /\ Mapped(e, a) /\ h \in Refs[a]
    BY <1>2, <2>1, HolderHome
  <2>3. Pub!AmAuthor(e, a) => Backs(e, a) BY <2>2, KnownHome, AtHome
  <2> QED BY <2>1, <2>2, <2>3 DEF Public
<1>3. Pub!DaemonAsserts BY <1>1 DEF Pub!DaemonAsserts
<1>4. Pub!HolderAsserts
  BY <1>2 DEF Pub!HolderAsserts, Pub!Mapped, Mapped, Pub!Backs, Backs
<1> QED BY <1>2, <1>3, <1>4 DEF PublicAsserts

(* No assert fails, on private or public memory, at whatever moment.       *)
THEOREM AssertsNeverFail == Spec => []AssertsHold
<1>1. IInv /\ CInv => PublicAsserts BY PublicAssertsOK
<1>2. Spec => []PublicAsserts BY <1>1, CountInvariant, PTL
<1>3. PrivateAsserts /\ PublicAsserts => AssertsHold BY DEF AssertsHold
<1> QED BY <1>2, <1>3, PrivateAssertsNeverFail, PTL

=============================================================================
