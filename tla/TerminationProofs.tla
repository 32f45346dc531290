------------------------- MODULE TerminationProofs -------------------------
(***************************************************************************)
(* Proofs of the safety properties of Termination, for any executors and   *)
(* any number of requests.  Only NothingUnserved needs links that deliver  *)
(* in order.                                                               *)
(***************************************************************************)
EXTENDS Termination, SequenceTheorems, FiniteSetTheorems, TLAPS

Kind == {"load", "tell", "end"}

HasEnd(q) == \E i \in DOMAIN q : q[i] = "end"

(* A daemon leaves its first loop after its user thread, or when it is     *)
(* alone.                                                                  *)
Ended ==
    \A e \in Executor : daemon[e] # "serving" =>
        user[e] = <<"ended">> \/ Others(e) = {}

(* DMN_END is the last message of a link, and only of an executor that has *)
(* broadcast it; nobody sends to itself.                                   *)
Links ==
    \A e, f \in Executor :
        /\ link[e][e] = << >>
        /\ \A i \in 1 .. Len(link[e][f]) : link[e][f][i] = "end" =>
               i = Len(link[e][f]) /\ daemon[e] # "serving"

Drained == \A e \in Executor : daemon[e] = "done" => cnt[e] = 0

(* In a link that delivers in order nothing is left once DMN_END is.       *)
Flushed ==
    \A e, f \in Executor :
        daemon[e] # "serving" /\ ~HasEnd(link[e][f]) => link[e][f] = << >>

(* Whom cnt[e] counts *)
Peers(e) == {f \in Others(e) : daemon[f] = "serving" \/ HasEnd(link[f][e])}

Counts == \A e \in Executor : cnt[e] = Cardinality(Peers(e))

IInv == TypeOK /\ Ended /\ Links /\ Drained /\ Counts

-----------------------------------------------------------------------------
(* Sequences *)

(* RemoveAt takes one element out and keeps the order of the others.       *)
LEMMA Removed ==
  ASSUME NEW S, NEW q \in Seq(S), NEW i \in 1 .. Len(q)
  PROVE  /\ RemoveAt(q, i) \in Seq(S)
         /\ Len(RemoveAt(q, i)) = Len(q) - 1
         /\ \A j \in 1 .. Len(q) - 1 :
               RemoveAt(q, i)[j] = IF j < i THEN q[j] ELSE q[j + 1]
<1> DEFINE l == SubSeq(q, 1, i - 1)
           r == SubSeq(q, i + 1, Len(q))
<1>0. Len(q) \in Nat /\ \A j \in 1 .. Len(q) : q[j] \in S
  BY LenProperties, ElementOfSeq
<1>1. /\ l \in Seq(S) /\ Len(l) = i - 1
      /\ \A j \in 1 .. i - 1 : l[j] = q[j]
  BY <1>0, SubSeqProperties
<1>2. /\ r \in Seq(S) /\ Len(r) = Len(q) - i
      /\ \A j \in 1 .. Len(q) - i : r[j] = q[j + i]
  <2>1. \A j \in i + 1 .. Len(q) : q[j] \in S BY <1>0
  <2>2. /\ r \in Seq(S)
        /\ Len(r) = IF i + 1 <= Len(q) THEN Len(q) - (i + 1) + 1 ELSE 0
        /\ \A j \in 1 .. Len(q) - (i + 1) + 1 : r[j] = q[i + 1 + j - 1]
    BY <2>1, <1>0, SubSeqProperties
  <2> QED BY <2>2, <1>0
<1> HIDE DEF l, r
<1>3. /\ l \o r \in Seq(S) /\ Len(l \o r) = Len(l) + Len(r)
      /\ \A j \in 1 .. Len(l) + Len(r) :
            (l \o r)[j] = IF j <= Len(l) THEN l[j] ELSE r[j - Len(l)]
  BY <1>1, <1>2, ConcatProperties
<1>4. ASSUME NEW j \in 1 .. Len(q) - 1
      PROVE  (l \o r)[j] = IF j < i THEN q[j] ELSE q[j + 1]
  <2>1. CASE j < i
    <3>1. (l \o r)[j] = l[j] BY <2>1, <1>0, <1>1, <1>2, <1>3
    <3> QED BY <3>1, <2>1, <1>1
  <2>2. CASE ~(j < i)
    <3>1. (l \o r)[j] = r[j - (i - 1)] BY <2>2, <1>0, <1>1, <1>2, <1>3
    <3>2. j - (i - 1) \in 1 .. Len(q) - i /\ j - (i - 1) + i = j + 1
      BY <2>2, <1>0
    <3> QED BY <3>1, <3>2, <2>2, <1>2
  <2> QED BY <2>1, <2>2
<1>5. Len(l \o r) = Len(q) - 1 BY <1>0, <1>1, <1>2, <1>3
<1>6. RemoveAt(q, i) = l \o r BY DEF RemoveAt, l, r
<1> QED BY <1>3, <1>4, <1>5, <1>6

(* If "end" can only be the last element of a sequence, it can only be the *)
(* last after one is taken out, and is gone just when it is the one taken. *)
LEMMA EndsLast ==
  ASSUME NEW q \in Seq(Kind), NEW i \in 1 .. Len(q),
         \A j \in 1 .. Len(q) : q[j] = "end" => j = Len(q)
  PROVE  /\ \A j \in 1 .. Len(RemoveAt(q, i)) :
               RemoveAt(q, i)[j] = "end" => j = Len(RemoveAt(q, i))
         /\ HasEnd(RemoveAt(q, i)) <=> HasEnd(q) /\ q[i] # "end"
<1> DEFINE r == RemoveAt(q, i)
           n == Len(q)
<1>1. n \in Nat /\ DOMAIN q = 1 .. n /\ i \in 1 .. n
  BY LenProperties
<1>2. /\ r \in Seq(Kind) /\ Len(r) = n - 1
      /\ \A j \in 1 .. n - 1 : r[j] = IF j < i THEN q[j] ELSE q[j + 1]
  BY Removed
<1>3. DOMAIN r = 1 .. n - 1 BY <1>2, LenProperties
<1>4. \A j \in 1 .. n : q[j] = "end" => j = n OBVIOUS
<1> HIDE DEF r, n
<1>5. \A j \in 1 .. n - 1 : r[j] = "end" => j = n - 1 /\ q[n] = "end" /\ i # n
  <2> SUFFICES ASSUME NEW j \in 1 .. n - 1, r[j] = "end"
               PROVE  j = n - 1 /\ q[n] = "end" /\ i # n
    OBVIOUS
  <2>1. CASE j < i
    <3>1. q[j] = "end" /\ j \in 1 .. n BY <2>1, <1>1, <1>2
    <3> QED BY <3>1, <1>1, <1>4
  <2>2. CASE ~(j < i)
    <3>1. q[j + 1] = "end" /\ j + 1 \in 1 .. n BY <2>2, <1>1, <1>2
    <3>2. j + 1 = n BY <3>1, <1>4
    <3> QED BY <3>1, <3>2, <2>2, <1>1
  <2> QED BY <2>1, <2>2
<1>6. ASSUME HasEnd(r) PROVE HasEnd(q) /\ q[i] # "end"
  <2>1. PICK j \in 1 .. n - 1 : r[j] = "end" BY <1>3, <1>6 DEF HasEnd
  <2>2. q[n] = "end" /\ i # n /\ n \in 1 .. n BY <2>1, <1>5, <1>1
  <2>3. q[i] # "end" BY <2>2, <1>1, <1>4
  <2> QED BY <2>2, <2>3, <1>1 DEF HasEnd
<1>7. ASSUME HasEnd(q), q[i] # "end" PROVE HasEnd(r)
  <2>1. PICK j \in 1 .. n : q[j] = "end" BY <1>1, <1>7 DEF HasEnd
  <2>2. j = n /\ j # i BY <2>1, <1>7, <1>4
  <2>3. n - 1 \in 1 .. n - 1 /\ ~(n - 1 < i) /\ n - 1 + 1 = n BY <2>2, <1>1
  <2>4. r[n - 1] = "end" BY <2>1, <2>2, <2>3, <1>2
  <2> QED BY <2>3, <2>4, <1>3 DEF HasEnd
<1> QED BY <1>2, <1>5, <1>6, <1>7 DEF r

(* What a link holds, pointwise                                            *)
LEMMA LinkFacts ==
  ASSUME TypeOK, NEW e \in Executor, NEW f \in Executor
  PROVE  /\ link[e][f] \in Seq(Kind)
         /\ Len(link[e][f]) \in Nat
         /\ DOMAIN link[e][f] = 1 .. Len(link[e][f])
         /\ \A i \in 1 .. Len(link[e][f]) : link[e][f][i] \in Kind
<1>1. link[e][f] \in Seq(Kind) BY DEF TypeOK, Kind
<1> QED BY <1>1, LenProperties, ElementOfSeq

(* The peers of an executor are finitely many.                             *)
LEMMA PeersFinite ==
  ASSUME NEW e \in Executor
  PROVE  /\ IsFiniteSet(Peers(e)) /\ Cardinality(Peers(e)) \in Nat
         /\ Cardinality(Peers(e)) <= Cardinality(Executor) - 1
         /\ Cardinality(Peers(e)) = 0 <=> Peers(e) = {}
<1>1. IsFiniteSet(Executor) BY TerminationAssumption
<1>2. IsFiniteSet(Others(e)) /\ Cardinality(Others(e)) = Cardinality(Executor) - 1
  BY <1>1, FS_RemoveElement DEF Others
<1>3. IsFiniteSet(Peers(e)) /\ Cardinality(Peers(e)) <= Cardinality(Others(e))
  BY <1>2, FS_Subset DEF Peers
<1> QED BY <1>2, <1>3, FS_CardinalityType, FS_EmptySet

-----------------------------------------------------------------------------
(* Steps *)

(* Peers only depends on who serves and on which links hold a DMN_END.     *)
LEMMA SamePeers ==
  ASSUME NEW e \in Executor,
         \A f \in Others(e) :
            (daemon'[f] = "serving" \/ HasEnd(link'[f][e])) <=>
            (daemon[f] = "serving" \/ HasEnd(link[f][e]))
  PROVE  Peers(e)' = Peers(e)
BY DEF Peers, Others

(* A request goes to the end of a link that has no DMN_END.                *)
LEMMA RequestKeeps ==
  ASSUME IInv, NEW e \in Executor, NEW f \in Executor,
         NEW kind \in {"load", "tell"}, Request(e, f, kind)
  PROVE  IInv'
<1> DEFINE q == link[e][f]
<1>0. TypeOK /\ Ended /\ Links /\ Drained /\ Counts BY DEF IInv
<1>1. /\ user[e] = <<"running">> /\ f # e /\ made[e] < MaxRequests
      /\ made' = [made EXCEPT ![e] = @ + 1]
      /\ UNCHANGED <<daemon, cnt, answers>>
  BY DEF Request
<1>2. daemon[e] = "serving" BY <1>0, <1>1 DEF Ended, Others
<1>3. /\ q \in Seq(Kind) /\ Len(q) \in Nat
      /\ \A i \in 1 .. Len(q) : q[i] # "end"
  BY <1>0, <1>2, LinkFacts DEF Links
<1>4. link'[e][f] = Append(q, kind)
  BY <1>0 DEF Request, TypeOK
<1>5. \A g, h \in Executor : g # e \/ h # f => link'[g][h] = link[g][h]
  BY <1>0 DEF Request, TypeOK
<1>6. /\ Append(q, kind) \in Seq(Kind) /\ Len(Append(q, kind)) = Len(q) + 1
      /\ \A i \in 1 .. Len(q) + 1 : Append(q, kind)[i] # "end"
  <2>1. kind \in Kind BY DEF Kind
  <2> QED BY <2>1, <1>3, AppendProperties
<1>7. ~HasEnd(q) /\ ~HasEnd(link'[e][f])
  <2>1. DOMAIN q = 1 .. Len(q) BY <1>3, LenProperties
  <2>2. DOMAIN Append(q, kind) = 1 .. Len(q) + 1 BY <1>6, LenProperties
  <2> QED BY <2>1, <2>2, <1>3, <1>4, <1>6 DEF HasEnd
<1>8. TypeOK'
  <2>1. made[e] + 1 \in 0 .. MaxRequests
    <3>1. made[e] \in 0 .. MaxRequests BY <1>0 DEF TypeOK
    <3> QED BY <3>1, <1>1, TerminationAssumption
  <2>2. link' \in [Executor -> [Executor -> Seq(Kind)]]
    BY <1>0, <1>6 DEF Request, TypeOK, Kind
  <2>3. user' \in [Executor -> {<<"running">>, <<"ended">>} \cup
                               {<<"waits", g>> : g \in Executor}]
    BY <1>0 DEF Request, TypeOK
  <2> QED BY <2>1, <2>2, <2>3, <1>0, <1>1 DEF TypeOK, Kind
<1>9. Ended'
  <2>1. \A g \in Executor : g # e => user'[g] = user[g]
    BY <1>0 DEF Request, TypeOK
  <2> QED BY <2>1, <1>0, <1>1, <1>2 DEF Ended, Others
<1>10. Links'
  <2>1. ASSUME NEW g \in Executor, NEW h \in Executor
        PROVE  /\ link'[g][g] = << >>
               /\ \A i \in 1 .. Len(link'[g][h]) : link'[g][h][i] = "end" =>
                      i = Len(link'[g][h]) /\ daemon'[g] # "serving"
    <3>1. link'[g][g] = << >> BY <1>0, <1>1, <1>5 DEF Links
    <3>2. CASE g = e /\ h = f BY <3>1, <3>2, <1>4, <1>6
    <3>3. CASE g # e \/ h # f
      <4>1. link'[g][h] = link[g][h] /\ daemon' = daemon BY <3>3, <1>1, <1>5
      <4>2. \A i \in 1 .. Len(link[g][h]) : link[g][h][i] = "end" =>
                i = Len(link[g][h]) /\ daemon[g] # "serving"
        BY <1>0 DEF Links
      <4> QED BY <3>1, <4>1, <4>2
    <3> QED BY <3>2, <3>3
  <2> QED BY <2>1 DEF Links
<1>11. Drained' BY <1>0, <1>1 DEF Drained
<1>12. Counts'
  <2>1. ASSUME NEW g \in Executor PROVE Peers(g)' = Peers(g)
    <3>1. ASSUME NEW h \in Others(g)
          PROVE  HasEnd(link'[h][g]) <=> HasEnd(link[h][g])
      BY <1>5, <1>7 DEF Others
    <3> QED BY <3>1, <1>1, SamePeers
  <2> QED BY <2>1, <1>0, <1>1 DEF Counts
<1> QED BY <1>8, <1>9, <1>10, <1>11, <1>12 DEF IInv

(* Steps that leave daemons, links and counts alone, and revive no thread. *)
LEMMA UserStepKeeps ==
  ASSUME IInv, UNCHANGED <<daemon, cnt, link>>, TypeOK',
         \A e \in Executor : user[e] = <<"ended">> => user'[e] = <<"ended">>
  PROVE  IInv'
<1>1. Ended' /\ Links' /\ Drained'
  BY DEF IInv, Ended, Links, Drained, Others
<1>2. Counts' BY DEF IInv, Counts, Peers
<1> QED BY <1>1, <1>2 DEF IInv

LEMMA AnsweredKeeps ==
  ASSUME IInv, NEW e \in Executor, NEW f \in Executor, Answered(e, f)
  PROVE  IInv'
<1>1. TypeOK /\ UNCHANGED <<daemon, cnt, link, made>> BY DEF IInv, Answered
<1>2. TypeOK' BY <1>1 DEF Answered, TypeOK
<1>3. \A g \in Executor : user[g] = <<"ended">> => user'[g] = <<"ended">>
  <2>1. user[e] # <<"ended">> BY DEF Answered
  <2> QED BY <2>1, <1>1 DEF Answered, TypeOK
<1> QED BY <1>1, <1>2, <1>3, UserStepKeeps

LEMMA EndKeeps ==
  ASSUME IInv, NEW e \in Executor, End(e)
  PROVE  IInv'
<1>1. TypeOK /\ UNCHANGED <<daemon, cnt, link, made, answers>> BY DEF IInv, End
<1>2. TypeOK' BY <1>1 DEF End, TypeOK
<1>3. \A g \in Executor : user[g] = <<"ended">> => user'[g] = <<"ended">>
  BY <1>1 DEF End, TypeOK
<1> QED BY <1>1, <1>2, <1>3, UserStepKeeps

(* The broadcast of DMN_END: links that had none end with one, and whoever *)
(* counted the executor as serving counts the message.                     *)
LEMMA BroadcastKeeps ==
  ASSUME IInv, NEW e \in Executor, Broadcast(e)
  PROVE  IInv'
<1>0. TypeOK /\ Ended /\ Links /\ Drained /\ Counts BY DEF IInv
<1>1. /\ daemon[e] = "serving" /\ UNCHANGED <<user, made, cnt, answers>>
      /\ user[e] = <<"ended">> \/ Others(e) = {}
  <2>1. Cardinality(Executor) = 1 => Others(e) = {}
    BY FS_Singleton, TerminationAssumption DEF Others
  <2> QED BY <2>1 DEF Broadcast
<1>2. /\ daemon' \in [Executor -> {"serving", "draining", "done"}]
      /\ daemon'[e] = "draining"
      /\ \A f \in Executor : f # e => daemon'[f] = daemon[f]
  BY <1>0 DEF Broadcast, TypeOK
<1>3. /\ link' \in [Executor -> [Executor -> Seq(Kind)]]
      /\ \A g, h \in Executor : g # e \/ h = g => link'[g][h] = link[g][h]
      /\ \A h \in Executor : h # e => link'[e][h] = Append(link[e][h], "end")
  <2> DEFINE l == [f \in Executor |-> IF f = e THEN link[e][f]
                                     ELSE Append(link[e][f], "end")]
  <2>1. link' = [link EXCEPT ![e] = l] BY DEF Broadcast
  <2>2. link \in [Executor -> [Executor -> Seq(Kind)]] BY <1>0 DEF TypeOK, Kind
  <2>3. l \in [Executor -> Seq(Kind)]
    <3>1. ASSUME NEW h \in Executor PROVE Append(link[e][h], "end") \in Seq(Kind)
      BY <2>2, AppendProperties DEF Kind
    <3> QED BY <3>1, <2>2
  <2> HIDE DEF l
  <2>4. link' \in [Executor -> [Executor -> Seq(Kind)]] /\ link'[e] = l
        /\ \A g \in Executor : g # e => link'[g] = link[g]
    BY <2>1, <2>2, <2>3
  <2> QED BY <2>4 DEF l
<1>4. ASSUME NEW h \in Others(e)
      PROVE  /\ Len(link'[e][h]) = Len(link[e][h]) + 1 /\ Len(link[e][h]) \in Nat
             /\ \A i \in 1 .. Len(link[e][h]) : link'[e][h][i] # "end"
             /\ HasEnd(link'[e][h])
  <2>1. h \in Executor /\ h # e BY DEF Others
  <2>2. /\ link[e][h] \in Seq(Kind) /\ Len(link[e][h]) \in Nat
        /\ \A i \in 1 .. Len(link[e][h]) : link[e][h][i] # "end"
    BY <2>1, <1>0, <1>1, LinkFacts DEF Links
  <2> DEFINE q == link[e][h]
             r == Append(q, "end")
  <2>3. link'[e][h] = r BY <2>1, <1>3
  <2>4. /\ r \in Seq(Kind) /\ Len(r) = Len(q) + 1 /\ r[Len(q) + 1] = "end"
        /\ \A i \in 1 .. Len(q) : r[i] = q[i]
    <3>1. "end" \in Kind BY DEF Kind
    <3> QED BY <3>1, <2>2, AppendProperties
  <2>5. DOMAIN r = 1 .. Len(q) + 1 BY <2>4, LenProperties
  <2> HIDE DEF r
  <2>6. HasEnd(r) BY <2>2, <2>4, <2>5 DEF HasEnd
  <2> QED BY <2>2, <2>3, <2>4, <2>6
<1>5. TypeOK' BY <1>0, <1>1, <1>2, <1>3 DEF TypeOK, Kind
<1>6. Ended' BY <1>0, <1>1, <1>2 DEF Ended, Others
<1>7. Links'
  <2>1. ASSUME NEW g \in Executor, NEW h \in Executor
        PROVE  /\ link'[g][g] = << >>
               /\ \A i \in 1 .. Len(link'[g][h]) : link'[g][h][i] = "end" =>
                      i = Len(link'[g][h]) /\ daemon'[g] # "serving"
    <3>1. link'[g][g] = << >> BY <1>0, <1>3 DEF Links
    <3>2. CASE g = e /\ h # e BY <3>1, <3>2, <1>2, <1>4 DEF Others
    <3>3. CASE g # e \/ h = g
      <4>1. /\ link'[g][h] = link[g][h]
            /\ daemon[g] # "serving" => daemon'[g] # "serving"
        BY <3>3, <1>1, <1>2, <1>3
      <4>2. \A i \in 1 .. Len(link[g][h]) : link[g][h][i] = "end" =>
                i = Len(link[g][h]) /\ daemon[g] # "serving"
        BY <1>0 DEF Links
      <4> QED BY <3>1, <4>1, <4>2
    <3> QED BY <3>2, <3>3
  <2> QED BY <2>1 DEF Links
<1>8. Drained' BY <1>0, <1>1, <1>2 DEF Drained
<1>9. Counts'
  <2>1. ASSUME NEW g \in Executor PROVE Peers(g)' = Peers(g)
    <3>1. ASSUME NEW f \in Others(g)
          PROVE  (daemon'[f] = "serving" \/ HasEnd(link'[f][g])) <=>
                 (daemon[f] = "serving" \/ HasEnd(link[f][g]))
      <4>1. f \in Executor /\ f # g BY DEF Others
      <4>2. CASE f = e
        <5>1. g \in Others(e) BY <4>1, <4>2 DEF Others
        <5> QED BY <5>1, <4>2, <1>1, <1>4
      <4>3. CASE f # e BY <4>1, <4>3, <1>2, <1>3
      <4> QED BY <4>2, <4>3
    <3> QED BY <3>1, SamePeers
  <2> QED BY <2>1, <1>0, <1>1 DEF Counts
<1> QED BY <1>5, <1>6, <1>7, <1>8, <1>9 DEF IInv

(* The second loop ends when nobody is left to be counted.                 *)
LEMMA ExitKeeps ==
  ASSUME IInv, NEW e \in Executor, Exit(e)
  PROVE  IInv'
<1>0. TypeOK /\ Ended /\ Links /\ Drained /\ Counts BY DEF IInv
<1>1. /\ daemon[e] = "draining" /\ cnt[e] = 0
      /\ UNCHANGED <<user, made, cnt, link, answers>>
  BY DEF Exit
<1>2. /\ daemon' \in [Executor -> {"serving", "draining", "done"}]
      /\ daemon'[e] = "done"
      /\ \A f \in Executor : f # e => daemon'[f] = daemon[f]
  BY <1>0 DEF Exit, TypeOK
<1>3. TypeOK' BY <1>0, <1>1, <1>2 DEF TypeOK
<1>4. Ended' BY <1>0, <1>1, <1>2 DEF Ended, Others
<1>5. Links' BY <1>0, <1>1, <1>2 DEF Links
<1>6. Drained' BY <1>0, <1>1, <1>2 DEF Drained
<1>7. Counts'
  <2>1. ASSUME NEW g \in Executor PROVE Peers(g)' = Peers(g)
    <3>1. \A f \in Executor : daemon'[f] = "serving" <=> daemon[f] = "serving"
      BY <1>1, <1>2
    <3> QED BY <3>1, <1>1, SamePeers DEF Others
  <2> QED BY <2>1, <1>0, <1>1 DEF Counts
<1> QED BY <1>3, <1>4, <1>5, <1>6, <1>7 DEF IInv

(* A request is received.  DMN_END is the last of its link: the sender is  *)
(* no longer counted, and its link is empty.                               *)
LEMMA PollKeeps ==
  ASSUME IInv, NEW e \in Executor, NEW f \in Executor, Poll(e, f)
  PROVE  IInv'
<1>0. TypeOK /\ Ended /\ Links /\ Drained /\ Counts BY DEF IInv
<1> DEFINE q == link[f][e]
<1>1. /\ daemon[e] = "serving" \/ daemon[e] = "draining"
      /\ UNCHANGED <<user, made, daemon>>
  BY DEF Poll
<1>2. PICK i \in Deliverable(q) :
        /\ link' = [link EXCEPT ![f][e] = RemoveAt(@, i)]
        /\ cnt' = [cnt EXCEPT ![e] = CntAfter(e, q[i])]
        /\ answers' = IF q[i] = "load"
                      THEN [answers EXCEPT ![f] = @ \cup {e}] ELSE answers
  BY DEF Poll
<1>3. /\ q \in Seq(Kind) /\ Len(q) \in Nat /\ i \in 1 .. Len(q)
      /\ DOMAIN q = 1 .. Len(q)
  BY <1>0, LinkFacts DEF Deliverable
<1>4. f # e
  <2>1. link[e][e] = << >> BY <1>0 DEF Links
  <2>2. Len(<< >>) = 0 OBVIOUS
  <2> QED BY <2>1, <2>2, <1>3
<1> DEFINE r == RemoveAt(q, i)
<1>5. /\ r \in Seq(Kind) /\ Len(r) = Len(q) - 1
      /\ \A j \in 1 .. Len(q) - 1 : r[j] = IF j < i THEN q[j] ELSE q[j + 1]
  BY <1>3, Removed
<1>6. DOMAIN r = 1 .. Len(q) - 1 BY <1>5, LenProperties
<1> HIDE DEF r
<1>7. /\ link' \in [Executor -> [Executor -> Seq(Kind)]]
      /\ link'[f][e] = r
      /\ \A g, h \in Executor : g # f \/ h # e => link'[g][h] = link[g][h]
  <2>1. link \in [Executor -> [Executor -> Seq(Kind)]] BY <1>0 DEF TypeOK, Kind
  <2>2. link' = [link EXCEPT ![f][e] = r] BY <1>2 DEF r
  <2> QED BY <2>1, <2>2, <1>5
<1>8. \A j \in 1 .. Len(q) : q[j] = "end" => j = Len(q) /\ daemon[f] # "serving"
  BY <1>0 DEF Links
<1>9. /\ \A j \in 1 .. Len(r) : r[j] = "end" => j = Len(r) /\ daemon[f] # "serving"
      /\ HasEnd(r) <=> HasEnd(q) /\ q[i] # "end"
  <2>1. /\ \A j \in 1 .. Len(r) : r[j] = "end" => j = Len(r)
        /\ HasEnd(r) <=> HasEnd(q) /\ q[i] # "end"
    BY <1>3, <1>8, EndsLast DEF r
  <2>2. HasEnd(q) => daemon[f] # "serving" BY <1>3, <1>8 DEF HasEnd
  <2>3. \A j \in 1 .. Len(r) : r[j] = "end" => HasEnd(r)
    BY <1>5, <1>6 DEF HasEnd
  <2> QED BY <2>1, <2>2, <2>3
<1>10. Links'
  <2>1. ASSUME NEW g \in Executor, NEW h \in Executor
        PROVE  /\ link'[g][g] = << >>
               /\ \A j \in 1 .. Len(link'[g][h]) : link'[g][h][j] = "end" =>
                      j = Len(link'[g][h]) /\ daemon'[g] # "serving"
    <3>1. link'[g][g] = << >> BY <1>0, <1>4, <1>7 DEF Links
    <3>2. CASE g = f /\ h = e BY <3>1, <3>2, <1>1, <1>7, <1>9
    <3>3. CASE g # f \/ h # e
      <4>1. link'[g][h] = link[g][h] /\ daemon' = daemon BY <3>3, <1>1, <1>7
      <4>2. \A j \in 1 .. Len(link[g][h]) : link[g][h][j] = "end" =>
                j = Len(link[g][h]) /\ daemon[g] # "serving"
        BY <1>0 DEF Links
      <4> QED BY <3>1, <4>1, <4>2
    <3> QED BY <3>2, <3>3
  <2> QED BY <2>1 DEF Links
<1>12. \A g \in Executor : g # e => Peers(g)' = Peers(g)
  BY <1>1, <1>7, SamePeers DEF Others
<1>13. Peers(e)' = IF q[i] = "end" THEN Peers(e) \ {f} ELSE Peers(e)
  <2>1. ASSUME NEW g \in Others(e)
        PROVE  g \in Peers(e)' <=> g \in Peers(e) /\ (g = f => q[i] # "end")
    <3>1. g \in Executor /\ e \in Executor BY DEF Others
    <3>2. CASE g = f
      <4>1. HasEnd(link'[g][e]) <=> HasEnd(link[g][e]) /\ q[i] # "end"
        BY <3>2, <1>7, <1>9
      <4>2. q[i] = "end" => daemon[f] # "serving" BY <1>3, <1>8
      <4> QED BY <4>1, <4>2, <3>2, <1>1 DEF Peers
    <3>3. CASE g # f BY <3>1, <3>3, <1>1, <1>7 DEF Peers
    <3> QED BY <3>2, <3>3
  <2>2. Peers(e) \subseteq Others(e) /\ Peers(e)' \subseteq Others(e)
    BY DEF Peers, Others
  <2> QED BY <2>1, <2>2
<1>14. q[i] = "end" => f \in Peers(e)
  BY <1>3, <1>4 DEF Peers, Others, HasEnd
<1>15. /\ \A g \in Executor : g # e => cnt'[g] = cnt[g]
       /\ cnt'[e] = IF q[i] = "end" THEN cnt[e] - 1 ELSE cnt[e]
  BY <1>0, <1>2 DEF TypeOK, CntAfter
<1>16. Counts'
  <2>1. cnt'[e] = Cardinality(Peers(e)')
    <3>1. cnt[e] = Cardinality(Peers(e)) BY <1>0 DEF Counts
    <3>2. q[i] = "end" => Cardinality(Peers(e) \ {f}) = Cardinality(Peers(e)) - 1
      BY <1>14, PeersFinite, FS_RemoveElement
    <3> QED BY <3>1, <3>2, <1>13, <1>15
  <2>2. ASSUME NEW g \in Executor, g # e PROVE cnt'[g] = Cardinality(Peers(g)')
    BY <2>2, <1>0, <1>12, <1>15 DEF Counts
  <2> QED BY <2>1, <2>2 DEF Counts, Peers
<1>17. TypeOK'
  <2>1. cnt'[e] \in 0 .. Cardinality(Executor) - 1
    <3>1. /\ cnt[e] = Cardinality(Peers(e)) /\ Cardinality(Peers(e)) \in Nat
          /\ Cardinality(Peers(e)) <= Cardinality(Executor) - 1
          /\ Cardinality(Peers(e)) = 0 <=> Peers(e) = {}
      BY <1>0, PeersFinite DEF Counts
    <3>2. Cardinality(Executor) \in Nat
      BY FS_CardinalityType, TerminationAssumption
    <3>3. q[i] = "end" => cnt[e] # 0 BY <3>1, <1>14
    <3> QED BY <3>1, <3>2, <3>3, <1>15
  <2>2. cnt' \in [Executor -> 0 .. Cardinality(Executor) - 1]
    BY <2>1, <1>0, <1>2, <1>15 DEF TypeOK
  <2>3. answers' \in [Executor -> SUBSET Executor]
    BY <1>0, <1>2 DEF TypeOK
  <2> QED BY <2>2, <2>3, <1>0, <1>1, <1>7 DEF TypeOK, Kind
<1>18. Ended' BY <1>0, <1>1 DEF Ended, Others
<1>19. Drained' BY <1>0, <1>1, <1>15 DEF Drained
<1> QED BY <1>10, <1>16, <1>17, <1>18, <1>19 DEF IInv

LEMMA InitIInv == Init => IInv
<1> SUFFICES ASSUME Init PROVE IInv
  OBVIOUS
<1>1. TypeOK
  <2>1. Cardinality(Executor) \in Nat /\ Cardinality(Executor) # 0
    BY FS_CardinalityType, FS_EmptySet, TerminationAssumption
  <2>2. cnt \in [Executor -> 0 .. Cardinality(Executor) - 1] BY <2>1 DEF Init
  <2> QED BY <2>2, TerminationAssumption DEF Init, TypeOK
<1>2. Ended /\ Drained BY DEF Init, Ended, Drained
<1>3. Links
  <2>1. Len(<< >>) = 0 OBVIOUS
  <2> QED BY <2>1 DEF Init, Links
<1>4. Counts
  <2> SUFFICES ASSUME NEW e \in Executor PROVE cnt[e] = Cardinality(Peers(e))
    BY DEF Counts
  <2>1. Peers(e) = Executor \ {e} BY DEF Init, Peers, Others
  <2>2. Cardinality(Executor \ {e}) = Cardinality(Executor) - 1
    BY FS_RemoveElement, TerminationAssumption
  <2> QED BY <2>1, <2>2 DEF Init
<1> QED BY <1>1, <1>2, <1>3, <1>4 DEF IInv

LEMMA StutterKeeps ==
  ASSUME IInv, UNCHANGED vars
  PROVE  IInv'
<1>1. UNCHANGED <<user, made, daemon, cnt, link, answers>> BY DEF vars
<1>2. TypeOK' BY <1>1 DEF IInv, TypeOK
<1>3. \A e \in Executor : user[e] = <<"ended">> => user'[e] = <<"ended">>
  BY <1>1
<1> QED BY <1>1, <1>2, <1>3, UserStepKeeps

LEMMA NextIInv == IInv /\ [Next]_vars => IInv'
<1> SUFFICES ASSUME IInv, [Next]_vars PROVE IInv'
  OBVIOUS
<1>1. ASSUME NEW e \in Executor, User(e) PROVE IInv'
  BY <1>1, RequestKeeps, AnsweredKeeps, EndKeeps DEF User
<1>2. ASSUME NEW e \in Executor, Daemon(e) PROVE IInv'
  BY <1>2, BroadcastKeeps, ExitKeeps, PollKeeps DEF Daemon
<1>3. CASE UNCHANGED vars BY <1>3, StutterKeeps
<1> QED BY <1>1, <1>2, <1>3 DEF Next, Finished

-----------------------------------------------------------------------------
(* Links that deliver in order *)

(* What a link that delivers in order holds after a step: a broadcast puts *)
(* DMN_END behind everything, a request is only sent before it, and a      *)
(* receive that takes DMN_END, the first and the last, empties the link.   *)
LEMMA FlushedStep ==
  ASSUME InOrder, IInv, Flushed, [Next]_vars
  PROVE  Flushed'
<1>0. TypeOK /\ Ended /\ Links /\ IInv' BY NextIInv DEF IInv
<1> SUFFICES ASSUME NEW g \in Executor, NEW h \in Executor,
                    daemon'[g] # "serving", ~HasEnd(link'[g][h])
             PROVE  link'[g][h] = << >>
  BY DEF Flushed
<1>1. CASE g = h
  <2>1. link'[g][g] = << >> BY <1>0 DEF IInv, Links
  <2> QED BY <1>1, <2>1
<1>2. ASSUME UNCHANGED <<daemon, link>> PROVE link'[g][h] = << >>
  BY <1>2 DEF Flushed
<1>3. ASSUME NEW e \in Executor, NEW f \in Executor,
             NEW kind \in {"load", "tell"}, Request(e, f, kind)
      PROVE  link'[g][h] = << >>
  <2>1. daemon' = daemon /\ user[e] = <<"running">> /\ f \in Others(e)
    BY <1>3 DEF Request, Others
  <2>2. daemon[e] = "serving" BY <1>0, <2>1 DEF Ended
  <2>3. g # e BY <2>1, <2>2
  <2>4. link'[g][h] = link[g][h] BY <1>0, <1>3, <2>3 DEF Request, TypeOK
  <2> QED BY <2>1, <2>4 DEF Flushed
<1>4. ASSUME NEW e \in Executor, Broadcast(e), g # h PROVE link'[g][h] = << >>
  <2>1. CASE g = e
    <3> DEFINE q == link[e][h]
    <3>1. link'[g][h] = Append(q, "end")
      BY <1>0, <1>4, <2>1 DEF Broadcast, TypeOK
    <3>2. q \in Seq(Kind) /\ "end" \in Kind
      BY <1>0, LinkFacts DEF Kind
    <3> HIDE DEF q
    <3>3. /\ Append(q, "end") \in Seq(Kind) /\ Len(q) \in Nat
          /\ Len(Append(q, "end")) = Len(q) + 1
          /\ Append(q, "end")[Len(q) + 1] = "end"
      BY <3>2, LenProperties, AppendProperties
    <3>4. DOMAIN Append(q, "end") = 1 .. Len(q) + 1 BY <3>3, LenProperties
    <3>5. HasEnd(Append(q, "end")) BY <3>3, <3>4 DEF HasEnd
    <3> QED BY <3>1, <3>5
  <2>2. CASE g # e
    <3>1. link'[g] = link[g] /\ daemon'[g] = daemon[g]
      BY <1>0, <1>4, <2>2 DEF Broadcast, TypeOK
    <3> QED BY <3>1 DEF Flushed
  <2> QED BY <2>1, <2>2
<1>5. ASSUME NEW e \in Executor, Exit(e) PROVE link'[g][h] = << >>
  <2>1. link' = link /\ daemon[g] # "serving"
    BY <1>0, <1>5 DEF Exit, TypeOK
  <2> QED BY <2>1 DEF Flushed
<1>6. ASSUME NEW e \in Executor, NEW f \in Executor, Poll(e, f)
      PROVE  link'[g][h] = << >>
  <2> DEFINE q == link[f][e]
  <2>1. PICK i \in Deliverable(q) : link' = [link EXCEPT ![f][e] = RemoveAt(@, i)]
    BY <1>6 DEF Poll
  <2>2. daemon' = daemon BY <1>6 DEF Poll
  <2>3. i = 1 /\ i \in DOMAIN q BY DEF Deliverable
  <2>4. CASE g = f /\ h = e
    <3>1. /\ q \in Seq(Kind) /\ Len(q) \in Nat /\ 1 \in 1 .. Len(q)
          /\ DOMAIN q = 1 .. Len(q)
          /\ \A j \in 1 .. Len(q) : q[j] = "end" => j = Len(q)
      BY <1>0, <2>3, LinkFacts DEF Links
    <3>2. link'[g][h] = RemoveAt(q, 1) BY <1>0, <2>1, <2>3, <2>4 DEF TypeOK
    <3> HIDE DEF q
    <3>3. HasEnd(RemoveAt(q, 1)) <=> HasEnd(q) /\ q[1] # "end"
      BY <3>1, EndsLast
    <3>8. Len(q) # 0 BY <2>3, <2>4, <1>0, LinkFacts DEF q
    <3>4. q # << >>
      <4>1. Len(<< >>) = 0 OBVIOUS
      <4> QED BY <4>1, <3>8
    <3>5. HasEnd(q) BY <2>2, <2>4, <3>4 DEF Flushed, q
    <3>6. q[1] = "end" /\ Len(q) = 1 BY <3>1, <3>2, <3>3, <3>5
    <3>7. RemoveAt(q, 1) \in Seq(Kind) /\ Len(RemoveAt(q, 1)) = 0
      <4>1. Len(RemoveAt(q, 1)) = Len(q) - 1 /\ RemoveAt(q, 1) \in Seq(Kind)
        BY <3>1, Removed
      <4> QED BY <4>1, <3>6
    <3> QED BY <3>2, <3>7, EmptySeq
  <2>5. CASE g # f \/ h # e
    <3>1. link'[g][h] = link[g][h] BY <1>0, <2>1, <2>5 DEF TypeOK
    <3> QED BY <2>2, <3>1 DEF Flushed
  <2> QED BY <2>4, <2>5
<1>7. ASSUME NEW e \in Executor, User(e) PROVE link'[g][h] = << >>
  BY <1>7, <1>2, <1>3 DEF User, Answered, End
<1>8. ASSUME NEW e \in Executor, Daemon(e) PROVE link'[g][h] = << >>
  BY <1>8, <1>1, <1>4, <1>5, <1>6 DEF Daemon
<1> QED BY <1>2, <1>7, <1>8 DEF Next, Finished, vars

-----------------------------------------------------------------------------
(* The theorems *)

THEOREM Inductive == Spec => []IInv
BY InitIInv, NextIInv, PTL DEF Spec

(* Typing; that cnt is a natural number below the number of executors is   *)
(* more than the initial value says: it counts down on every DMN_END.      *)
THEOREM Types == Spec => []TypeOK
BY Inductive, PTL DEF IInv

(* cnt counts the executors whose DMN_END has not been received, on links  *)
(* that deliver in any order.                                              *)
THEOREM CountsRight == Spec => []CountsPeers
<1>1. IInv => CountsPeers BY DEF IInv, Counts, Peers, HasEnd, CountsPeers
<1> QED BY <1>1, Inductive, PTL

(* A daemon that has left its loops leaves no user thread behind that      *)
(* could still need it.                                                    *)
THEOREM ServesOthers == Spec => []ServesToTheEnd
<1>1. ASSUME IInv, NEW e \in Executor, daemon[e] = "done", NEW f \in Others(e)
      PROVE  user[f] = <<"ended">>
  <2>1. Cardinality(Peers(e)) = 0 BY <1>1 DEF IInv, Drained, Counts
  <2>2. Peers(e) = {} BY <2>1, PeersFinite
  <2>3. f \in Executor /\ daemon[f] # "serving" BY <2>2 DEF Peers, Others
  <2>4. e \in Others(f) BY DEF Others
  <2> QED BY <1>1, <2>3, <2>4 DEF IInv, Ended
<1>2. IInv => ServesToTheEnd BY <1>1 DEF ServesToTheEnd
<1> QED BY <1>2, Inductive, PTL

(* On links that deliver in order, a daemon that has left its loops has    *)
(* answered every request made to it, by PVT_RESET and RC_DEC too.         *)
THEOREM NothingLeft == InOrder => (Spec => []NothingUnserved)
<1> SUFFICES ASSUME InOrder PROVE Spec => []NothingUnserved
  OBVIOUS
<1>1. Init => Flushed BY DEF Init, Flushed
<1>2. IInv /\ Flushed /\ [Next]_vars => Flushed' BY FlushedStep
<1>3. IInv /\ Flushed => NothingUnserved
  <2> SUFFICES ASSUME IInv, Flushed, NEW e \in Executor, daemon[e] = "done",
                      NEW f \in Executor
               PROVE  link[f][e] = << >>
    BY DEF NothingUnserved
  <2>1. CASE f = e BY <2>1 DEF IInv, Links
  <2>2. CASE f # e
    <3>1. Cardinality(Peers(e)) = 0 BY DEF IInv, Drained, Counts
    <3>2. f \notin Peers(e) BY <3>1, PeersFinite
    <3>3. daemon[f] # "serving" /\ ~HasEnd(link[f][e])
      BY <2>2, <3>2 DEF Peers, Others
    <3> QED BY <3>3 DEF Flushed
  <2> QED BY <2>1, <2>2
<1> QED BY <1>1, <1>2, <1>3, Inductive, PTL DEF Spec
=============================================================================
