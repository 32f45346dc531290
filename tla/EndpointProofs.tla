--------------------------- MODULE EndpointProofs ---------------------------
(***************************************************************************)
(* Proofs about Endpoint, for any executors, any applications, any depth   *)
(* of the provider's queues and any size of the objects: typing, that      *)
(* answers arrive whole, and that sending and receiving one message at a   *)
(* time implements Termination.                                            *)
(*                                                                         *)
(* The invariant speaks of pairs of a user thread e and a daemon f, and of *)
(* two sequences for each: what e has sent to f and f has not polled,      *)
(* Posted(e, f), and what f has sent of the answer, Stream(e, f).  Most    *)
(* steps leave both as they are.                                           *)
(***************************************************************************)
EXTENDS Endpoint, SequenceTheorems, FiniteSetTheorems, TLAPS

(* What e has received of the present answer, and what is on its way       *)
Stream(e, f) == got[e] \o answer[f][e]

(* m is the request that e is waiting for an answer to.                    *)
Awaited(e, f, m) == Waits(e, f) /\ user[e].op = m.op /\ made[e] = m.nr

IsLoad(m) == ChunksOf[m.op] > 0

(* A DMN_END is the last request to be polled, and so is a load: its       *)
(* sender waits, and nothing of the answer has been sent.                  *)
PostedOK(e, f) ==
    \A i \in 1 .. Len(Posted(e, f)) :
        /\ Posted(e, f)[i].from = e /\ e # f
        /\ Posted(e, f)[i].op = "DMN_END" =>
               i = Len(Posted(e, f)) /\ f \in told[e]
        /\ IsLoad(Posted(e, f)[i]) =>
               /\ i = Len(Posted(e, f))
               /\ Awaited(e, f, Posted(e, f)[i])
               /\ Stream(e, f) = << >>

(* As long as the answer is not complete, who asked is waiting for it, and *)
(* has sent nothing since.                                                 *)
HandledOK(e, f) ==
    Handling(f) /\ p[f].from = e =>
        /\ sent[f] <= ChunksOf[p[f].op]
        /\ sent[f] < ChunksOf[p[f].op] =>
               /\ Awaited(e, f, p[f])
               /\ Len(Stream(e, f)) = sent[f]
               /\ Posted(e, f) = << >>

(* What is sent to e is the answer to its present request, in order.       *)
AnswerOK(e, f) ==
    IF Waits(e, f)
    THEN /\ Len(Stream(e, f)) <= ChunksOf[user[e].op]
         /\ \A i \in 1 .. Len(Stream(e, f)) :
                Stream(e, f)[i] = [nr |-> made[e], i |-> i]
    ELSE answer[f][e] = << >>

PairOK(e, f) == PostedOK(e, f) /\ HandledOK(e, f) /\ AnswerOK(e, f)

UserOK(e) ==
    /\ user[e].at \in {"tx", "rx"} => user[e].peer # e /\ made[e] >= 1
    /\ user[e].at = "rx" => ChunksOf[user[e].op] > 0
    /\ user[e].at # "rx" => got[e] = << >>

DaemonOK(e) ==
    /\ told[e] \subseteq Others(e)
    /\ daemon[e] = "serving" => told[e] = {}
    /\ daemon[e] # "serving" => user[e].at = "ended" \/ Others(e) = {}
    /\ daemon[e] = "done" => told[e] = Others(e)
    /\ Handling(e) => rx[e] = "taken"

HasEnd(q) == \E i \in 1 .. Len(q) : q[i].op = "DMN_END"

(* Whom cnt[e] counts                                                      *)
Peers(e) == {f \in Others(e) : e \notin told[f] \/ HasEnd(Posted(f, e))}

Pairs  == \A e, f \in Executor : PairOK(e, f)
Locals == \A e \in Executor : UserOK(e) /\ DaemonOK(e)
Counts == \A e \in Executor : cnt[e] = Cardinality(Peers(e))

IInv == TypeOK /\ Pairs /\ Locals /\ Counts

-----------------------------------------------------------------------------
(* Sequences *)

LEMMA SeqFacts ==
  ASSUME NEW S, NEW q \in Seq(S)
  PROVE  /\ Len(q) \in Nat /\ DOMAIN q = 1 .. Len(q)
         /\ \A i \in 1 .. Len(q) : q[i] \in S
         /\ q # << >> <=> Len(q) # 0
         /\ q # << >> => /\ Head(q) = q[1] /\ Head(q) \in S
                         /\ Tail(q) \in Seq(S) /\ Len(Tail(q)) = Len(q) - 1
                         /\ \A i \in 1 .. Len(q) - 1 : Tail(q)[i] = q[i + 1]
<1>1. Len(q) \in Nat /\ DOMAIN q = 1 .. Len(q) BY LenProperties
<1>2. \A i \in 1 .. Len(q) : q[i] \in S BY ElementOfSeq
<1>3. q # << >> <=> Len(q) # 0 BY EmptySeq
<1>4. q # << >> => /\ Head(q) = q[1] /\ Head(q) \in S
                   /\ Tail(q) \in Seq(S) /\ Len(Tail(q)) = Len(q) - 1
                   /\ \A i \in 1 .. Len(q) - 1 : Tail(q)[i] = q[i + 1]
  BY <1>1, HeadTailProperties
<1> QED BY <1>1, <1>2, <1>3, <1>4

LEMMA EmptySequence == ASSUME NEW S PROVE << >> \in Seq(S) /\ Len(<< >>) = 0
OBVIOUS

(* Moving the first element of a sequence to the end of another            *)
LEMMA Handover ==
  ASSUME NEW S, NEW s \in Seq(S), NEW q \in Seq(S), q # << >>
  PROVE  Append(s, Head(q)) \o Tail(q) = s \o q
<1> DEFINE a == Append(s, Head(q))
           t == Tail(q)
<1>1. /\ Len(s) \in Nat /\ Len(q) \in Nat /\ Len(q) # 0
      /\ Head(q) = q[1] /\ Head(q) \in S
      /\ t \in Seq(S) /\ Len(t) = Len(q) - 1
      /\ \A i \in 1 .. Len(q) - 1 : t[i] = q[i + 1]
  BY SeqFacts
<1>2. /\ a \in Seq(S) /\ Len(a) = Len(s) + 1 /\ a[Len(s) + 1] = q[1]
      /\ \A i \in 1 .. Len(s) : a[i] = s[i]
  BY <1>1, AppendProperties
<1> HIDE DEF a, t
<1>3. /\ a \o t \in Seq(S) /\ Len(a \o t) = Len(s) + Len(q)
      /\ \A i \in 1 .. Len(s) + Len(q) :
            (a \o t)[i] = IF i <= Len(s) + 1 THEN a[i] ELSE t[i - (Len(s) + 1)]
  <2>1. Len(a) + Len(t) = Len(s) + Len(q) BY <1>1, <1>2
  <2>2. /\ a \o t \in Seq(S) /\ Len(a \o t) = Len(a) + Len(t)
        /\ \A i \in 1 .. Len(a) + Len(t) :
              (a \o t)[i] = IF i <= Len(a) THEN a[i] ELSE t[i - Len(a)]
    BY <1>1, <1>2, ConcatProperties
  <2>3. Len(a) = Len(s) + 1 BY <1>2
  <2> QED BY <2>1, <2>2, <2>3
<1>4. /\ s \o q \in Seq(S) /\ Len(s \o q) = Len(s) + Len(q)
      /\ \A i \in 1 .. Len(s) + Len(q) :
            (s \o q)[i] = IF i <= Len(s) THEN s[i] ELSE q[i - Len(s)]
  BY ConcatProperties
<1>5. ASSUME NEW i \in 1 .. Len(s) + Len(q) PROVE (a \o t)[i] = (s \o q)[i]
  <2>1. CASE i <= Len(s)
    <3>1. i <= Len(s) + 1 /\ i \in 1 .. Len(s) BY <2>1, <1>1
    <3> QED BY <2>1, <3>1, <1>2, <1>3, <1>4
  <2>2. CASE i = Len(s) + 1
    <3>1. i <= Len(s) + 1 /\ ~(i <= Len(s)) /\ i - Len(s) = 1 BY <2>2, <1>1
    <3> QED BY <2>2, <3>1, <1>2, <1>3, <1>4
  <2>3. CASE i > Len(s) + 1
    <3> DEFINE j == i - (Len(s) + 1)
    <3>1. /\ ~(i <= Len(s) + 1) /\ ~(i <= Len(s))
          /\ j \in 1 .. Len(q) - 1 /\ j + 1 = i - Len(s)
      BY <2>3, <1>1
    <3>2. (a \o t)[i] = t[j] BY <3>1, <1>3
    <3>3. (s \o q)[i] = q[i - Len(s)] BY <3>1, <1>4
    <3> QED BY <3>1, <3>2, <3>3, <1>1
  <2>4. i <= Len(s) \/ i = Len(s) + 1 \/ i > Len(s) + 1
    <3>1. Len(s) \in Nat /\ Len(q) \in Nat BY <1>1
    <3> QED BY <3>1
  <2> QED BY <2>1, <2>2, <2>3, <2>4
<1>6. a \o t = s \o q BY <1>3, <1>4, <1>5, SeqEqual
<1> QED BY <1>6 DEF a, t

LEMMA AppendRight ==
  ASSUME NEW S, NEW s \in Seq(S), NEW q \in Seq(S), NEW m \in S
  PROVE  s \o Append(q, m) = Append(s \o q, m)
<1>1. <<m>> \in Seq(S) /\ s \o q \in Seq(S) BY ConcatProperties
<1>2. Append(q, m) = q \o <<m>> /\ Append(s \o q, m) = (s \o q) \o <<m>>
  BY <1>1, AppendIsConcat
<1> QED BY <1>1, <1>2, ConcatAssociative

(* Taking the first element out                                            *)
LEMMA FirstRemoved ==
  ASSUME NEW S, NEW q \in Seq(S), q # << >>
  PROVE  RemoveAt(q, 1) = Tail(q)
<1>1. /\ Len(q) \in Nat /\ Len(q) # 0 /\ Tail(q) \in Seq(S)
      /\ Len(Tail(q)) = Len(q) - 1
      /\ \A i \in 1 .. Len(q) - 1 : Tail(q)[i] = q[i + 1]
      /\ \A i \in 1 .. Len(q) : q[i] \in S
  BY SeqFacts
<1> DEFINE r == SubSeq(q, 2, Len(q))
           l == SubSeq(q, 1, 0)
<1>2. /\ r \in Seq(S)
      /\ Len(r) = IF 2 <= Len(q) THEN Len(q) - 2 + 1 ELSE 0
      /\ \A i \in 1 .. Len(q) - 2 + 1 : r[i] = q[2 + i - 1]
  <2>1. \A i \in 2 .. Len(q) : q[i] \in S BY <1>1
  <2> QED BY <2>1, <1>1, SubSeqProperties
<1>3. l = << >>
  <2>1. l \in Seq(S) /\ Len(l) = 0 BY SubSeqProperties
  <2> QED BY <2>1, EmptySeq
<1>4. RemoveAt(q, 1) = l \o r
  <2>1. 1 - 1 = 0 /\ 1 + 1 = 2 OBVIOUS
  <2> QED BY <2>1 DEF RemoveAt
<1> HIDE DEF r, l
<1>5. Len(r) = Len(q) - 1 /\ \A i \in 1 .. Len(q) - 1 : r[i] = q[i + 1]
  <2>1. Len(q) \in Nat /\ Len(q) # 0 BY <1>1
  <2>2. /\ Len(r) = IF 2 <= Len(q) THEN Len(q) - 2 + 1 ELSE 0
        /\ \A i \in 1 .. Len(q) - 2 + 1 : r[i] = q[2 + i - 1]
    BY <1>2
  <2>3. Len(r) = Len(q) - 1
    <3>1. 2 <= Len(q) => Len(r) = Len(q) - 2 + 1 BY <2>2
    <3>2. ~(2 <= Len(q)) => Len(r) = 0 BY <2>2
    <3> QED BY <3>1, <3>2, <2>1
  <2>4. ASSUME NEW i \in 1 .. Len(q) - 1 PROVE r[i] = q[i + 1]
    <3>1. i \in 1 .. Len(q) - 2 + 1 /\ 2 + i - 1 = i + 1 BY <2>1
    <3> QED BY <3>1, <2>2
  <2> QED BY <2>3, <2>4
<1>6. r = Tail(q)
  <2>1. Len(r) = Len(Tail(q)) /\ \A i \in 1 .. Len(r) : r[i] = Tail(q)[i]
    BY <1>1, <1>5
  <2> QED BY <2>1, <1>1, <1>2, SeqEqual
<1>7. << >> \o r = r BY <1>2, ConcatEmptySeq
<1> QED BY <1>3, <1>4, <1>6, <1>7

-----------------------------------------------------------------------------
(* Facts about single executors and pairs *)

LEMMA Chunks ==
  /\ \A op \in DOMAIN ChunksOf : ChunksOf[op] \in 0 .. LoadChunks
  /\ ChunksOf["DMN_END"] = 0 /\ "DMN_END" \in DOMAIN ChunksOf
  /\ Op \subseteq DOMAIN ChunksOf /\ "DMN_END" \notin Op
BY EndpointAssumption DEF ChunksOf

(* What a user thread that sends or receives is doing                      *)
LEMMA UserFacts ==
  ASSUME TypeOK, NEW e \in Executor
  PROVE  /\ user[e].at \in {"running", "ended", "tx", "rx"}
         /\ user[e].at \in {"tx", "rx"} => user[e].peer \in Executor /\ user[e].op \in Op
<1>1. user[e] \in {At("running"), At("ended")} \cup
          {In(w, f, op) : w \in {"tx", "rx"}, f \in Executor, op \in Op}
  <2>1. user[e] \in Place BY DEF TypeOK
  <2> QED BY <2>1 DEF Place
<1>2. CASE user[e] \in {At("running"), At("ended")} BY <1>2 DEF At
<1>3. CASE user[e] \in {In(w, f, op) : w \in {"tx", "rx"}, f \in Executor, op \in Op}
  <2>1. PICK w \in {"tx", "rx"}, f \in Executor, op \in Op : user[e] = In(w, f, op)
    BY <1>3
  <2> QED BY <2>1 DEF In
<1> QED BY <1>1, <1>2, <1>3

LEMMA Fields ==
  /\ \A w : At(w).at = w
  /\ \A w, f, op : In(w, f, op).at = w /\ In(w, f, op).peer = f /\ In(w, f, op).op = op
BY DEF At, In

LEMMA MessageFacts ==
  ASSUME NEW m \in Message
  PROVE  /\ m.op \in DOMAIN ChunksOf /\ m.from \in Executor /\ m.nr \in 0 .. MaxRequests
         /\ ChunksOf[m.op] \in Nat /\ ChunksOf[m.op] <= LoadChunks
<1>1. m.op \in DOMAIN ChunksOf /\ m.from \in Executor /\ m.nr \in 0 .. MaxRequests
  BY DEF Message
<1> QED BY <1>1, Chunks, EndpointAssumption

LEMMA PairFacts ==
  ASSUME TypeOK, NEW e \in Executor, NEW f \in Executor
  PROVE  /\ got[e] \in Seq(Chunk) /\ answer[f][e] \in Seq(Chunk)
         /\ Stream(e, f) \in Seq(Chunk)
         /\ Len(Stream(e, f)) = Len(got[e]) + Len(answer[f][e])
         /\ request[e][f] \in Seq(Message) /\ p[f] \in Message
         /\ Posted(e, f) \in Seq(Message)
<1>1. /\ got[e] \in Seq(Chunk) /\ answer[f][e] \in Seq(Chunk)
      /\ request[e][f] \in Seq(Message) /\ p[f] \in Message
  <2>1. /\ got \in [Executor -> Seq(Chunk)] /\ p \in [Executor -> Message]
        /\ answer \in [Executor -> [Executor -> Seq(Chunk)]]
        /\ request \in [Executor -> [Executor -> Seq(Message)]]
    BY DEF TypeOK
  <2> QED BY <2>1
<1>2. InBuffer(e, f) \in Seq(Message)
  <2>1. <<p[f]>> \in Seq(Message) /\ << >> \in Seq(Message) BY <1>1
  <2> QED BY <2>1 DEF InBuffer
<1>3. /\ Stream(e, f) \in Seq(Chunk)
      /\ Len(Stream(e, f)) = Len(got[e]) + Len(answer[f][e])
  BY <1>1, ConcatProperties DEF Stream
<1>4. Posted(e, f) \in Seq(Message) BY <1>1, <1>2, ConcatProperties DEF Posted
<1> QED BY <1>1, <1>3, <1>4

(* The provider's queue is all there is when the buffer holds nothing of   *)
(* e; what the buffer holds comes first.                                   *)
LEMMA PostedIs ==
  ASSUME TypeOK, NEW e \in Executor, NEW f \in Executor
  PROVE  /\ ~(rx[f] = "complete" /\ p[f].from = e) => Posted(e, f) = request[e][f]
         /\ rx[f] = "complete" /\ p[f].from = e =>
               /\ Posted(e, f) # << >> /\ Head(Posted(e, f)) = p[f]
               /\ Tail(Posted(e, f)) = request[e][f]
<1> DEFINE q == request[e][f]
<1>1. q \in Seq(Message) /\ p[f] \in Message BY PairFacts
<1>2. << >> \o q = q BY <1>1, ConcatEmptySeq
<1>3. /\ <<p[f]>> \o q # << >> /\ Head(<<p[f]>> \o q) = p[f]
      /\ Tail(<<p[f]>> \o q) = q
  <2> DEFINE m == <<p[f]>>
  <2>1. m \in Seq(Message) /\ Len(m) = 1 /\ m[1] = p[f] BY <1>1
  <2> HIDE DEF m, q
  <2>2. Len(q) \in Nat /\ \A i \in 1 .. Len(q) : q[i] \in Message BY <1>1, SeqFacts
  <2>3. /\ m \o q \in Seq(Message) /\ Len(m \o q) = 1 + Len(q)
        /\ \A i \in 1 .. 1 + Len(q) :
              (m \o q)[i] = IF i <= 1 THEN m[i] ELSE q[i - 1]
    <3>1. /\ m \o q \in Seq(Message) /\ Len(m \o q) = Len(m) + Len(q)
          /\ \A i \in 1 .. Len(m) + Len(q) :
                (m \o q)[i] = IF i <= Len(m) THEN m[i] ELSE q[i - Len(m)]
      BY <1>1, <2>1, ConcatProperties
    <3> QED BY <3>1, <2>1
  <2>4. m \o q # << >>
    <3>1. 1 + Len(q) # 0 BY <2>2
    <3> QED BY <2>3, <3>1, SeqFacts
  <2>5. /\ Head(m \o q) = (m \o q)[1] /\ Tail(m \o q) \in Seq(Message)
        /\ Len(Tail(m \o q)) = Len(m \o q) - 1
        /\ \A i \in 1 .. Len(m \o q) - 1 : Tail(m \o q)[i] = (m \o q)[i + 1]
    BY <2>3, <2>4, SeqFacts
  <2>6. (m \o q)[1] = p[f] BY <2>1, <2>2, <2>3
  <2>7. Len(Tail(m \o q)) = Len(q) BY <2>2, <2>3, <2>5
  <2>8. ASSUME NEW i \in 1 .. Len(q) PROVE Tail(m \o q)[i] = q[i]
    <3>1. /\ i \in 1 .. Len(m \o q) - 1 /\ i + 1 \in 1 .. 1 + Len(q)
          /\ ~(i + 1 <= 1) /\ i + 1 - 1 = i
      BY <2>2, <2>3
    <3> QED BY <3>1, <2>3, <2>5
  <2>9. Tail(m \o q) = q BY <1>1, <2>5, <2>7, <2>8, SeqEqual
  <2> QED BY <2>4, <2>5, <2>6, <2>9 DEF m
<1> QED BY <1>2, <1>3 DEF Posted, InBuffer

(* An executor that has not ended is served, unless it is alone.           *)
LEMMA Busy ==
  ASSUME NEW e \in Executor, NEW f \in Executor, e # f, DaemonOK(e),
         user[e].at # "ended"
  PROVE  daemon[e] = "serving" /\ told[e] = {}
BY DEF DaemonOK, Others

(* Nobody but who waits has an answer coming.                              *)
LEMMA NotWaiting ==
  ASSUME NEW e \in Executor, NEW f \in Executor, PairOK(e, f), ~Waits(e, f)
  PROVE  /\ \A i \in 1 .. Len(Posted(e, f)) : ~IsLoad(Posted(e, f)[i])
         /\ Handling(f) /\ p[f].from = e => ~(sent[f] < ChunksOf[p[f].op])
         /\ answer[f][e] = << >>
BY DEF PairOK, PostedOK, HandledOK, AnswerOK, Awaited

(* The peers of an executor are finitely many.                             *)
LEMMA PeersFinite ==
  ASSUME NEW e \in Executor
  PROVE  /\ IsFiniteSet(Peers(e)) /\ Cardinality(Peers(e)) \in Nat
         /\ Cardinality(Peers(e)) <= Cardinality(Executor) - 1
         /\ Cardinality(Peers(e)) = 0 <=> Peers(e) = {}
<1>1. IsFiniteSet(Executor) BY EndpointAssumption
<1>2. IsFiniteSet(Others(e)) /\ Cardinality(Others(e)) = Cardinality(Executor) - 1
  BY <1>1, FS_RemoveElement DEF Others
<1>3. IsFiniteSet(Peers(e)) /\ Cardinality(Peers(e)) <= Cardinality(Others(e))
  BY <1>2, FS_Subset DEF Peers
<1> QED BY <1>2, <1>3, FS_CardinalityType, FS_EmptySet

-----------------------------------------------------------------------------
(* Steps: what they leave alone *)

LEMMA PostedKept ==
  ASSUME NEW e, NEW f, rx'[f] = rx[f], p'[f] = p[f], request'[e][f] = request[e][f]
  PROVE  Posted(e, f)' = Posted(e, f)
BY DEF Posted, InBuffer

(* A pair is kept by a step of other executors, and by a step of e that    *)
(* has nothing to do with waiting for f.                                   *)
LEMMA PairKept ==
  ASSUME NEW e \in Executor, NEW f \in Executor, PairOK(e, f),
         Posted(e, f)' = Posted(e, f), told[e] \subseteq told'[e],
         answer'[f][e] = answer[f][e],
         \/ user'[e] = user[e] /\ made'[e] = made[e] /\ got'[e] = got[e]
         \/ ~Waits(e, f) /\ ~Waits(e, f)',
         Handling(f)' /\ p'[f].from = e =>
             Handling(f) /\ sent'[f] = sent[f] /\ p'[f] = p[f]
  PROVE  PairOK(e, f)'
<1>1. CASE user'[e] = user[e] /\ made'[e] = made[e] /\ got'[e] = got[e]
  <2>1. /\ Stream(e, f)' = Stream(e, f)
        /\ Waits(e, f)' <=> Waits(e, f)
    BY <1>1 DEF Stream, Waits
  <2>2. ASSUME NEW m PROVE Awaited(e, f, m)' <=> Awaited(e, f, m)
    BY <1>1, <2>1 DEF Awaited
  <2>3. PostedOK(e, f)' BY <2>1, <2>2 DEF PairOK, PostedOK
  <2>4. HandledOK(e, f)' BY <2>1, <2>2 DEF PairOK, HandledOK, Awaited, Waits, Handling
  <2>5. AnswerOK(e, f)' BY <1>1, <2>1 DEF PairOK, AnswerOK
  <2> QED BY <2>3, <2>4, <2>5 DEF PairOK
<1>2. CASE ~Waits(e, f) /\ ~Waits(e, f)'
  <2>1. /\ \A i \in 1 .. Len(Posted(e, f)) : ~IsLoad(Posted(e, f)[i])
        /\ Handling(f) /\ p[f].from = e => ~(sent[f] < ChunksOf[p[f].op])
        /\ answer[f][e] = << >>
    BY <1>2, NotWaiting
  <2>2. PostedOK(e, f)' BY <2>1 DEF PairOK, PostedOK
  <2>3. HandledOK(e, f)' BY <2>1 DEF PairOK, HandledOK, Handling
  <2>4. AnswerOK(e, f)' BY <1>2, <2>1 DEF AnswerOK
  <2> QED BY <2>2, <2>3, <2>4 DEF PairOK
<1> QED BY <1>1, <1>2

LEMMA LocalsKept ==
  ASSUME NEW e \in Executor, UserOK(e), DaemonOK(e),
         user'[e] = user[e], made'[e] = made[e], got'[e] = got[e],
         daemon'[e] = daemon[e], told'[e] = told[e],
         Handling(e)' => rx'[e] = "taken"
  PROVE  UserOK(e)' /\ DaemonOK(e)'
BY DEF UserOK, DaemonOK

(* Peers only depends on who has been told and on which links hold a       *)
(* DMN_END.                                                                *)
LEMMA SamePeers ==
  ASSUME NEW e \in Executor,
         \A f \in Others(e) :
            (e \notin told'[f] \/ HasEnd(Posted(f, e)')) <=>
            (e \notin told[f] \/ HasEnd(Posted(f, e)))
  PROVE  Peers(e)' = Peers(e)
BY DEF Peers, Others

LEMMA CountsKept ==
  ASSUME Counts, cnt' = cnt, told' = told,
         \A e, f \in Executor : Posted(e, f)' = Posted(e, f)
  PROVE  Counts'
<1>1. ASSUME NEW e \in Executor PROVE Peers(e)' = Peers(e)
  BY SamePeers DEF Others
<1> QED BY <1>1 DEF Counts

(* Steps that only move a user thread between places where it does not     *)
(* wait, or a daemon between its loops                                     *)
LEMMA QuietKeeps ==
  ASSUME IInv, TypeOK', UNCHANGED <<got, cnt, told, rx, p, sent, request, answer>>,
         \A e \in Executor :
            \/ user'[e] = user[e] /\ made'[e] = made[e]
            \/ user[e].at # "rx" /\ user'[e].at # "rx",
         \A e \in Executor : UserOK(e)' /\ DaemonOK(e)'
  PROVE  IInv'
<1>0. Pairs /\ Counts BY DEF IInv
<1>1. ASSUME NEW e \in Executor, NEW f \in Executor
      PROVE  Posted(e, f)' = Posted(e, f)
  BY PostedKept
<1>2. ASSUME NEW e \in Executor, NEW f \in Executor PROVE PairOK(e, f)'
  <2>1. PairOK(e, f) BY <1>0 DEF Pairs
  <2>2. \/ user'[e] = user[e] /\ made'[e] = made[e] /\ got'[e] = got[e]
        \/ ~Waits(e, f) /\ ~Waits(e, f)'
    BY DEF Waits
  <2>3. Handling(f)' /\ p'[f].from = e =>
            Handling(f) /\ sent'[f] = sent[f] /\ p'[f] = p[f]
    BY DEF Handling
  <2> QED BY <1>1, <2>1, <2>2, <2>3, PairKept
<1>3. Pairs' BY <1>2 DEF Pairs
<1>4. Counts' BY <1>0, <1>1, CountsKept
<1> QED BY <1>3, <1>4 DEF IInv, Locals

LEMMA PlaceFacts ==
  /\ At("running") \in Place /\ At("ended") \in Place
  /\ \A w \in {"tx", "rx"}, f \in Executor, op \in Op : In(w, f, op) \in Place
BY DEF Place

LEMMA CallKeeps ==
  ASSUME IInv, NEW e \in Executor, NEW f \in Executor, NEW op \in Op, Call(e, f, op)
  PROVE  IInv'
<1>0. TypeOK /\ Locals BY DEF IInv
<1>1. /\ user[e].at = "running" /\ f # e /\ made[e] < MaxRequests
      /\ made' = [made EXCEPT ![e] = @ + 1]
      /\ user' = [user EXCEPT ![e] = In("tx", f, op)]
      /\ UNCHANGED <<got, daemon, cnt, told, rx, p, sent, request, answer>>
  BY DEF Call, daemonVars
<1>2. user \in [Executor -> Place] /\ made \in [Executor -> 0 .. MaxRequests]
  BY <1>0 DEF TypeOK
<1>3. made[e] + 1 \in 0 .. MaxRequests BY <1>1, <1>2, EndpointAssumption
<1>4. /\ user' \in [Executor -> Place] /\ made' \in [Executor -> 0 .. MaxRequests]
      /\ user'[e] = In("tx", f, op) /\ made'[e] = made[e] + 1
      /\ \A g \in Executor : g # e => user'[g] = user[g] /\ made'[g] = made[g]
  BY <1>1, <1>2, <1>3, PlaceFacts
<1>5. TypeOK' BY <1>0, <1>1, <1>4 DEF TypeOK
<1>6. user'[e].at = "tx" /\ user'[e].peer = f BY <1>4, Fields
<1>7. ASSUME NEW g \in Executor PROVE UserOK(g)' /\ DaemonOK(g)'
  <2>1. UserOK(g) /\ DaemonOK(g) BY <1>0 DEF Locals
  <2>2. CASE g # e
    BY <2>1, <2>2, <1>1, <1>4 DEF UserOK, DaemonOK, Handling
  <2>3. CASE g = e
    <3>1. daemon[e] = "serving" BY <2>1, <2>3, <1>1, Busy
    <3>2. made'[e] >= 1 BY <1>2, <1>4
    <3>3. got'[e] = << >> BY <2>1, <2>3, <1>1 DEF UserOK
    <3>4. UserOK(e)' BY <3>2, <3>3, <1>1, <1>6 DEF UserOK
    <3>5. DaemonOK(e)' BY <2>1, <2>3, <3>1, <1>1 DEF DaemonOK, Handling
    <3> QED BY <2>3, <3>4, <3>5
  <2> QED BY <2>2, <2>3
<1>8. \A g \in Executor : \/ user'[g] = user[g] /\ made'[g] = made[g]
                          \/ user[g].at # "rx" /\ user'[g].at # "rx"
  BY <1>1, <1>4, <1>6
<1> QED BY <1>1, <1>5, <1>7, <1>8, QuietKeeps

LEMMA EndKeeps ==
  ASSUME IInv, NEW e \in Executor, End(e)
  PROVE  IInv'
<1>0. TypeOK /\ Locals BY DEF IInv
<1>1. /\ user[e].at = "running" /\ user' = [user EXCEPT ![e] = At("ended")]
      /\ UNCHANGED <<made, got, daemon, cnt, told, rx, p, sent, request, answer>>
  BY DEF End, daemonVars
<1>2. user \in [Executor -> Place] BY <1>0 DEF TypeOK
<1>3. /\ user' \in [Executor -> Place] /\ user'[e] = At("ended")
      /\ \A g \in Executor : g # e => user'[g] = user[g]
  BY <1>1, <1>2, PlaceFacts
<1>4. TypeOK' BY <1>0, <1>1, <1>3 DEF TypeOK
<1>5. user'[e].at = "ended" BY <1>3, Fields
<1>6. ASSUME NEW g \in Executor PROVE UserOK(g)' /\ DaemonOK(g)'
  <2>1. UserOK(g) /\ DaemonOK(g) BY <1>0 DEF Locals
  <2>2. CASE g # e BY <2>1, <2>2, <1>1, <1>3 DEF UserOK, DaemonOK, Handling
  <2>3. CASE g = e BY <2>1, <2>3, <1>1, <1>5 DEF UserOK, DaemonOK, Handling
  <2> QED BY <2>2, <2>3
<1>7. \A g \in Executor : \/ user'[g] = user[g] /\ made'[g] = made[g]
                          \/ user[g].at # "rx" /\ user'[g].at # "rx"
  BY <1>1, <1>3, <1>5
<1> QED BY <1>1, <1>4, <1>6, <1>7, QuietKeeps

(* A daemon leaves a loop.                                                 *)
LEMMA LoopKeeps ==
  ASSUME IInv, NEW e \in Executor, Leave(e) \/ Exit(e)
  PROVE  IInv'
<1>0. TypeOK /\ Locals BY DEF IInv
<1>1. /\ UNCHANGED <<user, made, got, cnt, told, rx, p, sent, request, answer>>
      /\ user[e].at = "ended" \/ Others(e) = {}
      /\ \/ daemon' = [daemon EXCEPT ![e] = "leaving"]
         \/ daemon' = [daemon EXCEPT ![e] = "done"] /\ told[e] = Others(e)
  <2>1. DaemonOK(e) BY <1>0 DEF Locals
  <2> QED BY <2>1 DEF Leave, Exit, userVars, DaemonOK
<1>2. /\ daemon' \in [Executor -> {"serving", "leaving", "done"}]
      /\ daemon'[e] = "leaving" \/ (daemon'[e] = "done" /\ told[e] = Others(e))
      /\ \A g \in Executor : g # e => daemon'[g] = daemon[g]
  BY <1>0, <1>1 DEF TypeOK
<1>3. TypeOK' BY <1>0, <1>1, <1>2 DEF TypeOK
<1>4. ASSUME NEW g \in Executor PROVE UserOK(g)' /\ DaemonOK(g)'
  <2>1. UserOK(g) /\ DaemonOK(g) BY <1>0 DEF Locals
  <2>2. UserOK(g)' BY <2>1, <1>1 DEF UserOK
  <2>3. DaemonOK(g)' BY <2>1, <1>1, <1>2 DEF DaemonOK, Handling
  <2> QED BY <2>2, <2>3
<1> QED BY <1>1, <1>3, <1>4, QuietKeeps

-----------------------------------------------------------------------------
(* Steps of the provider and of a daemon in its loop *)

(* What the links of e held is now in its buffer: nothing else changes.    *)
LEMMA DeliverPosts ==
  ASSUME IInv, NEW e \in Executor, NEW f \in Executor, Deliver(e, f)
  PROVE  /\ TypeOK' /\ ~Handling(e) /\ ~Handling(e)'
         /\ \A g \in Executor : g # e => p'[g] = p[g] /\ rx'[g] = rx[g]
         /\ \A g, h \in Executor : Posted(g, h)' = Posted(g, h)
<1> DEFINE q == request[f][e]
<1>0. TypeOK /\ Pairs /\ Locals BY DEF IInv
<1>1. /\ rx[e] = "posted" /\ q # << >>
      /\ p' = [p EXCEPT ![e] = Head(q)]
      /\ request' = [request EXCEPT ![f][e] = Tail(q)]
      /\ rx' = [rx EXCEPT ![e] = "complete"]
      /\ UNCHANGED <<user, made, got, daemon, cnt, told, sent, answer>>
  BY DEF Deliver, userVars
<1>2. /\ q \in Seq(Message) /\ Head(q) \in Message /\ Head(q) = q[1]
      /\ Tail(q) \in Seq(Message) /\ Len(q) \in Nat /\ Len(q) # 0
  <2>1. q \in Seq(Message) BY <1>0, PairFacts
  <2> QED BY <2>1, <1>1, SeqFacts
<1>3. Head(q).from = f
  <2>1. Posted(f, e) = q BY <1>0, <1>1, PostedIs
  <2>2. PostedOK(f, e) BY <1>0 DEF Pairs, PairOK
  <2>3. 1 \in 1 .. Len(q) BY <1>2
  <2> QED BY <2>1, <2>2, <2>3, <1>2 DEF PostedOK
<1>4. /\ p' \in [Executor -> Message] /\ p'[e] = Head(q)
      /\ \A g \in Executor : g # e => p'[g] = p[g]
  <2>1. p \in [Executor -> Message] BY <1>0 DEF TypeOK
  <2> QED BY <2>1, <1>1, <1>2
<1>5. /\ request' \in [Executor -> [Executor -> Seq(Message)]]
      /\ request'[f][e] = Tail(q)
      /\ \A g, h \in Executor : g # f \/ h # e => request'[g][h] = request[g][h]
  <2>1. request \in [Executor -> [Executor -> Seq(Message)]] BY <1>0 DEF TypeOK
  <2> QED BY <2>1, <1>1, <1>2
<1>6. /\ rx' \in [Executor -> {"posted", "complete", "taken"}]
      /\ rx'[e] = "complete" /\ \A g \in Executor : g # e => rx'[g] = rx[g]
  <2>1. rx \in [Executor -> {"posted", "complete", "taken"}] BY <1>0 DEF TypeOK
  <2> QED BY <2>1, <1>1
<1>7. TypeOK' BY <1>0, <1>1, <1>4, <1>5, <1>6 DEF TypeOK
<1> HIDE DEF q
<1>8. ASSUME NEW g \in Executor, NEW h \in Executor
      PROVE  Posted(g, h)' = Posted(g, h)
  <2>1. CASE h # e BY <2>1, <1>4, <1>5, <1>6, PostedKept
  <2>2. CASE h = e /\ g # f
    <3>1. InBuffer(g, h) = << >> /\ InBuffer(g, h)' = << >>
      BY <2>2, <1>1, <1>3, <1>4, <1>6 DEF InBuffer
    <3>2. request'[g][h] = request[g][h] BY <2>2, <1>5
    <3> QED BY <3>1, <3>2 DEF Posted
  <2>3. CASE h = e /\ g = f
    <3>1. InBuffer(f, e) = << >> /\ InBuffer(f, e)' = <<Head(q)>>
      BY <1>1, <1>3, <1>4, <1>6 DEF InBuffer
    <3>2. <<Head(q)>> = Append(<< >>, Head(q)) OBVIOUS
    <3>3. Append(<< >>, Head(q)) \o Tail(q) = << >> \o q
      BY <1>1, <1>2, EmptySequence, Handover
    <3>4. Posted(f, e)' = <<Head(q)>> \o Tail(q) BY <3>1, <1>5 DEF Posted
    <3>5. Posted(f, e) = << >> \o q BY <3>1 DEF Posted, q
    <3> QED BY <2>3, <3>2, <3>3, <3>4, <3>5
  <2> QED BY <2>1, <2>2, <2>3
<1>9. ~Handling(e) /\ ~Handling(e)'
  <2>1. DaemonOK(e) BY <1>0 DEF Locals
  <2> QED BY <2>1, <1>1 DEF DaemonOK, Handling
<1> QED BY <1>4, <1>6, <1>7, <1>8, <1>9

(* The buffer is lent again.                                               *)
LEMMA LendPosts ==
  ASSUME IInv, NEW e \in Executor, Lend(e)
  PROVE  /\ TypeOK' /\ ~Handling(e)'
         /\ \A g \in Executor : g # e => rx'[g] = rx[g] /\ sent'[g] = sent[g]
         /\ \A g, h \in Executor : Posted(g, h)' = Posted(g, h)
<1>0. TypeOK /\ Locals BY DEF IInv
<1>1. /\ Handling(e) /\ rx' = [rx EXCEPT ![e] = "posted"]
      /\ sent' = [sent EXCEPT ![e] = Idle]
      /\ UNCHANGED <<user, made, got, daemon, cnt, told, p, request, answer>>
  BY DEF Lend, userVars
<1>2. rx[e] = "taken" BY <1>0, <1>1 DEF Locals, DaemonOK
<1>3. /\ rx' \in [Executor -> {"posted", "complete", "taken"}]
      /\ rx'[e] = "posted" /\ \A g \in Executor : g # e => rx'[g] = rx[g]
  BY <1>0, <1>1 DEF TypeOK
<1>4. /\ sent' \in [Executor -> 0 .. Idle] /\ sent'[e] = Idle
      /\ \A g \in Executor : g # e => sent'[g] = sent[g]
  <2>1. sent \in [Executor -> 0 .. Idle] BY <1>0 DEF TypeOK
  <2>2. Idle \in 0 .. Idle BY EndpointAssumption DEF Idle
  <2> QED BY <2>1, <2>2, <1>1
<1>5. TypeOK' BY <1>0, <1>1, <1>3, <1>4 DEF TypeOK
<1>6. ASSUME NEW g \in Executor, NEW h \in Executor
      PROVE  Posted(g, h)' = Posted(g, h)
  <2>1. InBuffer(g, h)' = InBuffer(g, h) BY <1>1, <1>2, <1>3 DEF InBuffer
  <2> QED BY <2>1, <1>1 DEF Posted
<1>7. ~Handling(e)' BY <1>4 DEF Handling
<1> QED BY <1>3, <1>4, <1>5, <1>6, <1>7

LEMMA BufferKeeps ==
  ASSUME IInv, NEW e \in Executor,
         Lend(e) \/ \E f \in Executor : Deliver(e, f)
  PROVE  IInv'
<1>0. Pairs /\ Locals /\ Counts BY DEF IInv
<1>1. UNCHANGED <<user, made, got, daemon, cnt, told, answer>>
  BY DEF Lend, Deliver, userVars
<1>2. /\ TypeOK' /\ ~Handling(e)'
      /\ \A g \in Executor : g # e => p'[g] = p[g] /\ rx'[g] = rx[g] /\ sent'[g] = sent[g]
      /\ \A g, h \in Executor : Posted(g, h)' = Posted(g, h)
  <2>1. CASE Lend(e)
    <3>1. p' = p BY <2>1 DEF Lend
    <3> QED BY <2>1, <3>1, LendPosts
  <2>2. ASSUME NEW f \in Executor, Deliver(e, f)
        PROVE  /\ TypeOK' /\ ~Handling(e)'
               /\ \A g \in Executor : g # e =>
                      p'[g] = p[g] /\ rx'[g] = rx[g] /\ sent'[g] = sent[g]
               /\ \A g, h \in Executor : Posted(g, h)' = Posted(g, h)
    <3>1. sent' = sent BY <2>2 DEF Deliver
    <3> QED BY <2>2, <3>1, DeliverPosts
  <2> QED BY <2>1, <2>2
<1>3. ASSUME NEW g \in Executor, NEW h \in Executor PROVE PairOK(g, h)'
  <2>1. PairOK(g, h) BY <1>0 DEF Pairs
  <2>2. Handling(h)' => Handling(h) /\ sent'[h] = sent[h] /\ p'[h] = p[h]
    BY <1>2 DEF Handling
  <2> QED BY <2>1, <2>2, <1>1, <1>2, PairKept
<1>4. ASSUME NEW g \in Executor PROVE UserOK(g)' /\ DaemonOK(g)'
  <2>1. UserOK(g) /\ DaemonOK(g) BY <1>0 DEF Locals
  <2>2. Handling(g)' => rx'[g] = "taken" BY <2>1, <1>2 DEF DaemonOK, Handling
  <2> QED BY <2>1, <2>2, <1>1, LocalsKept
<1>5. Counts' BY <1>0, <1>1, <1>2, CountsKept
<1>6. Pairs' /\ Locals' BY <1>3, <1>4 DEF Pairs, Locals
<1> QED BY <1>2, <1>5, <1>6 DEF IInv

(* A chunk goes to who asked, who waits for just that one.                 *)
LEMMA AnswerTxKeeps ==
  ASSUME IInv, NEW e \in Executor, AnswerTx(e)
  PROVE  IInv'
<1>0. TypeOK /\ Pairs /\ Locals /\ Counts BY DEF IInv
<1>f. PICK f \in Executor : f = p[e].from
  <2>1. p[e] \in Message BY <1>0 DEF TypeOK
  <2> QED BY <2>1, MessageFacts
<1> DEFINE m == [nr |-> p[e].nr, i |-> sent[e] + 1]
           s == answer[e][f]
<1>1. /\ Handling(e) /\ sent[e] < ChunksOf[p[e].op]
      /\ answer' = [answer EXCEPT ![e][f] = Append(s, m)]
      /\ sent' = [sent EXCEPT ![e] = @ + 1]
      /\ UNCHANGED <<user, made, got, daemon, cnt, told, rx, p, request>>
  BY <1>f DEF AnswerTx, Tx, userVars
<1>2. /\ p[e] \in Message
      /\ ChunksOf[p[e].op] \in Nat /\ ChunksOf[p[e].op] <= LoadChunks
      /\ sent[e] \in Nat
  <2>1. p[e] \in Message /\ sent[e] \in 0 .. Idle BY <1>0 DEF TypeOK
  <2> QED BY <2>1, MessageFacts DEF Idle
<1>3. PairOK(f, e) /\ UserOK(f) BY <1>0, <1>2 DEF Pairs, Locals
<1>4. /\ Waits(f, e) /\ user[f].op = p[e].op /\ made[f] = p[e].nr
      /\ Len(Stream(f, e)) = sent[e] /\ Posted(f, e) = << >>
  BY <1>f, <1>1, <1>3 DEF PairOK, HandledOK, Awaited
<1>5. /\ s \in Seq(Chunk) /\ got[f] \in Seq(Chunk) /\ Stream(f, e) \in Seq(Chunk)
  BY <1>0, <1>2, PairFacts
<1>20. sent[e] \in Nat /\ LoadChunks \in Nat /\ sent[e] + 1 <= LoadChunks
  <2>1. sent[e] < ChunksOf[p[e].op] BY <1>1
  <2> HIDE DEF Idle
  <2> QED BY <2>1, <1>2, EndpointAssumption
<1>6. m \in Chunk
  <2>1. made[f] \in 0 .. MaxRequests /\ made[f] >= 1
    BY <1>0, <1>2, <1>3, <1>4 DEF TypeOK, UserOK, Waits
  <2>2. sent[e] + 1 \in 1 .. LoadChunks BY <1>20
  <2>3. p[e].nr \in 1 .. MaxRequests BY <2>1, <1>4, EndpointAssumption
  <2> QED BY <2>2, <2>3 DEF Chunk
<1> HIDE DEF m, s
<1>7. Append(s, m) \in Seq(Chunk) BY <1>5, <1>6, AppendProperties
<1>8. /\ answer' \in [Executor -> [Executor -> Seq(Chunk)]]
      /\ answer'[e][f] = Append(s, m)
      /\ \A g, h \in Executor : g # e \/ h # f => answer'[g][h] = answer[g][h]
  <2>1. answer \in [Executor -> [Executor -> Seq(Chunk)]] BY <1>0 DEF TypeOK
  <2> QED BY <2>1, <1>1, <1>2, <1>7
<1>9. /\ sent' \in [Executor -> 0 .. Idle] /\ sent'[e] = sent[e] + 1
      /\ \A g \in Executor : g # e => sent'[g] = sent[g]
  <2>1. sent \in [Executor -> 0 .. Idle] BY <1>0 DEF TypeOK
  <2>2. sent[e] + 1 \in 0 .. Idle BY <1>20 DEF Idle
  <2> QED BY <2>1, <2>2, <1>1
<1>10. TypeOK' BY <1>0, <1>1, <1>8, <1>9 DEF TypeOK
<1>11. ASSUME NEW g \in Executor, NEW h \in Executor
       PROVE  Posted(g, h)' = Posted(g, h)
  BY <1>1, PostedKept
<1>12. Stream(f, e)' = Append(Stream(f, e), m)
  <2>1. Stream(f, e)' = got[f] \o Append(s, m) BY <1>1, <1>8 DEF Stream
  <2>2. Stream(f, e) = got[f] \o s BY DEF Stream, s
  <2>3. got[f] \o Append(s, m) = Append(got[f] \o s, m)
    <3>1. got[f] \in Seq(Chunk) /\ s \in Seq(Chunk) BY <1>5
    <3>2. \A a, b \in Seq(Chunk), c \in Chunk : a \o Append(b, c) = Append(a \o b, c)
      BY AppendRight
    <3> QED BY <3>1, <3>2, <1>6
  <2> QED BY <2>1, <2>2, <2>3
<1>13. /\ Len(Stream(f, e)') = sent[e] + 1
       /\ Stream(f, e)'[sent[e] + 1] = m
       /\ \A i \in 1 .. sent[e] : Stream(f, e)'[i] = Stream(f, e)[i]
  BY <1>4, <1>5, <1>6, <1>12, AppendProperties
<1>14. PairOK(f, e)'
  <2>1. Posted(f, e)' = << >> BY <1>2, <1>4, <1>11
  <2>2. PostedOK(f, e)' BY <2>1, EmptySequence DEF PostedOK
  <2>3. Waits(f, e)' BY <1>1, <1>4 DEF Waits
  <2>4. Awaited(f, e, p[e])' BY <2>3, <1>1, <1>4 DEF Awaited
  <2>5. HandledOK(f, e)'
    <3>1. sent'[e] <= ChunksOf[p[e].op] BY <1>1, <1>2, <1>9
    <3>2. Awaited(f, e, p[e])' /\ p' = p BY <2>4, <1>1
    <3>3. Len(Stream(f, e)') = sent'[e] BY <1>9, <1>13
    <3> QED BY <3>1, <3>2, <3>3, <2>1, <1>f DEF HandledOK
  <2>6. AnswerOK(f, e)'
    <3>1. \A i \in 1 .. sent[e] : Stream(f, e)[i] = [nr |-> made[f], i |-> i]
      BY <1>3, <1>4 DEF PairOK, AnswerOK
    <3>5. user' = user /\ made' = made BY <1>1
    <3>2. m = [nr |-> made[f], i |-> sent[e] + 1] BY <1>4 DEF m
    <3>3. \A i \in 1 .. sent[e] + 1 : Stream(f, e)'[i] = [nr |-> made[f], i |-> i]
      <4> TAKE i \in 1 .. sent[e] + 1
      <4>1. i \in 1 .. sent[e] \/ i = sent[e] + 1 BY <1>2
      <4> QED BY <4>1, <3>1, <3>2, <1>13
    <3>4. Len(Stream(f, e)') <= ChunksOf[user[f].op] BY <1>1, <1>2, <1>4, <1>13
    <3> QED BY <3>3, <3>4, <3>5, <2>3, <1>13 DEF AnswerOK
  <2> QED BY <2>2, <2>5, <2>6 DEF PairOK
<1>15. ASSUME NEW g \in Executor, NEW h \in Executor, g # f \/ h # e
       PROVE  PairOK(g, h)'
  <2>1. PairOK(g, h) BY <1>0 DEF Pairs
  <2>2. Handling(h)' /\ p'[h].from = g =>
            Handling(h) /\ sent'[h] = sent[h] /\ p'[h] = p[h]
    BY <1>f, <1>15, <1>1, <1>9 DEF Handling
  <2>3. answer'[h][g] = answer[h][g] BY <1>15, <1>8
  <2>4. UNCHANGED <<user, made, got, told>> BY <1>1
  <2> QED BY <2>1, <2>2, <2>3, <2>4, <1>11, PairKept
<1>16. Pairs' BY <1>14, <1>15 DEF Pairs
<1>17. ASSUME NEW g \in Executor PROVE UserOK(g)' /\ DaemonOK(g)'
  <2>1. UserOK(g) /\ DaemonOK(g) BY <1>0 DEF Locals
  <2>2. Handling(g)' => rx'[g] = "taken"
    BY <2>1, <1>1, <1>9 DEF DaemonOK, Handling
  <2> QED BY <2>1, <2>2, <1>1, LocalsKept
<1>18. Counts' BY <1>0, <1>1, <1>11, CountsKept
<1> QED BY <1>10, <1>16, <1>17, <1>18 DEF IInv, Locals

(* The request in the buffer is taken.  After a load its sender waits, and *)
(* after a DMN_END it is no longer counted.                                *)
LEMMA PollPosts ==
  ASSUME IInv, NEW e \in Executor, Poll(e)
  PROVE  \E f \in Executor, q \in Seq(Message) :
             /\ f = p[e].from /\ p[e] \in Message
             /\ q = Posted(f, e) /\ q # << >> /\ q[1] = p[e]
             /\ Posted(f, e)' = Tail(q)
             /\ \A g, h \in Executor :
                    g # f \/ h # e => Posted(g, h)' = Posted(g, h)
<1>0. TypeOK BY DEF IInv
<1>1. /\ rx[e] = "complete" /\ rx' = [rx EXCEPT ![e] = "taken"]
      /\ UNCHANGED <<p, request>>
  BY DEF Poll
<1>2. p[e] \in Message BY <1>0 DEF TypeOK
<1>3. PICK f \in Executor : f = p[e].from BY <1>2, MessageFacts
<1> DEFINE q == Posted(f, e)
<1>4. /\ q \in Seq(Message) /\ q # << >> /\ Head(q) = p[e]
      /\ Tail(q) = request[f][e]
  BY <1>0, <1>1, <1>3, PairFacts, PostedIs
<1> HIDE DEF q
<1>5. q[1] = p[e] BY <1>4, SeqFacts
<1>6. rx'[e] = "taken" /\ \A g \in Executor : g # e => rx'[g] = rx[g]
  BY <1>0, <1>1 DEF TypeOK
<1>7. Posted(f, e)' = Tail(q)
  <2>1. InBuffer(f, e)' = << >> BY <1>6 DEF InBuffer
  <2>2. Posted(f, e)' = << >> \o request[f][e] BY <2>1, <1>1 DEF Posted
  <2>3. request[f][e] \in Seq(Message) BY <1>0, PairFacts
  <2>4. << >> \o request[f][e] = request[f][e] BY <2>3, ConcatEmptySeq
  <2> QED BY <2>2, <2>4, <1>4
<1>8. ASSUME NEW g \in Executor, NEW h \in Executor, g # f \/ h # e
      PROVE  Posted(g, h)' = Posted(g, h)
  <2>1. CASE h # e BY <2>1, <1>1, <1>6, PostedKept
  <2>2. CASE h = e
    <3>1. InBuffer(g, h)' = << >> /\ InBuffer(g, h) = << >>
      BY <2>2, <1>3, <1>6, <1>8 DEF InBuffer
    <3> QED BY <3>1, <1>1 DEF Posted
  <2> QED BY <2>1, <2>2
<1> QED BY <1>2, <1>3, <1>4, <1>5, <1>7, <1>8 DEF q

LEMMA PollKeeps ==
  ASSUME IInv, NEW e \in Executor, Poll(e)
  PROVE  IInv'
<1>0. TypeOK /\ Pairs /\ Locals /\ Counts BY DEF IInv
<1>1. /\ ~Handling(e) /\ rx' = [rx EXCEPT ![e] = "taken"]
      /\ sent' = [sent EXCEPT ![e] = 0]
      /\ cnt' = [cnt EXCEPT ![e] = CntAfter(e, p[e].op)]
      /\ UNCHANGED <<user, made, got, daemon, told, p, request, answer>>
  BY DEF Poll, userVars
<1>2. PICK f \in Executor, q \in Seq(Message) :
        /\ f = p[e].from /\ p[e] \in Message
        /\ q = Posted(f, e) /\ q # << >> /\ q[1] = p[e]
        /\ Posted(f, e)' = Tail(q)
        /\ \A g, h \in Executor : g # f \/ h # e => Posted(g, h)' = Posted(g, h)
  BY PollPosts
<1>3. q = Posted(f, e) BY <1>2
<1>4. /\ p[e] \in Message /\ q # << >> /\ q[1] = p[e]
      /\ Posted(f, e)' = Tail(q)
      /\ \A g, h \in Executor : g # f \/ h # e => Posted(g, h)' = Posted(g, h)
  BY <1>2
<1>5. /\ Len(q) \in Nat /\ Len(q) # 0 /\ Tail(q) \in Seq(Message)
      /\ Len(Tail(q)) = Len(q) - 1
      /\ \A i \in 1 .. Len(q) - 1 : Tail(q)[i] = q[i + 1]
  BY <1>4, SeqFacts
<1>6. 1 \in 1 .. Len(q) BY <1>5
<1>7. /\ \A i \in 1 .. Len(q) : /\ q[i].from = f /\ f # e
                                /\ q[i].op = "DMN_END" => i = Len(q) /\ e \in told[f]
      /\ \A i \in 1 .. Len(q) : IsLoad(q[i]) =>
             i = Len(q) /\ Awaited(f, e, q[i]) /\ Stream(f, e) = << >>
  BY <1>0, <1>3 DEF Pairs, PairOK, PostedOK
<1>8. /\ rx' \in [Executor -> {"posted", "complete", "taken"}] /\ rx'[e] = "taken"
      /\ \A g \in Executor : g # e => rx'[g] = rx[g]
  BY <1>0, <1>1 DEF TypeOK
<1>9. /\ sent' \in [Executor -> 0 .. Idle] /\ sent'[e] = 0
      /\ \A g \in Executor : g # e => sent'[g] = sent[g]
  <2>1. sent \in [Executor -> 0 .. Idle] BY <1>0 DEF TypeOK
  <2>2. 0 \in 0 .. Idle BY EndpointAssumption DEF Idle
  <2> QED BY <2>1, <2>2, <1>1
<1>10. \A g, h \in Executor : Stream(g, h)' = Stream(g, h) BY <1>1 DEF Stream
<1>11. PairOK(f, e)'
  <2>1. ASSUME NEW i \in 1 .. Len(Tail(q))
        PROVE  i + 1 \in 1 .. Len(q) /\ Tail(q)[i] = q[i + 1]
               /\ (i + 1 = Len(q) => i = Len(Tail(q)))
    <3>1. Len(q) \in Nat /\ Len(Tail(q)) = Len(q) - 1 BY <1>5
    <3>2. i \in 1 .. Len(q) - 1 BY <3>1
    <3>3. Tail(q)[i] = q[i + 1] BY <3>2, <1>5
    <3>4. i + 1 \in 1 .. Len(q) /\ (i + 1 = Len(q) => i = Len(q) - 1)
      BY <3>1, <3>2
    <3> QED BY <3>1, <3>3, <3>4
  <2>2. ASSUME NEW m PROVE Awaited(f, e, m) => Awaited(f, e, m)'
    BY <1>1 DEF Awaited, Waits
  <2>3. \A i \in 1 .. Len(Tail(q)) :
            /\ Tail(q)[i].from = f /\ f # e
            /\ Tail(q)[i].op = "DMN_END" => i = Len(Tail(q)) /\ e \in told[f]
            /\ IsLoad(Tail(q)[i]) => /\ i = Len(Tail(q))
                                     /\ Awaited(f, e, Tail(q)[i])
                                     /\ Stream(f, e) = << >>
    <3> TAKE i \in 1 .. Len(Tail(q))
    <3>1. i + 1 \in 1 .. Len(q) /\ Tail(q)[i] = q[i + 1]
          /\ (i + 1 = Len(q) => i = Len(Tail(q)))
      BY <2>1
    <3> QED BY <3>1, <1>7
  <2>4. PostedOK(f, e)'
    <3>1. \A i \in 1 .. Len(Tail(q)) : Awaited(f, e, Tail(q)[i]) =>
              Awaited(f, e, Tail(q)[i])'
      BY <2>2
    <3>2. told' = told /\ Stream(f, e)' = Stream(f, e) BY <1>1, <1>10
    <3>3. user' = user /\ made' = made BY <1>1
    <3> QED BY <3>2, <3>3, <2>3, <1>4 DEF PostedOK, Awaited, Waits
  <2>5. HandledOK(f, e)'
    <3>1. ChunksOf[p[e].op] \in Nat BY <1>4, MessageFacts
    <3>2. ASSUME 0 < ChunksOf[p[e].op]
          PROVE  /\ Awaited(f, e, p[e])' /\ Len(Stream(f, e)') = 0
                 /\ Posted(f, e)' = << >>
      <4>1. Len(q) = 1 /\ Awaited(f, e, p[e]) /\ Stream(f, e) = << >>
        BY <3>2, <1>4, <1>6, <1>7 DEF IsLoad
      <4>2. Tail(q) = << >>
        <5>1. Len(Tail(q)) = 0 /\ Tail(q) \in Seq(Message) BY <4>1, <1>5
        <5> QED BY <5>1, EmptySeq
      <4>3. Awaited(f, e, p[e])' BY <4>1, <1>1 DEF Awaited, Waits
      <4>4. Len(Stream(f, e)') = 0 BY <4>1, <1>10, EmptySequence
      <4> QED BY <4>2, <4>3, <4>4, <1>4
    <3>3. p' = p BY <1>1
    <3>4. 0 <= ChunksOf[p[e].op] BY <3>1
    <3> QED BY <3>2, <3>3, <3>4, <1>9 DEF HandledOK
  <2>6. AnswerOK(f, e)'
    <3>1. AnswerOK(f, e) BY <1>0 DEF Pairs, PairOK
    <3> QED BY <3>1, <1>1, <1>10 DEF AnswerOK, Waits
  <2> QED BY <2>4, <2>5, <2>6 DEF PairOK
<1>12. ASSUME NEW g \in Executor, NEW h \in Executor, g # f \/ h # e
       PROVE  PairOK(g, h)'
  <2>1. PairOK(g, h) BY <1>0 DEF Pairs
  <2>2. Handling(h)' /\ p'[h].from = g =>
            Handling(h) /\ sent'[h] = sent[h] /\ p'[h] = p[h]
    BY <1>2, <1>12, <1>1, <1>9 DEF Handling
  <2>3. UNCHANGED <<user, made, got, told, answer>> BY <1>1
  <2>4. Posted(g, h)' = Posted(g, h) BY <1>4, <1>12
  <2> QED BY <2>1, <2>2, <2>3, <2>4, PairKept
<1>13. Pairs' BY <1>11, <1>12 DEF Pairs
<1>14. ASSUME NEW g \in Executor PROVE UserOK(g)' /\ DaemonOK(g)'
  <2>1. UserOK(g) /\ DaemonOK(g) BY <1>0 DEF Locals
  <2>2. Handling(g)' => rx'[g] = "taken"
    BY <2>1, <1>8, <1>9 DEF DaemonOK, Handling
  <2> QED BY <2>1, <2>2, <1>1, LocalsKept
<1>15. ASSUME NEW g \in Executor, g # e PROVE Peers(g)' = Peers(g)
  BY <1>1, <1>4, <1>15, SamePeers DEF Others
<1>16. HasEnd(q) <=> HasEnd(Tail(q)) \/ p[e].op = "DMN_END"
  <2>1. ASSUME NEW i \in 1 .. Len(q), q[i].op = "DMN_END", i # 1 PROVE HasEnd(Tail(q))
    <3>1. i - 1 \in 1 .. Len(q) - 1 /\ i - 1 + 1 = i BY <2>1, <1>5
    <3>2. Tail(q)[i - 1] = q[i] BY <3>1, <1>5
    <3>3. i - 1 \in 1 .. Len(Tail(q)) BY <3>1, <1>5
    <3> QED BY <2>1, <3>2, <3>3 DEF HasEnd
  <2>2. ASSUME NEW i \in 1 .. Len(Tail(q)), Tail(q)[i].op = "DMN_END" PROVE HasEnd(q)
    <3>1. i + 1 \in 1 .. Len(q) /\ Tail(q)[i] = q[i + 1] BY <1>5
    <3> QED BY <2>2, <3>1 DEF HasEnd
  <2>3. p[e].op = "DMN_END" => HasEnd(q) BY <1>4, <1>6 DEF HasEnd
  <2>4. HasEnd(q) => HasEnd(Tail(q)) \/ p[e].op = "DMN_END"
    BY <2>1, <1>4 DEF HasEnd
  <2>5. HasEnd(Tail(q)) => HasEnd(q) BY <2>2 DEF HasEnd
  <2> QED BY <2>3, <2>4, <2>5
<1>17. /\ p[e].op = "DMN_END" => e \in told[f] /\ ~HasEnd(Tail(q))
       /\ f \in Others(e)
  <2>1. f # e BY <1>6, <1>7
  <2>2. ASSUME p[e].op = "DMN_END" PROVE e \in told[f] /\ ~HasEnd(Tail(q))
    <3>1. 1 = Len(q) /\ e \in told[f] BY <2>2, <1>4, <1>6, <1>7
    <3>2. Len(Tail(q)) = 0 BY <3>1, <1>5
    <3>3. 1 .. 0 = {} OBVIOUS
    <3> QED BY <3>1, <3>2, <3>3 DEF HasEnd
  <2> QED BY <2>1, <2>2 DEF Others
<1>18. Peers(e)' = IF p[e].op = "DMN_END" THEN Peers(e) \ {f} ELSE Peers(e)
  <2>1. ASSUME NEW g \in Others(e)
        PROVE  g \in Peers(e)' <=> g \in Peers(e) /\ (g = f => p[e].op # "DMN_END")
    <3>1. g \in Executor /\ told' = told BY <1>1 DEF Others
    <3>2. CASE g = f
      <4>1. HasEnd(Posted(f, e)') <=> HasEnd(Tail(q)) BY <1>4
      <4>2. g \in Peers(e)' <=> e \notin told[f] \/ HasEnd(Posted(f, e)')
        BY <3>1, <3>2 DEF Peers
      <4>3. g \in Peers(e) <=> e \notin told[f] \/ HasEnd(q)
        BY <3>1, <3>2, <1>3 DEF Peers
      <4> QED BY <4>1, <4>2, <4>3, <3>2, <1>16, <1>17
    <3>3. CASE g # f
      <4>1. HasEnd(Posted(g, e)') <=> HasEnd(Posted(g, e)) BY <3>1, <3>3, <1>4
      <4> QED BY <4>1, <3>1, <3>3 DEF Peers
    <3> QED BY <3>2, <3>3
  <2>2. Peers(e) \subseteq Others(e) /\ Peers(e)' \subseteq Others(e)
    BY DEF Peers, Others
  <2> QED BY <2>1, <2>2
<1>19. p[e].op = "DMN_END" => f \in Peers(e)
  BY <1>3, <1>16, <1>17 DEF Peers
<1>20. /\ cnt \in [Executor -> 0 .. Cardinality(Executor) - 1]
       /\ \A g \in Executor : g # e => cnt'[g] = cnt[g]
       /\ cnt'[e] = IF p[e].op = "DMN_END" THEN cnt[e] - 1 ELSE cnt[e]
  BY <1>0, <1>1 DEF TypeOK, CntAfter
<1>21. cnt[e] = Cardinality(Peers(e)) BY <1>0 DEF Counts
<1>22. Counts'
  <2>1. p[e].op = "DMN_END" => Cardinality(Peers(e) \ {f}) = Cardinality(Peers(e)) - 1
    BY <1>19, PeersFinite, FS_RemoveElement
  <2>2. cnt'[e] = Cardinality(Peers(e)') BY <2>1, <1>18, <1>20, <1>21
  <2>3. ASSUME NEW g \in Executor, g # e PROVE cnt'[g] = Cardinality(Peers(g)')
    BY <2>3, <1>0, <1>15, <1>20 DEF Counts
  <2> QED BY <2>2, <2>3 DEF Counts
<1>23. TypeOK'
  <2>1. p[e].op = "DMN_END" => cnt[e] # 0 BY <1>19, <1>21, PeersFinite
  <2>2. cnt'[e] \in 0 .. Cardinality(Executor) - 1
    <3>1. Cardinality(Executor) \in Nat BY FS_CardinalityType, EndpointAssumption
    <3>2. cnt[e] \in 0 .. Cardinality(Executor) - 1 BY <1>20
    <3> QED BY <3>1, <3>2, <2>1, <1>20
  <2>3. cnt' \in [Executor -> 0 .. Cardinality(Executor) - 1]
    BY <2>2, <1>1, <1>20
  <2> QED BY <2>3, <1>0, <1>1, <1>8, <1>9 DEF TypeOK
<1> QED BY <1>13, <1>14, <1>22, <1>23 DEF IInv, Locals

-----------------------------------------------------------------------------
(* Sends of requests, and receives of answers *)

(* A send adds to the end of one link.                                     *)
LEMMA TxPosts ==
  ASSUME TypeOK, NEW e \in Executor, NEW f \in Executor, NEW m \in Message,
         Tx(request, e, f, m), UNCHANGED <<rx, p>>
  PROVE  /\ request' \in [Executor -> [Executor -> Seq(Message)]]
         /\ Posted(e, f)' = Append(Posted(e, f), m)
         /\ \A g, h \in Executor : g # e \/ h # f => Posted(g, h)' = Posted(g, h)
<1> DEFINE q == request[e][f]
<1>1. request \in [Executor -> [Executor -> Seq(Message)]] BY DEF TypeOK
<1>2. q \in Seq(Message) /\ p[f] \in Message BY PairFacts
<1>3. Append(q, m) \in Seq(Message) BY <1>2, AppendProperties
<1>4. request' = [request EXCEPT ![e][f] = Append(q, m)] BY DEF Tx
<1> HIDE DEF q
<1>5. /\ request' \in [Executor -> [Executor -> Seq(Message)]]
      /\ request'[e][f] = Append(q, m)
      /\ \A g, h \in Executor : g # e \/ h # f => request'[g][h] = request[g][h]
  BY <1>1, <1>3, <1>4
<1>6. Posted(e, f)' = Append(Posted(e, f), m)
  <2>1. InBuffer(e, f)' = InBuffer(e, f) BY DEF InBuffer
  <2>2. InBuffer(e, f) \in Seq(Message)
    <3>1. <<p[f]>> \in Seq(Message) /\ << >> \in Seq(Message) BY <1>2
    <3> QED BY <3>1 DEF InBuffer
  <2>3. \A a, b \in Seq(Message), c \in Message : a \o Append(b, c) = Append(a \o b, c)
    BY AppendRight
  <2>4. InBuffer(e, f) \o Append(q, m) = Append(InBuffer(e, f) \o q, m)
    BY <1>2, <2>2, <2>3
  <2> QED BY <2>1, <2>4, <1>5 DEF Posted, q
<1>7. ASSUME NEW g \in Executor, NEW h \in Executor, g # e \/ h # f
      PROVE  Posted(g, h)' = Posted(g, h)
  BY <1>5, <1>7, PostedKept
<1> QED BY <1>5, <1>6, <1>7

(* What was posted before, and what is added                               *)
LEMMA AppendEach ==
  ASSUME NEW q \in Seq(Message), NEW m \in Message, NEW i \in 1 .. Len(Append(q, m))
  PROVE  \/ i \in 1 .. Len(q) /\ Append(q, m)[i] = q[i]
         \/ i = Len(Append(q, m)) /\ Append(q, m)[i] = m
<1>1. Len(q) \in Nat BY SeqFacts
<1>2. /\ Len(Append(q, m)) = Len(q) + 1 /\ Append(q, m)[Len(q) + 1] = m
      /\ \A j \in 1 .. Len(q) : Append(q, m)[j] = q[j]
  BY AppendProperties
<1>3. i \in 1 .. Len(q) \/ i = Len(q) + 1 BY <1>1, <1>2
<1> QED BY <1>2, <1>3

(* One send of the broadcast: its receiver was counted because it had not  *)
(* been told, and is now counted because of the message.                   *)
LEMMA BroadcastTxKeeps ==
  ASSUME IInv, NEW e \in Executor, BroadcastTx(e)
  PROVE  IInv'
<1> DEFINE m == [op |-> "DMN_END", from |-> e, nr |-> 0]
<1>0. TypeOK /\ Pairs /\ Locals /\ Counts BY DEF IInv
<1>1. PICK f \in Others(e) \ told[e] :
        /\ told' = [told EXCEPT ![e] = @ \cup {f}]
        /\ Tx(request, e, f, m)
  BY DEF BroadcastTx, Untold
<1>2. /\ daemon[e] = "leaving"
      /\ UNCHANGED <<user, made, got, daemon, cnt, rx, p, sent, answer>>
  BY DEF BroadcastTx, userVars
<1>3. f \in Executor /\ f # e /\ f \notin told[e] BY DEF Others
<1>4. m \in Message /\ m.op = "DMN_END" /\ m.from = e /\ ~IsLoad(m)
  BY Chunks, EndpointAssumption DEF Message, IsLoad
<1> HIDE DEF m
<1>5. user[e].at = "ended"
  <2>1. DaemonOK(e) BY <1>0 DEF Locals
  <2> QED BY <2>1, <1>2, <1>3 DEF DaemonOK, Others
<1>6. /\ told' \in [Executor -> SUBSET Executor] /\ told'[e] = told[e] \cup {f}
      /\ \A g \in Executor : g # e => told'[g] = told[g]
  <2>1. told \in [Executor -> SUBSET Executor] BY <1>0 DEF TypeOK
  <2> QED BY <2>1, <1>1, <1>3
<1>7. /\ request' \in [Executor -> [Executor -> Seq(Message)]]
      /\ Posted(e, f)' = Append(Posted(e, f), m)
      /\ \A g, h \in Executor : g # e \/ h # f => Posted(g, h)' = Posted(g, h)
  BY <1>0, <1>1, <1>2, <1>3, <1>4, TxPosts
<1>8. TypeOK' BY <1>0, <1>2, <1>6, <1>7 DEF TypeOK
<1>9. \A h \in Executor : ~Waits(e, h) /\ ~Waits(e, h)'
  BY <1>2, <1>5 DEF Waits
<1>10. PICK q \in Seq(Message) : q = Posted(e, f) BY <1>0, <1>3, PairFacts
<1>11. PairOK(e, f) BY <1>0, <1>3 DEF Pairs
<1>12. PairOK(e, f)'
  <2>1. \A i \in 1 .. Len(q) :
            q[i].from = e /\ q[i].op # "DMN_END" /\ ~IsLoad(q[i])
    BY <1>3, <1>9, <1>10, <1>11, NotWaiting DEF PairOK, PostedOK
  <2>2. \A i \in 1 .. Len(Append(q, m)) :
            /\ Append(q, m)[i].from = e
            /\ Append(q, m)[i].op = "DMN_END" => i = Len(Append(q, m))
            /\ ~IsLoad(Append(q, m)[i])
    <3> TAKE i \in 1 .. Len(Append(q, m))
    <3> QED BY <2>1, <1>4, AppendEach
  <2>3. PostedOK(e, f)' BY <2>2, <1>3, <1>6, <1>7, <1>10 DEF PostedOK
  <2>4. HandledOK(e, f)'
    <3>1. Handling(f) /\ p[f].from = e => ~(sent[f] < ChunksOf[p[f].op])
      BY <1>3, <1>9, <1>11, NotWaiting
    <3> QED BY <3>1, <1>2, <1>11 DEF PairOK, HandledOK, Handling
  <2>5. AnswerOK(e, f)' BY <1>2, <1>3, <1>9, <1>11 DEF PairOK, AnswerOK
  <2> QED BY <2>3, <2>4, <2>5 DEF PairOK
<1>13. ASSUME NEW g \in Executor, NEW h \in Executor, g # e \/ h # f
       PROVE  PairOK(g, h)'
  <2>1. PairOK(g, h) BY <1>0 DEF Pairs
  <2>2. told[g] \subseteq told'[g] BY <1>6
  <2>3. Handling(h)' => Handling(h) BY <1>2 DEF Handling
  <2>4. Posted(g, h)' = Posted(g, h) BY <1>7, <1>13
  <2> QED BY <2>1, <2>2, <2>3, <2>4, <1>2, PairKept
<1>14. Pairs' BY <1>12, <1>13 DEF Pairs
<1>15. ASSUME NEW g \in Executor PROVE UserOK(g)' /\ DaemonOK(g)'
  <2>1. UserOK(g) /\ DaemonOK(g) BY <1>0 DEF Locals
  <2>2. Handling(g)' => rx'[g] = "taken" BY <2>1, <1>2 DEF DaemonOK, Handling
  <2>3. CASE g # e BY <2>1, <2>2, <2>3, <1>2, <1>6, LocalsKept
  <2>4. CASE g = e
    <3>1. UserOK(e)' BY <2>1, <2>4, <1>2 DEF UserOK
    <3>2. told'[e] \subseteq Others(e) BY <2>1, <2>4, <1>6 DEF DaemonOK
    <3>3. DaemonOK(e)' BY <2>2, <2>4, <3>2, <1>2, <1>5 DEF DaemonOK
    <3> QED BY <2>4, <3>1, <3>3
  <2> QED BY <2>3, <2>4
<1>16. ASSUME NEW h \in Executor PROVE Peers(h)' = Peers(h)
  <2>1. ASSUME NEW g \in Others(h)
        PROVE  (h \notin told'[g] \/ HasEnd(Posted(g, h)')) <=>
               (h \notin told[g] \/ HasEnd(Posted(g, h)))
    <3>1. g \in Executor BY DEF Others
    <3>2. CASE g = e /\ h = f
      <4>1. Len(q) + 1 \in 1 .. Len(Append(q, m)) /\ Append(q, m)[Len(q) + 1] = m
        <5>1. Len(q) \in Nat BY SeqFacts
        <5>2. Len(Append(q, m)) = Len(q) + 1 /\ Append(q, m)[Len(q) + 1] = m
          BY <1>4, AppendProperties
        <5> QED BY <5>1, <5>2
      <4>2. HasEnd(Append(q, m)) BY <4>1, <1>4 DEF HasEnd
      <4> QED BY <3>2, <4>2, <1>3, <1>7, <1>10
    <3>3. CASE g # e \/ h # f
      <4>1. Posted(g, h)' = Posted(g, h) BY <3>1, <3>3, <1>7
      <4>2. h \in told'[g] <=> h \in told[g] BY <3>1, <3>3, <1>6
      <4> QED BY <4>1, <4>2
    <3> QED BY <3>2, <3>3
  <2> QED BY <2>1, SamePeers
<1>17. Counts' BY <1>0, <1>2, <1>16 DEF Counts
<1> QED BY <1>8, <1>14, <1>15, <1>17 DEF IInv, Locals

LEMMA UserTxKeeps ==
  ASSUME IInv, NEW e \in Executor, UserTx(e)
  PROVE  IInv'
<1>0. TypeOK /\ Pairs /\ Locals /\ Counts BY DEF IInv
<1>1. user[e].at = "tx" /\ UNCHANGED <<made, got, daemon, cnt, told, rx, p, sent, answer>>
  BY DEF UserTx, daemonVars
<1>2. PICK f \in Executor, op \in Op : f = user[e].peer /\ op = user[e].op
  BY <1>0, <1>1, UserFacts
<1> DEFINE m == [op |-> op, from |-> e, nr |-> made[e]]
<1>3. /\ Tx(request, e, f, m)
      /\ user' = [user EXCEPT ![e] = IF ChunksOf[op] > 0 THEN In("rx", f, op)
                                                         ELSE At("running")]
  BY <1>2 DEF UserTx
<1>4. UserOK(e) /\ DaemonOK(e) BY <1>0 DEF Locals
<1>5. f # e /\ made[e] >= 1 /\ got[e] = << >> BY <1>1, <1>2, <1>4 DEF UserOK
<1>6. daemon[e] = "serving" /\ told[e] = {} BY <1>1, <1>4, <1>5, Busy
<1>7. /\ m \in Message /\ m.op = op /\ m.from = e /\ m.nr = made[e]
      /\ op # "DMN_END" /\ ChunksOf[op] \in Nat
  <2>1. made[e] \in 0 .. MaxRequests BY <1>0 DEF TypeOK
  <2> QED BY <2>1, Chunks, EndpointAssumption DEF Message
<1> HIDE DEF m
<1>8. /\ user' \in [Executor -> Place]
      /\ ChunksOf[op] > 0 => user'[e] = In("rx", f, op)
      /\ ~(ChunksOf[op] > 0) => user'[e] = At("running")
      /\ \A g \in Executor : g # e => user'[g] = user[g]
  <2>1. user \in [Executor -> Place] BY <1>0 DEF TypeOK
  <2>2. In("rx", f, op) \in Place /\ At("running") \in Place BY PlaceFacts
  <2> QED BY <2>1, <2>2, <1>3
<1>9. /\ ChunksOf[op] > 0 => user'[e].at = "rx" /\ user'[e].peer = f /\ user'[e].op = op
      /\ ~(ChunksOf[op] > 0) => user'[e].at = "running"
  BY <1>8, Fields
<1>10. /\ request' \in [Executor -> [Executor -> Seq(Message)]]
       /\ Posted(e, f)' = Append(Posted(e, f), m)
       /\ \A g, h \in Executor : g # e \/ h # f => Posted(g, h)' = Posted(g, h)
  BY <1>0, <1>1, <1>3, <1>7, TxPosts
<1>11. TypeOK' BY <1>0, <1>1, <1>8, <1>10 DEF TypeOK
<1>12. PICK q \in Seq(Message) : q = Posted(e, f) BY <1>0, PairFacts
<1>13. PairOK(e, f) /\ ~Waits(e, f) BY <1>0, <1>1 DEF Pairs, Waits
<1>14. /\ \A i \in 1 .. Len(q) :
             q[i].from = e /\ q[i].op # "DMN_END" /\ ~IsLoad(q[i])
       /\ Handling(f) /\ p[f].from = e => ~(sent[f] < ChunksOf[p[f].op])
       /\ answer[f][e] = << >>
  BY <1>6, <1>12, <1>13, NotWaiting DEF PairOK, PostedOK
<1>15. Stream(e, f)' = << >>
  <2>1. got'[e] = << >> /\ answer'[f][e] = << >> BY <1>1, <1>5, <1>14
  <2> QED BY <2>1, ConcatEmptySeq, EmptySequence DEF Stream
<1>16. PairOK(e, f)'
  <2>1. \A i \in 1 .. Len(Append(q, m)) :
            /\ Append(q, m)[i].from = e /\ Append(q, m)[i].op # "DMN_END"
            /\ IsLoad(Append(q, m)[i]) =>
                   i = Len(Append(q, m)) /\ Append(q, m)[i] = m
    <3> TAKE i \in 1 .. Len(Append(q, m))
    <3> QED BY <1>7, <1>14, AppendEach
  <2>3. PostedOK(e, f)'
    <3> SUFFICES ASSUME NEW i \in 1 .. Len(Append(q, m))
                 PROVE  LET n == Append(q, m)[i]
                        IN  /\ n.from = e /\ e # f
                            /\ n.op = "DMN_END" => i = Len(Append(q, m)) /\ f \in told'[e]
                            /\ IsLoad(n) =>
                                  /\ i = Len(Append(q, m))
                                  /\ user'[e].at = "rx" /\ user'[e].peer = f
                                  /\ user'[e].op = n.op /\ made'[e] = n.nr
                                  /\ Stream(e, f)' = << >>
      BY <1>10, <1>12 DEF PostedOK, Awaited, Waits
    <3>1. IsLoad(m) => /\ user'[e].at = "rx" /\ user'[e].peer = f
                       /\ user'[e].op = m.op /\ made'[e] = m.nr
      BY <1>1, <1>7, <1>9 DEF IsLoad
    <3> QED BY <2>1, <3>1, <1>5, <1>15
  <2>4. HandledOK(e, f)' BY <1>1, <1>13, <1>14 DEF PairOK, HandledOK, Handling
  <2>5. AnswerOK(e, f)'
    <3>1. Waits(e, f)' => ChunksOf[user'[e].op] \in Nat BY <1>7, <1>9 DEF Waits
    <3>2. Len(Stream(e, f)') = 0 BY <1>15, EmptySequence
    <3>3. Waits(e, f)' => Len(Stream(e, f)') <= ChunksOf[user'[e].op]
      BY <3>1, <3>2
    <3>4. 1 .. 0 = {} OBVIOUS
    <3>5. answer'[f][e] = << >> BY <1>1, <1>14
    <3> QED BY <3>2, <3>3, <3>4, <3>5 DEF AnswerOK
  <2> QED BY <2>3, <2>4, <2>5 DEF PairOK
<1>17. ASSUME NEW g \in Executor, NEW h \in Executor, g # e \/ h # f
       PROVE  PairOK(g, h)'
  <2>1. PairOK(g, h) BY <1>0 DEF Pairs
  <2>2. \/ user'[g] = user[g] /\ made'[g] = made[g] /\ got'[g] = got[g]
        \/ ~Waits(g, h) /\ ~Waits(g, h)'
    <3>1. CASE g # e BY <3>1, <1>1, <1>8
    <3>2. CASE g = e /\ h # f BY <3>2, <1>1, <1>9 DEF Waits
    <3> QED BY <3>1, <3>2, <1>17
  <2>3. Handling(h)' => Handling(h) BY <1>1 DEF Handling
  <2>4. Posted(g, h)' = Posted(g, h) BY <1>10, <1>17
  <2> QED BY <2>1, <2>2, <2>3, <2>4, <1>1, PairKept
<1>18. Pairs' BY <1>16, <1>17 DEF Pairs
<1>19. ASSUME NEW g \in Executor PROVE UserOK(g)' /\ DaemonOK(g)'
  <2>1. UserOK(g) /\ DaemonOK(g) BY <1>0 DEF Locals
  <2>2. Handling(g)' => rx'[g] = "taken" BY <2>1, <1>1 DEF DaemonOK, Handling
  <2>3. CASE g # e BY <2>1, <2>2, <2>3, <1>1, <1>8, LocalsKept
  <2>4. CASE g = e
    <3>1. UserOK(e)' BY <1>1, <1>5, <1>9 DEF UserOK
    <3>2. DaemonOK(e)' BY <2>1, <2>2, <2>4, <1>1, <1>6 DEF DaemonOK
    <3> QED BY <2>4, <3>1, <3>2
  <2> QED BY <2>3, <2>4
<1>20. ASSUME NEW h \in Executor PROVE Peers(h)' = Peers(h)
  <2>1. ASSUME NEW g \in Others(h)
        PROVE  (h \notin told'[g] \/ HasEnd(Posted(g, h)')) <=>
               (h \notin told[g] \/ HasEnd(Posted(g, h)))
    <3>1. g \in Executor BY DEF Others
    <3>2. CASE g = e BY <3>2, <1>1, <1>6
    <3>3. CASE g # e
      <4>1. Posted(g, h)' = Posted(g, h) BY <3>1, <3>3, <1>10
      <4> QED BY <4>1, <1>1
    <3> QED BY <3>2, <3>3
  <2> QED BY <2>1, SamePeers
<1>21. Counts' BY <1>0, <1>1, <1>20 DEF Counts
<1> QED BY <1>11, <1>18, <1>19, <1>21 DEF IInv, Locals

(* A chunk is received, by who waits for it: the stream stays as it is,    *)
(* until its last chunk.                                                   *)
LEMMA UserRxKeeps ==
  ASSUME IInv, NEW e \in Executor, UserRx(e)
  PROVE  IInv'
<1>0. TypeOK /\ Pairs /\ Locals /\ Counts BY DEF IInv
<1>1. user[e].at = "rx" /\ UNCHANGED <<made, daemon, cnt, told, rx, p, sent, request>>
  BY DEF UserRx, daemonVars
<1>2. PICK f \in Executor, op \in Op : f = user[e].peer /\ op = user[e].op
  BY <1>0, <1>1, UserFacts
<1> DEFINE s == answer[f][e]
           g == Append(got[e], Head(s))
<1>3. /\ s # << >>
      /\ answer' = [answer EXCEPT ![f][e] = Tail(s)]
      /\ IF Len(g) = ChunksOf[op]
         THEN /\ user' = [user EXCEPT ![e] = At("running")]
              /\ got' = [got EXCEPT ![e] = << >>]
         ELSE got' = [got EXCEPT ![e] = g] /\ UNCHANGED user
  BY <1>2 DEF UserRx
<1>4. /\ s \in Seq(Chunk) /\ got[e] \in Seq(Chunk)
      /\ Stream(e, f) = got[e] \o s
      /\ Len(Stream(e, f)) = Len(got[e]) + Len(s)
  BY <1>0, PairFacts DEF Stream
<1>5. /\ Head(s) \in Chunk /\ Tail(s) \in Seq(Chunk)
      /\ Len(s) \in Nat /\ Len(s) # 0 /\ Len(got[e]) \in Nat
      /\ Len(Tail(s)) = Len(s) - 1
  BY <1>3, <1>4, SeqFacts
<1>6. g \in Seq(Chunk) /\ Len(g) = Len(got[e]) + 1
  BY <1>4, <1>5, AppendProperties
<1>7. g \o Tail(s) = Stream(e, f)
  <2>1. \A a, b \in Seq(Chunk) : b # << >> => Append(a, Head(b)) \o Tail(b) = a \o b
    BY Handover
  <2> QED BY <2>1, <1>3, <1>4
<1> HIDE DEF g, s
<1>8. /\ answer' \in [Executor -> [Executor -> Seq(Chunk)]]
      /\ answer'[f][e] = Tail(s)
      /\ \A i, j \in Executor : i # f \/ j # e => answer'[i][j] = answer[i][j]
  <2>1. answer \in [Executor -> [Executor -> Seq(Chunk)]] BY <1>0 DEF TypeOK
  <2> QED BY <2>1, <1>3, <1>5
<1>9. /\ got' \in [Executor -> Seq(Chunk)]
      /\ got'[e] = IF Len(g) = ChunksOf[op] THEN << >> ELSE g
      /\ \A i \in Executor : i # e => got'[i] = got[i]
  <2>1. got \in [Executor -> Seq(Chunk)] BY <1>0 DEF TypeOK
  <2>2. << >> \in Seq(Chunk) BY EmptySequence
  <2> QED BY <2>1, <2>2, <1>3, <1>6
<1>10. /\ user' \in [Executor -> Place]
       /\ Len(g) = ChunksOf[op] => user'[e].at = "running"
       /\ Len(g) # ChunksOf[op] => user'[e] = user[e]
       /\ \A i \in Executor : i # e => user'[i] = user[i]
  <2>1. user \in [Executor -> Place] BY <1>0 DEF TypeOK
  <2>2. At("running") \in Place /\ At("running").at = "running" BY PlaceFacts, Fields
  <2> QED BY <2>1, <2>2, <1>3
<1>11. TypeOK' BY <1>0, <1>1, <1>8, <1>9, <1>10 DEF TypeOK
<1>12. ASSUME NEW i \in Executor, NEW j \in Executor
       PROVE  Posted(i, j)' = Posted(i, j)
  BY <1>1, PostedKept
<1>13. PairOK(e, f) /\ Waits(e, f) /\ UserOK(e) /\ DaemonOK(e)
  BY <1>0, <1>1, <1>2 DEF Pairs, Locals, Waits
<1>14. \A i \in 1 .. Len(Posted(e, f)) : ~IsLoad(Posted(e, f)[i])
  <2>1. Len(Stream(e, f)) # 0 BY <1>4, <1>5
  <2>2. Stream(e, f) # << >> BY <2>1, EmptySequence
  <2> QED BY <2>2, <1>13 DEF PairOK, PostedOK
<1>15. PostedOK(e, f)'
  BY <1>1, <1>12, <1>13, <1>14 DEF PairOK, PostedOK
<1>16. ChunksOf[op] \in Nat BY Chunks
<1>17. ASSUME Len(g) = ChunksOf[op]
       PROVE  PairOK(e, f)' /\ UserOK(e)' /\ \A i \in Executor : i # f => ~Waits(e, i)'
  <2>1. ~Waits(e, f)' BY <1>10, <1>17 DEF Waits
  <2>2. Len(s) = 1
    <3>1. Len(Stream(e, f)) <= ChunksOf[op] BY <1>2, <1>13 DEF PairOK, AnswerOK
    <3>2. Len(got[e]) + Len(s) <= Len(got[e]) + 1
      BY <3>1, <1>4, <1>6, <1>17
    <3>3. Len(s) \in Nat /\ Len(s) # 0 /\ Len(got[e]) \in Nat BY <1>5
    <3>4. \A a, b \in Nat : b # 0 /\ a + b <= a + 1 => b = 1 OBVIOUS
    <3> QED BY <3>2, <3>3, <3>4
  <2>3. Tail(s) = << >>
    <3>1. Len(Tail(s)) = 0 BY <2>2, <1>5
    <3> QED BY <3>1, <1>5, EmptySeq
  <2>4. AnswerOK(e, f)' BY <2>1, <2>3, <1>8 DEF AnswerOK
  <2>5. HandledOK(e, f)'
    <3>1. ASSUME Handling(f), p[f].from = e PROVE ~(sent[f] < ChunksOf[p[f].op])
      <4> SUFFICES ASSUME sent[f] < ChunksOf[p[f].op] PROVE FALSE
        OBVIOUS
      <4>1. p[f].op = op /\ Len(Stream(e, f)) = sent[f]
        BY <3>1, <1>2, <1>13 DEF PairOK, HandledOK, Awaited
      <4>2. sent[f] = Len(got[e]) + 1 /\ sent[f] < ChunksOf[op]
        BY <4>1, <2>2, <1>4
      <4> QED BY <4>2, <1>6, <1>16, <1>17
    <3> QED BY <3>1, <1>1, <1>13 DEF PairOK, HandledOK, Handling
  <2>6. PairOK(e, f)' BY <2>4, <2>5, <1>15 DEF PairOK
  <2>7. UserOK(e)' BY <1>9, <1>10, <1>17 DEF UserOK
  <2>8. \A i \in Executor : ~Waits(e, i)' BY <1>10, <1>17 DEF Waits
  <2> QED BY <2>6, <2>7, <2>8
<1>18. ASSUME Len(g) # ChunksOf[op]
       PROVE  PairOK(e, f)' /\ UserOK(e)' /\ \A i \in Executor : i # f => ~Waits(e, i)'
  <2>1. Stream(e, f)' = Stream(e, f)
    <3>1. got'[e] = g /\ answer'[f][e] = Tail(s) BY <1>8, <1>9, <1>18
    <3>2. Stream(e, f)' = g \o Tail(s) BY <3>1 DEF Stream
    <3> QED BY <3>2, <1>7
  <2>2. user'[e] = user[e] /\ made'[e] = made[e] BY <1>1, <1>10, <1>18
  <2>3. Waits(e, f)' BY <2>2, <1>13 DEF Waits
  <2>4. AnswerOK(e, f)' BY <2>1, <2>2, <2>3, <1>13 DEF PairOK, AnswerOK
  <2>5. HandledOK(e, f)'
    BY <2>1, <2>2, <1>1, <1>12, <1>13 DEF PairOK, HandledOK, Handling, Awaited, Waits
  <2>6. PairOK(e, f)' BY <2>4, <2>5, <1>15 DEF PairOK
  <2>7. UserOK(e)' BY <2>2, <1>1, <1>13 DEF UserOK
  <2>8. \A i \in Executor : i # f => ~Waits(e, i)' BY <2>2, <1>2 DEF Waits
  <2> QED BY <2>6, <2>7, <2>8
<1>19. PairOK(e, f)' /\ UserOK(e)' /\ \A i \in Executor : i # f => ~Waits(e, i)'
  BY <1>17, <1>18
<1>20. ASSUME NEW i \in Executor, NEW j \in Executor, i # e \/ j # f
       PROVE  PairOK(i, j)'
  <2>1. PairOK(i, j) BY <1>0 DEF Pairs
  <2>2. \/ user'[i] = user[i] /\ made'[i] = made[i] /\ got'[i] = got[i]
        \/ ~Waits(i, j) /\ ~Waits(i, j)'
    <3>1. CASE i # e BY <3>1, <1>1, <1>9, <1>10
    <3>2. CASE i = e /\ j # f BY <3>2, <1>2, <1>19 DEF Waits
    <3> QED BY <3>1, <3>2, <1>20
  <2>3. Handling(j)' => Handling(j) BY <1>1 DEF Handling
  <2>4. answer'[j][i] = answer[j][i] BY <1>8, <1>20
  <2> QED BY <2>1, <2>2, <2>3, <2>4, <1>1, <1>12, PairKept
<1>21. Pairs' BY <1>19, <1>20 DEF Pairs
<1>22. ASSUME NEW i \in Executor PROVE UserOK(i)' /\ DaemonOK(i)'
  <2>1. UserOK(i) /\ DaemonOK(i) BY <1>0 DEF Locals
  <2>2. Handling(i)' => rx'[i] = "taken" BY <2>1, <1>1 DEF DaemonOK, Handling
  <2>3. CASE i # e BY <2>1, <2>2, <2>3, <1>1, <1>9, <1>10, LocalsKept
  <2>4. CASE i = e
    <3>1. ASSUME daemon[e] # "serving" PROVE Others(e) = {}
      BY <3>1, <1>1, <1>13 DEF DaemonOK
    <3>2. DaemonOK(e)' BY <2>2, <2>4, <3>1, <1>1, <1>13 DEF DaemonOK
    <3> QED BY <2>4, <3>2, <1>19
  <2> QED BY <2>3, <2>4
<1>23. Counts' BY <1>0, <1>1, <1>12, CountsKept
<1> QED BY <1>11, <1>21, <1>22, <1>23 DEF IInv, Locals

LEMMA InitIInv == Init => IInv
<1> SUFFICES ASSUME Init PROVE IInv
  OBVIOUS
<1>1. TypeOK
  <2>1. cnt \in [Executor -> 0 .. Cardinality(Executor) - 1]
    <3>1. Cardinality(Executor) \in Nat /\ Cardinality(Executor) # 0
      BY FS_CardinalityType, FS_EmptySet, EndpointAssumption
    <3> QED BY <3>1 DEF Init
  <2>2. user \in [Executor -> Place] BY PlaceFacts DEF Init
  <2>3. sent \in [Executor -> 0 .. Idle] BY EndpointAssumption DEF Init, Idle
  <2>4. p \in [Executor -> Message]
    <3>1. ASSUME NEW e \in Executor
          PROVE  [op |-> "DMN_END", from |-> e, nr |-> 0] \in Message
      BY Chunks, EndpointAssumption DEF Message
    <3> QED BY <3>1 DEF Init
  <2>5. rx \in [Executor -> {"posted", "complete", "taken"}] BY DEF Init
  <2>6. /\ got \in [Executor -> Seq(Chunk)]
        /\ request \in [Executor -> [Executor -> Seq(Message)]]
        /\ answer \in [Executor -> [Executor -> Seq(Chunk)]]
    <3>1. << >> \in Seq(Chunk) /\ << >> \in Seq(Message) BY EmptySequence
    <3> QED BY <3>1 DEF Init
  <2>7. /\ made \in [Executor -> 0 .. MaxRequests]
        /\ daemon \in [Executor -> {"serving", "leaving", "done"}]
        /\ told \in [Executor -> SUBSET Executor]
    BY EndpointAssumption DEF Init
  <2> QED BY <2>1, <2>2, <2>3, <2>4, <2>5, <2>6, <2>7 DEF TypeOK
<1>2. \A e \in Executor : /\ user[e].at = "running" /\ got[e] = << >>
                          /\ daemon[e] = "serving" /\ told[e] = {} /\ ~Handling(e)
  BY Fields DEF Init, Handling
<1>3. ASSUME NEW e \in Executor, NEW f \in Executor
      PROVE  Posted(e, f) = << >> /\ answer[f][e] = << >>
  <2>1. ~(rx[f] = "complete") /\ request[e][f] = << >> /\ answer[f][e] = << >>
    BY DEF Init
  <2> QED BY <2>1, <1>1, PostedIs
<1>4. Pairs
  <2> SUFFICES ASSUME NEW e \in Executor, NEW f \in Executor PROVE PairOK(e, f)
    BY DEF Pairs
  <2>1. 1 .. 0 = {} /\ Len(<< >>) = 0 OBVIOUS
  <2>2. PostedOK(e, f) BY <2>1, <1>3 DEF PostedOK
  <2>3. HandledOK(e, f) BY <1>2 DEF HandledOK
  <2>4. AnswerOK(e, f) BY <1>2, <1>3 DEF AnswerOK, Waits
  <2> QED BY <2>2, <2>3, <2>4 DEF PairOK
<1>5. Locals BY <1>2 DEF Locals, UserOK, DaemonOK
<1>6. Counts
  <2> SUFFICES ASSUME NEW e \in Executor PROVE cnt[e] = Cardinality(Peers(e))
    BY DEF Counts
  <2>1. Peers(e) = Executor \ {e} BY <1>2 DEF Peers, Others
  <2>2. Cardinality(Executor \ {e}) = Cardinality(Executor) - 1
    BY FS_RemoveElement, EndpointAssumption
  <2> QED BY <2>1, <2>2 DEF Init
<1> QED BY <1>1, <1>4, <1>5, <1>6 DEF IInv

LEMMA StutterKeeps ==
  ASSUME IInv, UNCHANGED vars
  PROVE  IInv'
<1>0. TypeOK /\ Locals BY DEF IInv
<1>1. UNCHANGED <<user, made, got, daemon, cnt, told, rx, p, sent, request, answer>>
  BY DEF vars
<1>2. TypeOK' BY <1>0, <1>1 DEF TypeOK
<1>3. \A e \in Executor : UserOK(e)' /\ DaemonOK(e)'
  BY <1>0, <1>1 DEF Locals, UserOK, DaemonOK, Handling
<1> QED BY <1>1, <1>2, <1>3, QuietKeeps

LEMMA NextIInv == IInv /\ [Next]_vars => IInv'
<1> SUFFICES ASSUME IInv, [Next]_vars PROVE IInv'
  OBVIOUS
<1>1. ASSUME NEW e \in Executor, User(e) PROVE IInv'
  BY <1>1, CallKeeps, UserTxKeeps, UserRxKeeps, EndKeeps DEF User
<1>2. ASSUME NEW e \in Executor, Daemon(e) PROVE IInv'
  BY <1>2, PollKeeps, AnswerTxKeeps, BufferKeeps, LoopKeeps, BroadcastTxKeeps DEF Daemon
<1>3. ASSUME NEW e \in Executor, Provider(e) PROVE IInv'
  BY <1>3, BufferKeeps DEF Provider
<1>4. CASE UNCHANGED vars BY <1>4, StutterKeeps
<1> QED BY <1>1, <1>2, <1>3, <1>4 DEF Next, Finished

-----------------------------------------------------------------------------
(* The theorems about Endpoint itself *)

THEOREM Inductive == Spec => []IInv
BY InitIInv, NextIInv, PTL DEF Spec

(* Typing: the daemon's counter of executors that are not finished stays   *)
(* within its range, and no chunk is sent beyond the end of an object.     *)
THEOREM Types == Spec => []TypeOK
BY Inductive, PTL DEF IInv

(* What a user thread receives is the answer to the request it waits for,  *)
(* whole and in order; whoever does not wait has nothing coming.           *)
THEOREM AnswersArriveWhole == Spec => []AnswersWhole
<1>1. ASSUME IInv, NEW e \in Executor, NEW f \in Executor,
             user[e].at = "rx", user[e].peer = f
      PROVE  IsPrefix(got[e] \o answer[f][e],
                      [i \in 1 .. ChunksOf[user[e].op] |-> [nr |-> made[e], i |-> i]])
  <2>0. TypeOK /\ PairOK(e, f) /\ Waits(e, f) /\ UserOK(e)
    BY <1>1 DEF IInv, Pairs, Waits, Locals
  <2>1. PICK op \in Op : op = user[e].op BY <2>0, <1>1, UserFacts
  <2>2. ChunksOf[op] \in Nat /\ ChunksOf[op] <= LoadChunks
    BY Chunks, EndpointAssumption
  <2> DEFINE s == Stream(e, f)
             c == ChunksOf[op]
             t == [i \in 1 .. c |-> [nr |-> made[e], i |-> i]]
  <2>3. s \in Seq(Chunk) BY <2>0, PairFacts
  <2>4. /\ Len(s) <= c /\ \A i \in 1 .. Len(s) : s[i] = [nr |-> made[e], i |-> i]
    BY <2>0, <2>1 DEF PairOK, AnswerOK
  <2> HIDE DEF s, c
  <2>5. Len(s) \in Nat /\ c \in Nat /\ c <= LoadChunks
    BY <2>2, <2>3, SeqFacts DEF c
  <2>6. /\ t \in Seq(Chunk) /\ Len(t) = c
        /\ \A i \in 1 .. c : t[i] = [nr |-> made[e], i |-> i]
    <3>1. made[e] \in 1 .. MaxRequests
      <4>1. made[e] \in 0 .. MaxRequests /\ made[e] >= 1
        BY <2>0 DEF TypeOK, UserOK, Waits
      <4> QED BY <4>1, EndpointAssumption
    <3>2. ASSUME NEW i \in 1 .. c PROVE [nr |-> made[e], i |-> i] \in Chunk
      <4>1. i \in 1 .. LoadChunks BY <2>5, EndpointAssumption
      <4> QED BY <4>1, <3>1 DEF Chunk
    <3>3. t \in [1 .. c -> Chunk] BY <3>2
    <3>4. t \in Seq(Chunk) BY <3>3, <2>5, SeqDef
    <3>5. DOMAIN t = 1 .. c /\ DOMAIN t = 1 .. Len(t) /\ Len(t) \in Nat
      BY <3>3, <3>4, LenProperties
    <3>6. Len(t) = c
      <4> HIDE DEF t
      <4> QED BY <3>5, <2>5
    <3> QED BY <3>4, <3>6
  <2> HIDE DEF t
  <2>7. \A i \in 1 .. Len(s) : i \in 1 .. c /\ t[i] = s[i] BY <2>4, <2>5, <2>6
  <2>9. SubSeq(s, 1, Len(s)) = s BY <2>3, SubSeqFull
  <2>10. SubSeq(t, 1, Len(s)) = s
    <3> DEFINE r == SubSeq(t, 1, Len(s))
    <3>1. \A i \in 1 .. Len(s) : t[i] \in Chunk BY <2>3, <2>7, SeqFacts
    <3>2. /\ r \in Seq(Chunk)
          /\ Len(r) = IF 1 <= Len(s) THEN Len(s) - 1 + 1 ELSE 0
          /\ \A i \in 1 .. Len(s) - 1 + 1 : r[i] = t[1 + i - 1]
      BY <3>1, <2>5, <2>6, SubSeqProperties
    <3> HIDE DEF r
    <3>3. Len(r) = Len(s) /\ \A i \in 1 .. Len(s) : r[i] = t[i] BY <3>2, <2>5
    <3> QED BY <3>2, <3>3, <2>3, <2>7, SeqEqual DEF r
  <2>11. IsPrefix(s, t) BY <2>4, <2>6, <2>9, <2>10 DEF IsPrefix
  <2> QED BY <2>1, <2>11 DEF s, t, c, Stream
<1>2. ASSUME IInv, NEW e \in Executor, NEW f \in Executor,
             ~(user[e].at = "rx" /\ user[e].peer = f)
      PROVE  answer[f][e] = << >>
  BY <1>2 DEF IInv, Pairs, PairOK, AnswerOK, Waits
<1>3. IInv => AnswersWhole BY <1>1, <1>2 DEF AnswersWhole
<1> QED BY <1>3, Inductive, PTL

-----------------------------------------------------------------------------
(* The abstract view *)

Kind == {"load", "tell", "end"}

LEMMA KindOfIs ==
  ASSUME NEW m \in Message
  PROVE  /\ KindOf(m) \in Kind
         /\ KindOf(m) = "end" <=> m.op = "DMN_END"
         /\ KindOf(m) = "load" <=> IsLoad(m)
<1>1. m.op = "DMN_END" => ~IsLoad(m) BY Chunks DEF IsLoad
<1> QED BY <1>1 DEF KindOf, IsLoad, Kind

LEMMA KindsFacts ==
  ASSUME NEW q \in Seq(Message)
  PROVE  /\ Kinds(q) \in Seq(Kind) /\ Len(Kinds(q)) = Len(q) /\ Len(q) \in Nat
         /\ \A i \in 1 .. Len(q) : Kinds(q)[i] = KindOf(q[i])
<1>1. /\ Len(q) \in Nat /\ DOMAIN q = 1 .. Len(q)
      /\ \A i \in 1 .. Len(q) : q[i] \in Message
  BY SeqFacts
<1>2. Kinds(q) \in [1 .. Len(q) -> Kind] BY <1>1, KindOfIs DEF Kinds
<1>3. Kinds(q) \in Seq(Kind) BY <1>1, <1>2, SeqDef
<1>4. Len(Kinds(q)) = Len(q)
  <2>1. /\ DOMAIN Kinds(q) = 1 .. Len(q) /\ DOMAIN Kinds(q) = 1 .. Len(Kinds(q))
        /\ Len(Kinds(q)) \in Nat
    BY <1>2, <1>3, LenProperties
  <2> QED BY <2>1, <1>1
<1> QED BY <1>1, <1>3, <1>4 DEF Kinds

LEMMA KindsAppend ==
  ASSUME NEW q \in Seq(Message), NEW m \in Message
  PROVE  Kinds(Append(q, m)) = Append(Kinds(q), KindOf(m))
<1> DEFINE l == Kinds(Append(q, m))
           k == Kinds(q)
           r == Append(k, KindOf(m))
<1>1. /\ Append(q, m) \in Seq(Message) /\ Len(Append(q, m)) = Len(q) + 1
      /\ Append(q, m)[Len(q) + 1] = m
      /\ \A i \in 1 .. Len(q) : Append(q, m)[i] = q[i]
  BY AppendProperties
<1>2. /\ k \in Seq(Kind) /\ Len(k) = Len(q) /\ Len(q) \in Nat
      /\ \A i \in 1 .. Len(q) : k[i] = KindOf(q[i])
  BY KindsFacts
<1>3. /\ l \in Seq(Kind) /\ Len(l) = Len(q) + 1
      /\ \A i \in 1 .. Len(q) + 1 : l[i] = KindOf(Append(q, m)[i])
  BY <1>1, KindsFacts
<1> HIDE DEF k, l
<1>4. /\ r \in Seq(Kind) /\ Len(r) = Len(q) + 1 /\ r[Len(q) + 1] = KindOf(m)
      /\ \A i \in 1 .. Len(q) : r[i] = k[i]
  BY <1>2, KindOfIs, AppendProperties
<1> HIDE DEF r
<1>5. ASSUME NEW i \in 1 .. Len(q) + 1 PROVE l[i] = r[i]
  <2>1. i \in 1 .. Len(q) \/ i = Len(q) + 1 BY <1>2
  <2> QED BY <2>1, <1>1, <1>2, <1>3, <1>4
<1>6. l = r BY <1>3, <1>4, <1>5, SeqEqual
<1> QED BY <1>6 DEF l, r, k

LEMMA KindsTail ==
  ASSUME NEW q \in Seq(Message), q # << >>
  PROVE  Kinds(q) # << >> /\ Kinds(Tail(q)) = Tail(Kinds(q))
<1> DEFINE l == Kinds(Tail(q))
           k == Kinds(q)
<1>1. /\ Len(q) \in Nat /\ Len(q) # 0
      /\ Tail(q) \in Seq(Message) /\ Len(Tail(q)) = Len(q) - 1
      /\ \A i \in 1 .. Len(q) - 1 : Tail(q)[i] = q[i + 1]
  BY SeqFacts
<1>2. /\ k \in Seq(Kind) /\ Len(k) = Len(q)
      /\ \A i \in 1 .. Len(q) : k[i] = KindOf(q[i])
  BY KindsFacts
<1>3. /\ l \in Seq(Kind) /\ Len(l) = Len(q) - 1
      /\ \A i \in 1 .. Len(q) - 1 : l[i] = KindOf(Tail(q)[i])
  <2>1. /\ l \in Seq(Kind) /\ Len(l) = Len(Tail(q))
        /\ \A i \in 1 .. Len(Tail(q)) : l[i] = KindOf(Tail(q)[i])
    <3>1. Tail(q) \in Seq(Message) BY <1>1
    <3> QED BY <3>1, KindsFacts
  <2> QED BY <2>1, <1>1
<1> HIDE DEF k, l
<1>4. k # << >> BY <1>1, <1>2, SeqFacts
<1>5. /\ Tail(k) \in Seq(Kind) /\ Len(Tail(k)) = Len(q) - 1
      /\ \A i \in 1 .. Len(q) - 1 : Tail(k)[i] = k[i + 1]
  BY <1>2, <1>4, SeqFacts
<1>6. ASSUME NEW i \in 1 .. Len(q) - 1 PROVE l[i] = Tail(k)[i]
  <2>1. i + 1 \in 1 .. Len(q)
    <3>1. Len(q) \in Nat BY <1>1
    <3> QED BY <3>1
  <2> QED BY <2>1, <1>1, <1>2, <1>3, <1>5
<1>7. l = Tail(k) BY <1>3, <1>5, <1>6, SeqEqual
<1> QED BY <1>4, <1>7 DEF l, k

LEMMA TailAppend ==
  ASSUME NEW S, NEW q \in Seq(S), NEW m \in S, q # << >>
  PROVE  Append(q, m) # << >> /\ Tail(Append(q, m)) = Append(Tail(q), m)
<1> DEFINE a == Append(q, m)
           t == Tail(q)
           r == Append(t, m)
           n == Len(q)
<1>1. /\ n \in Nat /\ n # 0 /\ t \in Seq(S) /\ Len(t) = n - 1
      /\ \A i \in 1 .. n - 1 : t[i] = q[i + 1]
  BY SeqFacts
<1>2. /\ a \in Seq(S) /\ Len(a) = n + 1 /\ a[n + 1] = m
      /\ \A i \in 1 .. n : a[i] = q[i]
  BY AppendProperties
<1> HIDE DEF a, t, n
<1>3. /\ r \in Seq(S) /\ Len(r) = Len(t) + 1 /\ r[Len(t) + 1] = m
      /\ \A i \in 1 .. Len(t) : r[i] = t[i]
  BY <1>1, AppendProperties
<1> HIDE DEF r
<1>4. a # << >>
  <2>1. n + 1 # 0 BY <1>1
  <2> QED BY <2>1, <1>2, SeqFacts
<1>5. /\ Tail(a) \in Seq(S) /\ Len(Tail(a)) = Len(a) - 1
      /\ \A i \in 1 .. Len(a) - 1 : Tail(a)[i] = a[i + 1]
  BY <1>2, <1>4, SeqFacts
<1>6. n \in Nat /\ Len(Tail(a)) = n /\ Len(r) = n /\ Len(t) + 1 = n
  BY <1>1, <1>2, <1>3, <1>5
<1>7. ASSUME NEW i \in 1 .. n PROVE Tail(a)[i] = r[i]
  <2>1. Tail(a)[i] = a[i + 1]
    <3>1. Len(a) - 1 = n BY <1>2, <1>6
    <3> QED BY <3>1, <1>5
  <2>2. CASE i = n BY <2>1, <2>2, <1>2, <1>3, <1>6
  <2>3. CASE i # n
    <3>1. i \in 1 .. n - 1 /\ i + 1 \in 1 .. n BY <2>3, <1>6
    <3>2. i \in 1 .. Len(t)
      <4>1. Len(t) = n - 1 BY <1>1
      <4> QED BY <3>1, <4>1
    <3>3. a[i + 1] = q[i + 1] BY <3>1, <1>2
    <3>4. r[i] = t[i] BY <3>2, <1>3
    <3>5. t[i] = q[i + 1] BY <3>1, <1>1
    <3> QED BY <2>1, <3>3, <3>4, <3>5
  <2> QED BY <2>2, <2>3
<1>8. Tail(a) = r
  <2>1. Len(Tail(a)) = Len(r) /\ \A i \in 1 .. Len(Tail(a)) : Tail(a)[i] = r[i]
    BY <1>6, <1>7
  <2> QED BY <2>1, <1>3, <1>5, SeqEqual
<1> QED BY <1>4, <1>8 DEF a, r, t

LEMMA LinkIs ==
  ASSUME TypeOK, NEW e \in Executor, NEW f \in Executor
  PROVE  /\ AbstractLink(e, f) \in Seq(Kind)
         /\ Unanswered(e, f) <=>
               \E i \in 1 .. Len(Posted(e, f)) : IsLoad(Posted(e, f)[i])
<1>1. PICK q \in Seq(Message) : q = Posted(e, f) BY PairFacts
<1> DEFINE k == Kinds(q)
<1>2. /\ k \in Seq(Kind) /\ Len(k) = Len(q) /\ Len(q) \in Nat
      /\ \A i \in 1 .. Len(q) : k[i] = KindOf(q[i])
  BY KindsFacts
<1>3. \A i \in 1 .. Len(q) : q[i] \in Message BY SeqFacts
<1>4. \A i \in 1 .. Len(q) : k[i] = "load" <=> IsLoad(q[i])
  BY <1>2, <1>3, KindOfIs
<1> HIDE DEF k
<1> DEFINE l == AbstractLink(e, f)
<1>5. CASE ~Due(e, f)
  <2>1. l = k BY <1>1, <1>5 DEF AbstractLink, k
  <2>2. DOMAIN l = 1 .. Len(q) BY <2>1, <1>2, LenProperties
  <2> HIDE DEF l
  <2>3. (\E i \in DOMAIN l : l[i] = "load") <=> \E i \in 1 .. Len(q) : IsLoad(q[i])
    BY <2>1, <2>2, <1>4
  <2>4. l \in Seq(Kind) BY <2>1, <1>2
  <2> QED BY <2>3, <2>4, <1>1 DEF l, Unanswered
<1>6. CASE Due(e, f)
  <2>1. l = Append(k, "end") BY <1>1, <1>6 DEF AbstractLink, k
  <2> HIDE DEF l
  <2>2. /\ l \in Seq(Kind) /\ Len(l) = Len(q) + 1 /\ l[Len(q) + 1] = "end"
        /\ \A i \in 1 .. Len(q) : l[i] = k[i]
    <3>1. "end" \in Kind BY DEF Kind
    <3> QED BY <2>1, <3>1, <1>2, AppendProperties
  <2>3. DOMAIN l = 1 .. Len(q) + 1 BY <2>2, LenProperties
  <2>4. (\E i \in DOMAIN l : l[i] = "load") <=> \E i \in 1 .. Len(q) : IsLoad(q[i])
    <3>1. ASSUME NEW i \in DOMAIN l, l[i] = "load"
          PROVE  i \in 1 .. Len(q) /\ IsLoad(q[i])
      <4>1. i # Len(q) + 1 BY <3>1, <2>2
      <4>2. i \in 1 .. Len(q) BY <4>1, <2>3, <1>2
      <4> QED BY <4>2, <3>1, <2>2, <1>4
    <3>2. ASSUME NEW i \in 1 .. Len(q), IsLoad(q[i])
          PROVE  i \in DOMAIN l /\ l[i] = "load"
      <4>1. i \in 1 .. Len(q) + 1 BY <1>2
      <4> QED BY <4>1, <3>2, <2>2, <2>3, <1>4
    <3> QED BY <3>1, <3>2
  <2> QED BY <2>2, <2>4, <1>1 DEF l, Unanswered
<1> QED BY <1>5, <1>6

(* The library operators that Termination brings with it are the same.     *)
LEMMA SameOperators ==
  /\ Abstract!Cardinality(Executor) = Cardinality(Executor)
  /\ \A q, i : Abstract!RemoveAt(q, i) = RemoveAt(q, i)
<1>1. Abstract!Cardinality(Executor) = Cardinality(Executor)
  BY DEF Abstract!Cardinality, Cardinality
<1>2. ASSUME NEW q, NEW i PROVE Abstract!RemoveAt(q, i) = RemoveAt(q, i)
  BY DEF Abstract!RemoveAt, RemoveAt
<1> QED BY <1>1, <1>2

(* What the view shows of one executor or one pair                         *)
LEMMA ViewIs ==
  /\ \A e \in Executor :
        /\ user[e].at = "rx" => AbstractUser[e] = <<"waits", user[e].peer>>
        /\ user[e].at = "ended" => AbstractUser[e] = <<"ended">>
        /\ user[e].at \in {"running", "tx"} => AbstractUser[e] = <<"running">>
        /\ AbstractMade[e] = IF user[e].at = "tx" THEN made[e] - 1 ELSE made[e]
        /\ AbstractDaemon[e] = IF daemon[e] = "leaving" THEN "draining" ELSE daemon[e]
  /\ \A e, f \in Executor :
        /\ AbstractLinks[e][f] = AbstractLink(e, f)
        /\ f \in AbstractAnswers[e] <=> Waits(e, f) /\ ~Unanswered(e, f)
BY DEF AbstractUser, AbstractMade, AbstractDaemon, AbstractLinks, AbstractAnswers

UnansweredIs ==
    \A e, f \in Executor :
        Unanswered(e, f) <=> \E i \in 1 .. Len(Posted(e, f)) : IsLoad(Posted(e, f)[i])

LEMMA UnansweredHolds == TypeOK => UnansweredIs
BY LinkIs DEF UnansweredIs

LEMMA UnansweredNext == TypeOK' => UnansweredIs'
BY UnansweredHolds, PTL

(* A link looks the same when the same is posted and the same is due.      *)
LEMMA LinkKept ==
  ASSUME NEW e \in Executor, NEW f \in Executor, Posted(e, f)' = Posted(e, f),
         Due(e, f)' <=> Due(e, f)
  PROVE  AbstractLink(e, f)' = AbstractLink(e, f)
BY DEF AbstractLink

LEMMA LinksKept ==
  ASSUME \A e, f \in Executor : AbstractLink(e, f)' = AbstractLink(e, f)
  PROVE  AbstractLinks' = AbstractLinks
BY DEF AbstractLinks

(* Answers are on their way to those who wait and whose request is no      *)
(* longer in the link.                                                     *)
LEMMA AnswersKept ==
  ASSUME \A e, f \in Executor :
            Waits(e, f)' /\ ~Unanswered(e, f)' <=> Waits(e, f) /\ ~Unanswered(e, f)
  PROVE  AbstractAnswers' = AbstractAnswers
BY DEF AbstractAnswers

LEMMA UnansweredKept ==
  ASSUME NEW e \in Executor, NEW f \in Executor,
         AbstractLink(e, f)' = AbstractLink(e, f)
  PROVE  Unanswered(e, f)' <=> Unanswered(e, f)
BY DEF Unanswered

LEMMA UserKept ==
  ASSUME UNCHANGED <<user, made>>
  PROVE  /\ AbstractUser' = AbstractUser /\ AbstractMade' = AbstractMade
         /\ \A e, f : Waits(e, f)' <=> Waits(e, f)
BY DEF AbstractUser, AbstractMade, Waits

LEMMA DaemonKept ==
  ASSUME UNCHANGED daemon
  PROVE  AbstractDaemon' = AbstractDaemon
BY DEF AbstractDaemon

LEMMA ViewKept ==
  ASSUME UNCHANGED <<AbstractUser, AbstractMade, AbstractDaemon, cnt,
                     AbstractLinks, AbstractAnswers>>
  PROVE  UNCHANGED Abstract!vars
BY DEF Abstract!vars

(* Steps that leave users and daemons alone and move no request            *)
LEMMA ViewStutters ==
  ASSUME UNCHANGED <<user, made, daemon, cnt>>,
         \A e, f \in Executor : AbstractLink(e, f)' = AbstractLink(e, f)
  PROVE  UNCHANGED Abstract!vars
<1>1. /\ AbstractUser' = AbstractUser /\ AbstractMade' = AbstractMade
      /\ \A e, f : Waits(e, f)' <=> Waits(e, f)
  BY UserKept
<1>2. AbstractDaemon' = AbstractDaemon BY DaemonKept
<1>3. AbstractLinks' = AbstractLinks BY LinksKept
<1>4. AbstractAnswers' = AbstractAnswers
  BY <1>1, UnansweredKept, AnswersKept
<1> QED BY <1>1, <1>2, <1>3, <1>4, ViewKept

-----------------------------------------------------------------------------
(* Every step is one of Termination or none *)

LEMMA BufferStutters ==
  ASSUME IInv, NEW e \in Executor,
         Lend(e) \/ AnswerTx(e) \/ \E f \in Executor : Deliver(e, f)
  PROVE  UNCHANGED Abstract!vars
<1>1. UNCHANGED <<user, made, daemon, cnt, told>>
  BY DEF Lend, AnswerTx, Deliver, userVars
<1>2. ASSUME NEW g \in Executor, NEW h \in Executor
      PROVE  Posted(g, h)' = Posted(g, h)
  <2>1. CASE Lend(e) BY <2>1, LendPosts
  <2>2. CASE AnswerTx(e)
    <3>1. UNCHANGED <<rx, p, request>> BY <2>2 DEF AnswerTx
    <3> QED BY <3>1, PostedKept
  <2>3. CASE \E f \in Executor : Deliver(e, f) BY <2>3, DeliverPosts
  <2> QED BY <2>1, <2>2, <2>3
<1>3. ASSUME NEW g \in Executor, NEW h \in Executor
      PROVE  AbstractLink(g, h)' = AbstractLink(g, h)
  <2>1. Due(g, h)' <=> Due(g, h) BY <1>1 DEF Due
  <2> QED BY <2>1, <1>2, LinkKept
<1> QED BY <1>1, <1>3, ViewStutters

(* One send of a broadcast that has happened                               *)
LEMMA BroadcastTxStutters ==
  ASSUME IInv, NEW e \in Executor, BroadcastTx(e)
  PROVE  UNCHANGED Abstract!vars
<1> DEFINE m == [op |-> "DMN_END", from |-> e, nr |-> 0]
<1>0. TypeOK /\ IInv' BY BroadcastTxKeeps DEF IInv
<1>1. PICK f \in Others(e) \ told[e] :
        /\ told' = [told EXCEPT ![e] = @ \cup {f}]
        /\ Tx(request, e, f, m)
  BY DEF BroadcastTx, Untold
<1>2. daemon[e] = "leaving" /\ UNCHANGED <<user, made, daemon, cnt, rx, p>>
  BY DEF BroadcastTx, userVars
<1>3. f \in Executor /\ f # e BY DEF Others
<1>4. m \in Message /\ m.op = "DMN_END"
  BY Chunks, EndpointAssumption DEF Message
<1>5. KindOf(m) = "end" BY <1>4, KindOfIs
<1> HIDE DEF m
<1>6. /\ Posted(e, f)' = Append(Posted(e, f), m)
      /\ \A g, h \in Executor : g # e \/ h # f => Posted(g, h)' = Posted(g, h)
  BY <1>0, <1>1, <1>2, <1>3, <1>4, TxPosts
<1>7. /\ told'[e] = told[e] \cup {f}
      /\ \A g \in Executor : g # e => told'[g] = told[g]
  BY <1>0, <1>1 DEF TypeOK
<1>8. ASSUME NEW g \in Executor, NEW h \in Executor
      PROVE  AbstractLink(g, h)' = AbstractLink(g, h)
  <2>1. CASE g # e \/ h # f
    <3>1. Due(g, h)' <=> Due(g, h) BY <2>1, <1>2, <1>7 DEF Due
    <3> QED BY <2>1, <3>1, <1>6, LinkKept
  <2>2. CASE g = e /\ h = f
    <3>1. Due(e, f) /\ ~Due(e, f)' BY <1>1, <1>2, <1>7 DEF Due
    <3>2. AbstractLink(e, f) = Append(Kinds(Posted(e, f)), "end")
      BY <3>1 DEF AbstractLink
    <3>3. AbstractLink(e, f)' = Kinds(Append(Posted(e, f), m))
      BY <3>1, <1>6 DEF AbstractLink
    <3>4. Posted(e, f) \in Seq(Message) BY <1>0, <1>3, PairFacts
    <3> QED BY <2>2, <3>2, <3>3, <3>4, <1>4, <1>5, KindsAppend
  <2> QED BY <2>1, <2>2
<1> QED BY <1>2, <1>8, ViewStutters

(* A call is not yet a request.                                            *)
LEMMA CallStutters ==
  ASSUME IInv, NEW e \in Executor, NEW f \in Executor, NEW op \in Op, Call(e, f, op)
  PROVE  UNCHANGED Abstract!vars
<1>0. TypeOK BY DEF IInv
<1>1. /\ user[e].at = "running"
      /\ made' = [made EXCEPT ![e] = @ + 1]
      /\ user' = [user EXCEPT ![e] = In("tx", f, op)]
      /\ UNCHANGED <<daemon, cnt, told, rx, p, request>>
  BY DEF Call, daemonVars
<1>2. /\ user \in [Executor -> Place] /\ made \in [Executor -> 0 .. MaxRequests]
  BY <1>0 DEF TypeOK
<1>3. /\ user'[e] = In("tx", f, op) /\ made'[e] = made[e] + 1 /\ made[e] \in Nat
      /\ \A g \in Executor : g # e => user'[g] = user[g] /\ made'[g] = made[g]
  BY <1>1, <1>2, EndpointAssumption
<1>4. user'[e].at = "tx" BY <1>3, Fields
<1>5. AbstractUser' = AbstractUser
  <2>1. ASSUME NEW g \in Executor PROVE AbstractUser'[g] = AbstractUser[g]
    BY <1>1, <1>3, <1>4 DEF AbstractUser
  <2> QED BY <2>1 DEF AbstractUser
<1>6. AbstractMade' = AbstractMade
  <2>1. ASSUME NEW g \in Executor PROVE AbstractMade'[g] = AbstractMade[g]
    BY <1>1, <1>3, <1>4 DEF AbstractMade
  <2> QED BY <2>1 DEF AbstractMade
<1>7. AbstractDaemon' = AbstractDaemon BY <1>1, DaemonKept
<1>8. ASSUME NEW g \in Executor, NEW h \in Executor
      PROVE  AbstractLink(g, h)' = AbstractLink(g, h)
  <2>1. Due(g, h)' <=> Due(g, h) BY <1>1 DEF Due
  <2> QED BY <2>1, <1>1, PostedKept, LinkKept
<1>9. AbstractLinks' = AbstractLinks BY <1>8, LinksKept
<1>10. AbstractAnswers' = AbstractAnswers
  <2>1. \A g, h \in Executor : Waits(g, h)' <=> Waits(g, h)
    BY <1>1, <1>3, <1>4 DEF Waits
  <2> QED BY <2>1, <1>8, UnansweredKept, AnswersKept
<1> QED BY <1>1, <1>5, <1>6, <1>7, <1>9, <1>10, ViewKept

LEMMA EndIsEnd ==
  ASSUME IInv, NEW e \in Executor, End(e)
  PROVE  Abstract!End(e)
<1>0. TypeOK BY DEF IInv
<1>1. /\ user[e].at = "running" /\ user' = [user EXCEPT ![e] = At("ended")]
      /\ UNCHANGED <<made, daemon, cnt, told, rx, p, request>>
  BY DEF End, daemonVars
<1>2. /\ user'[e].at = "ended"
      /\ \A g \in Executor : g # e => user'[g] = user[g]
  BY <1>0, <1>1, Fields DEF TypeOK
<1>3. AbstractUser[e] = <<"running">> BY <1>1, ViewIs
<1>4. AbstractUser' = [AbstractUser EXCEPT ![e] = <<"ended">>]
  <2>1. ASSUME NEW g \in Executor
        PROVE  AbstractUser'[g] = IF g = e THEN <<"ended">> ELSE AbstractUser[g]
    BY <1>2 DEF AbstractUser
  <2> QED BY <2>1 DEF AbstractUser
<1>5. AbstractMade' = AbstractMade
  <2>1. ASSUME NEW g \in Executor PROVE AbstractMade'[g] = AbstractMade[g]
    BY <1>1, <1>2 DEF AbstractMade
  <2> QED BY <2>1 DEF AbstractMade
<1>6. AbstractDaemon' = AbstractDaemon BY <1>1, DaemonKept
<1>7. ASSUME NEW g \in Executor, NEW h \in Executor
      PROVE  AbstractLink(g, h)' = AbstractLink(g, h)
  <2>1. Due(g, h)' <=> Due(g, h) BY <1>1 DEF Due
  <2> QED BY <2>1, <1>1, PostedKept, LinkKept
<1>8. AbstractLinks' = AbstractLinks BY <1>7, LinksKept
<1>9. AbstractAnswers' = AbstractAnswers
  <2>1. \A g, h \in Executor : Waits(g, h)' <=> Waits(g, h)
    BY <1>1, <1>2 DEF Waits
  <2> QED BY <2>1, <1>7, UnansweredKept, AnswersKept
<1> QED BY <1>1, <1>3, <1>4, <1>5, <1>6, <1>8, <1>9 DEF Abstract!End

(* Leaving the first loop is the broadcast: every DMN_END is due.          *)
LEMMA LeaveIsBroadcast ==
  ASSUME IInv, NEW e \in Executor, Leave(e)
  PROVE  Abstract!Broadcast(e)
<1>0. TypeOK /\ DaemonOK(e) BY DEF IInv, Locals
<1>1. /\ daemon[e] = "serving"
      /\ user[e].at = "ended" \/ Others(e) = {}
      /\ daemon' = [daemon EXCEPT ![e] = "leaving"]
      /\ UNCHANGED <<user, made, cnt, told, rx, p, request>>
  BY DEF Leave, userVars
<1>2. daemon'[e] = "leaving" /\ \A g \in Executor : g # e => daemon'[g] = daemon[g]
  BY <1>0, <1>1 DEF TypeOK
<1>3. AbstractDaemon[e] = "serving" BY <1>1, ViewIs
<1>4. AbstractUser[e] = <<"ended">> \/ Cardinality(Executor) = 1
  <2>1. ASSUME Others(e) = {} PROVE Cardinality(Executor) = 1
    <3>1. Executor = {e} BY <2>1 DEF Others
    <3> QED BY <3>1, FS_Singleton
  <2> QED BY <2>1, <1>1, ViewIs
<1>5. AbstractDaemon' = [AbstractDaemon EXCEPT ![e] = "draining"]
  <2>1. ASSUME NEW g \in Executor
        PROVE  AbstractDaemon'[g] = IF g = e THEN "draining" ELSE AbstractDaemon[g]
    BY <1>2 DEF AbstractDaemon
  <2> QED BY <2>1 DEF AbstractDaemon
<1>6. /\ AbstractUser' = AbstractUser /\ AbstractMade' = AbstractMade
      /\ \A g, h : Waits(g, h)' <=> Waits(g, h)
  BY <1>1, UserKept
<1>7. ASSUME NEW g \in Executor, NEW h \in Executor
      PROVE  Posted(g, h)' = Posted(g, h)
  BY <1>1, PostedKept
<1>8. ASSUME NEW g \in Executor, NEW h \in Executor
      PROVE  /\ g = e /\ h # e => AbstractLink(g, h)' = Append(AbstractLink(g, h), "end")
             /\ g # e \/ h = e => AbstractLink(g, h)' = AbstractLink(g, h)
  <2>1. CASE g = e /\ h # e
    <3>1. told[e] = {} BY <1>0, <1>1 DEF DaemonOK
    <3>2. Due(g, h)' /\ ~Due(g, h) BY <2>1, <3>1, <1>1, <1>2 DEF Due, Others
    <3> QED BY <2>1, <3>2, <1>7 DEF AbstractLink
  <2>2. CASE g # e \/ h = e
    <3>1. Due(g, h)' <=> Due(g, h) BY <2>2, <1>1, <1>2 DEF Due, Others
    <3> QED BY <2>2, <3>1, <1>7, LinkKept
  <2> QED BY <2>1, <2>2
<1>9. AbstractLinks' = [AbstractLinks EXCEPT ![e] = [f \in Executor |->
          IF f = e THEN AbstractLinks[e][f] ELSE Append(AbstractLinks[e][f], "end")]]
  <2> DEFINE l == [f \in Executor |-> IF f = e THEN AbstractLinks[e][f]
                                      ELSE Append(AbstractLinks[e][f], "end")]
  <2>1. \A f \in Executor : AbstractLinks[e][f] = AbstractLink(e, f) BY ViewIs
  <2>2. AbstractLinks'[e] = l
    <3>1. AbstractLinks'[e] = [f \in Executor |-> AbstractLink(e, f)']
      BY DEF AbstractLinks
    <3>2. ASSUME NEW f \in Executor PROVE AbstractLink(e, f)' = l[f]
      BY <2>1, <1>8
    <3> QED BY <3>1, <3>2
  <2> HIDE DEF l
  <2>3. ASSUME NEW g \in Executor, g # e PROVE AbstractLinks'[g] = AbstractLinks[g]
    BY <2>3, <1>8 DEF AbstractLinks
  <2>4. AbstractLinks' = [AbstractLinks EXCEPT ![e] = l]
    BY <2>2, <2>3 DEF AbstractLinks
  <2> QED BY <2>4 DEF l
<1>10. AbstractAnswers' = AbstractAnswers
  <2>1. ASSUME NEW g \in Executor, NEW h \in Executor
        PROVE  Unanswered(g, h)' <=> Unanswered(g, h)
    <3>1. Unanswered(g, h) <=> \E i \in 1 .. Len(Posted(g, h)) : IsLoad(Posted(g, h)[i])
      BY <1>0, LinkIs
    <3>2. Unanswered(g, h)' <=>
             \E i \in 1 .. Len(Posted(g, h)') : IsLoad(Posted(g, h)'[i])
      BY UnansweredNext, LoopKeeps DEF IInv, UnansweredIs
    <3> QED BY <3>1, <3>2, <1>7
  <2> QED BY <2>1, <1>6, AnswersKept
<1> QED
  BY <1>1, <1>3, <1>4, <1>5, <1>6, <1>9, <1>10, SameOperators DEF Abstract!Broadcast

LEMMA ExitIsExit ==
  ASSUME IInv, NEW e \in Executor, Exit(e)
  PROVE  Abstract!Exit(e)
<1>0. TypeOK BY DEF IInv
<1>1. /\ daemon[e] = "leaving" /\ told[e] = Others(e) /\ cnt[e] = 0
      /\ daemon' = [daemon EXCEPT ![e] = "done"]
      /\ UNCHANGED <<user, made, cnt, told, rx, p, request>>
  BY DEF Exit, userVars
<1>2. daemon'[e] = "done" /\ \A g \in Executor : g # e => daemon'[g] = daemon[g]
  BY <1>0, <1>1 DEF TypeOK
<1>3. AbstractDaemon[e] = "draining" BY <1>1, ViewIs
<1>4. AbstractDaemon' = [AbstractDaemon EXCEPT ![e] = "done"]
  <2>1. ASSUME NEW g \in Executor
        PROVE  AbstractDaemon'[g] = IF g = e THEN "done" ELSE AbstractDaemon[g]
    BY <1>2 DEF AbstractDaemon
  <2> QED BY <2>1 DEF AbstractDaemon
<1>5. /\ AbstractUser' = AbstractUser /\ AbstractMade' = AbstractMade
      /\ \A g, h : Waits(g, h)' <=> Waits(g, h)
  BY <1>1, UserKept
<1>6. ASSUME NEW g \in Executor, NEW h \in Executor
      PROVE  AbstractLink(g, h)' = AbstractLink(g, h)
  <2>1. Due(g, h)' <=> Due(g, h) BY <1>1, <1>2 DEF Due
  <2> QED BY <2>1, <1>1, PostedKept, LinkKept
<1>7. AbstractLinks' = AbstractLinks BY <1>6, LinksKept
<1>8. AbstractAnswers' = AbstractAnswers
  BY <1>5, <1>6, UnansweredKept, AnswersKept
<1> QED BY <1>1, <1>3, <1>4, <1>5, <1>7, <1>8 DEF Abstract!Exit

(* A request is made when it is sent.                                      *)
LEMMA UserTxIsRequest ==
  ASSUME IInv, NEW e \in Executor, UserTx(e)
  PROVE  \E f \in Executor, kind \in {"load", "tell"} : Abstract!Request(e, f, kind)
<1>0. TypeOK /\ Pairs /\ Locals BY DEF IInv
<1>1. user[e].at = "tx" /\ UNCHANGED <<made, daemon, cnt, told, rx, p>>
  BY DEF UserTx, daemonVars
<1>2. PICK f \in Executor, op \in Op : f = user[e].peer /\ op = user[e].op
  BY <1>0, <1>1, UserFacts
<1>3. PICK m \in Message :
        /\ m.op = op /\ Tx(request, e, f, m)
        /\ user' = [user EXCEPT ![e] = IF ChunksOf[op] > 0 THEN In("rx", f, op)
                                                           ELSE At("running")]
  <2>1. made[e] \in 0 .. MaxRequests BY <1>0 DEF TypeOK
  <2>2. [op |-> op, from |-> e, nr |-> made[e]] \in Message
    BY <2>1, Chunks DEF Message
  <2> QED BY <2>2, <1>2 DEF UserTx
<1>4. UserOK(e) /\ DaemonOK(e) BY <1>0 DEF Locals
<1>5. f # e /\ made[e] >= 1 BY <1>1, <1>2, <1>4 DEF UserOK
<1>6. daemon[e] = "serving" BY <1>1, <1>4, <1>5, Busy
<1> DEFINE k == KindOf(m)
<1>7. k \in {"load", "tell"} /\ (k = "load" <=> ChunksOf[op] > 0)
  BY <1>3, KindOfIs, Chunks DEF Kind, IsLoad
<1> HIDE DEF k
<1>8. /\ ChunksOf[op] > 0 => user'[e].at = "rx" /\ user'[e].peer = f
      /\ ~(ChunksOf[op] > 0) => user'[e].at = "running"
      /\ \A g \in Executor : g # e => user'[g] = user[g]
  <2>1. user \in [Executor -> Place] BY <1>0 DEF TypeOK
  <2>2. /\ ChunksOf[op] > 0 => user'[e] = In("rx", f, op)
        /\ ~(ChunksOf[op] > 0) => user'[e] = At("running")
        /\ \A g \in Executor : g # e => user'[g] = user[g]
    BY <2>1, <1>3
  <2> QED BY <2>2, Fields
<1>9. /\ Posted(e, f)' = Append(Posted(e, f), m)
      /\ \A g, h \in Executor : g # e \/ h # f => Posted(g, h)' = Posted(g, h)
  BY <1>0, <1>1, <1>3, TxPosts
<1>10. AbstractUser[e] = <<"running">> /\ AbstractMade[e] < MaxRequests
  <2>1. made[e] \in 0 .. MaxRequests BY <1>0 DEF TypeOK
  <2>2. made[e] - 1 < MaxRequests BY <2>1, <1>5, EndpointAssumption
  <2> QED BY <2>2, <1>1, ViewIs
<1>11. AbstractUser' = IF k = "load" THEN [AbstractUser EXCEPT ![e] = <<"waits", f>>]
                                     ELSE AbstractUser
  <2>1. CASE k = "load"
    <3>1. ASSUME NEW g \in Executor
          PROVE  AbstractUser'[g] = IF g = e THEN <<"waits", f>> ELSE AbstractUser[g]
      BY <2>1, <1>7, <1>8 DEF AbstractUser
    <3> QED BY <2>1, <3>1 DEF AbstractUser
  <2>2. CASE k # "load"
    <3>1. ASSUME NEW g \in Executor PROVE AbstractUser'[g] = AbstractUser[g]
      BY <2>2, <1>1, <1>7, <1>8 DEF AbstractUser
    <3> QED BY <2>2, <3>1 DEF AbstractUser
  <2> QED BY <2>1, <2>2
<1>12. AbstractMade' = [AbstractMade EXCEPT ![e] = @ + 1]
  <2>1. made[e] - 1 + 1 = made[e]
    <3>1. made[e] \in 0 .. MaxRequests BY <1>0 DEF TypeOK
    <3> QED BY <3>1, EndpointAssumption
  <2>2. user'[e].at # "tx" BY <1>8
  <2>3. ASSUME NEW g \in Executor
        PROVE  AbstractMade'[g] = IF g = e THEN AbstractMade[e] + 1 ELSE AbstractMade[g]
    BY <2>1, <2>2, <1>1, <1>8 DEF AbstractMade
  <2> QED BY <2>3 DEF AbstractMade
<1>13. AbstractDaemon' = AbstractDaemon BY <1>1, DaemonKept
<1>14. ASSUME NEW g \in Executor, NEW h \in Executor
       PROVE  /\ g = e /\ h = f => AbstractLink(g, h)' = Append(AbstractLink(g, h), k)
              /\ g # e \/ h # f => AbstractLink(g, h)' = AbstractLink(g, h)
  <2>1. CASE g = e /\ h = f
    <3>1. ~Due(e, f)' /\ ~Due(e, f) BY <1>1, <1>6 DEF Due
    <3>2. Posted(e, f) \in Seq(Message) BY <1>0, PairFacts
    <3>3. Kinds(Append(Posted(e, f), m)) = Append(Kinds(Posted(e, f)), k)
      BY <3>2, KindsAppend DEF k
    <3> QED BY <2>1, <3>1, <3>3, <1>9 DEF AbstractLink
  <2>2. CASE g # e \/ h # f
    <3>1. Due(g, h)' <=> Due(g, h) BY <1>1 DEF Due
    <3> QED BY <2>2, <3>1, <1>9, LinkKept
  <2> QED BY <2>1, <2>2
<1>15. AbstractLinks' = [AbstractLinks EXCEPT ![e][f] = Append(@, k)]
  <2> DEFINE l == [AbstractLinks[e] EXCEPT ![f] = Append(@, k)]
  <2>1. ASSUME NEW g \in Executor, g # e PROVE AbstractLinks'[g] = AbstractLinks[g]
    BY <2>1, <1>14 DEF AbstractLinks
  <2>2. AbstractLinks'[e] = l
    <3>1. ASSUME NEW h \in Executor
          PROVE  AbstractLinks'[e][h] =
                     IF h = f THEN Append(AbstractLinks[e][f], k) ELSE AbstractLinks[e][h]
      BY <1>14 DEF AbstractLinks
    <3> QED BY <3>1 DEF AbstractLinks
  <2> HIDE DEF l
  <2>3. AbstractLinks' = [AbstractLinks EXCEPT ![e] = l]
    BY <2>1, <2>2 DEF AbstractLinks
  <2> QED BY <2>3 DEF l
<1>16. AbstractAnswers' = AbstractAnswers
  <2>1. ASSUME NEW g \in Executor, NEW h \in Executor
        PROVE  Waits(g, h)' /\ ~Unanswered(g, h)' <=> Waits(g, h) /\ ~Unanswered(g, h)
    <3>1. CASE g # e
      <4>1. Waits(g, h)' <=> Waits(g, h) BY <3>1, <1>8 DEF Waits
      <4> QED BY <3>1, <4>1, <1>14, UnansweredKept
    <3>2. CASE g = e /\ h # f
      <4>1. ~Waits(g, h)' /\ ~Waits(g, h) BY <3>2, <1>1, <1>8 DEF Waits
      <4> QED BY <4>1
    <3>3. CASE g = e /\ h = f
      <4>1. ~Waits(g, h) BY <3>3, <1>1 DEF Waits
      <4>2. ASSUME Waits(e, f)' PROVE Unanswered(e, f)'
        <5>1. IsLoad(m) BY <4>2, <1>3, <1>8 DEF Waits, IsLoad
        <5>2. PICK q \in Seq(Message) : q = Posted(e, f) BY <1>0, PairFacts
        <5>3. /\ Len(q) + 1 \in 1 .. Len(Append(q, m))
              /\ Append(q, m)[Len(q) + 1] = m
          <6>1. Len(q) \in Nat BY SeqFacts
          <6>2. Len(Append(q, m)) = Len(q) + 1 /\ Append(q, m)[Len(q) + 1] = m
            BY AppendProperties
          <6> QED BY <6>1, <6>2
        <5>4. UnansweredIs' BY UserTxKeeps, UnansweredNext DEF IInv
        <5>5. \E i \in 1 .. Len(Posted(e, f)') : IsLoad(Posted(e, f)'[i])
          BY <5>1, <5>2, <5>3, <1>9
        <5> QED BY <5>4, <5>5 DEF UnansweredIs
      <4> QED BY <3>3, <4>1, <4>2
    <3> QED BY <3>1, <3>2, <3>3
  <2> QED BY <2>1, AnswersKept
<1>17. Abstract!Request(e, f, k)
  BY <1>1, <1>5, <1>10, <1>11, <1>12, <1>13, <1>15, <1>16 DEF Abstract!Request
<1> QED BY <1>7, <1>17

(* A request is served when it is polled.                                  *)
LEMMA PollIsPoll ==
  ASSUME IInv, NEW e \in Executor, Poll(e)
  PROVE  \E f \in Executor : Abstract!Poll(e, f)
<1>0. TypeOK /\ Pairs BY DEF IInv
<1>1. /\ Looping(e) /\ cnt' = [cnt EXCEPT ![e] = CntAfter(e, p[e].op)]
      /\ UNCHANGED <<user, made, daemon, told>>
  BY DEF Poll, userVars
<1>2. PICK f \in Executor, q \in Seq(Message) :
        /\ f = p[e].from /\ p[e] \in Message
        /\ q = Posted(f, e) /\ q # << >> /\ q[1] = p[e]
        /\ Posted(f, e)' = Tail(q)
        /\ \A g, h \in Executor : g # f \/ h # e => Posted(g, h)' = Posted(g, h)
  BY PollPosts
<1>3. PICK m \in Message : m = p[e] /\ q[1] = m BY <1>2
<1>4. \A g, h \in Executor : Due(g, h)' <=> Due(g, h) BY <1>1 DEF Due
<1> DEFINE l == AbstractLink(f, e)
           k == KindOf(m)
<1>5. /\ l \in Seq(Kind) /\ l # << >> /\ l[1] = k
      /\ AbstractLink(f, e)' = Tail(l)
  <2> DEFINE n == Kinds(q)
  <2>1. /\ n # << >> /\ Kinds(Tail(q)) = Tail(n) /\ n \in Seq(Kind)
        /\ Len(n) = Len(q) /\ Len(q) \in Nat /\ n[1] = k
    <3>1. n # << >> /\ Kinds(Tail(q)) = Tail(n) BY <1>2, KindsTail
    <3>2. /\ n \in Seq(Kind) /\ Len(n) = Len(q) /\ Len(q) \in Nat
          /\ \A i \in 1 .. Len(q) : n[i] = KindOf(q[i])
      BY KindsFacts
    <3>3. 1 \in 1 .. Len(q)
      <4>1. Len(q) # 0 BY <1>2, SeqFacts
      <4> QED BY <4>1, <3>2
    <3> QED BY <3>1, <3>2, <3>3, <1>3
  <2> HIDE DEF n, k
  <2>2. CASE ~Due(f, e)
    <3>1. l = n /\ AbstractLink(f, e)' = Kinds(Tail(q))
      BY <2>2, <1>2, <1>4 DEF AbstractLink, n
    <3> QED BY <2>1, <3>1
  <2>3. CASE Due(f, e)
    <3>1. l = Append(n, "end") /\ AbstractLink(f, e)' = Append(Kinds(Tail(q)), "end")
      BY <2>3, <1>2, <1>4 DEF AbstractLink, n
    <3>2. "end" \in Kind BY DEF Kind
    <3>3. Append(n, "end") # << >> /\ Tail(Append(n, "end")) = Append(Tail(n), "end")
      BY <2>1, <3>2, TailAppend
    <3>4. Append(n, "end") \in Seq(Kind) /\ Append(n, "end")[1] = n[1]
      <4>1. 1 \in 1 .. Len(n)
        <5>1. Len(n) # 0 BY <2>1, SeqFacts
        <5> QED BY <5>1, <2>1
      <4> QED BY <4>1, <2>1, <3>2, AppendProperties
    <3> QED BY <2>1, <3>1, <3>3, <3>4
  <2> QED BY <2>2, <2>3
<1>6. /\ k = "end" <=> m.op = "DMN_END"
      /\ k = "load" <=> IsLoad(m)
  BY KindOfIs
<1> HIDE DEF k, l
<1>7. RemoveAt(l, 1) = Tail(l) /\ 1 \in DOMAIN l
  <2>1. RemoveAt(l, 1) = Tail(l) BY <1>5, FirstRemoved
  <2>2. DOMAIN l = 1 .. Len(l) /\ Len(l) \in Nat /\ Len(l) # 0 BY <1>5, SeqFacts
  <2> QED BY <2>1, <2>2
<1>8. ASSUME NEW g \in Executor, NEW h \in Executor, g # f \/ h # e
      PROVE  AbstractLink(g, h)' = AbstractLink(g, h)
  BY <1>2, <1>4, <1>8, LinkKept
<1>9. AbstractLinks[f][e] = l BY ViewIs DEF l
<1>10. AbstractLinks' = [AbstractLinks EXCEPT ![f][e] = RemoveAt(@, 1)]
  <2> DEFINE r == RemoveAt(AbstractLinks[f][e], 1)
             n == [AbstractLinks[f] EXCEPT ![e] = r]
  <2>1. AbstractLink(f, e)' = r BY <1>5, <1>7, <1>9
  <2> HIDE DEF r
  <2>2. ASSUME NEW g \in Executor, g # f PROVE AbstractLinks'[g] = AbstractLinks[g]
    BY <2>2, <1>8 DEF AbstractLinks
  <2>3. AbstractLinks'[f] = n
    <3>1. ASSUME NEW h \in Executor
          PROVE  AbstractLinks'[f][h] = IF h = e THEN r ELSE AbstractLinks[f][h]
      BY <2>1, <1>8 DEF AbstractLinks
    <3> QED BY <3>1 DEF AbstractLinks
  <2> HIDE DEF n
  <2>4. AbstractLinks' = [AbstractLinks EXCEPT ![f] = n]
    BY <2>2, <2>3 DEF AbstractLinks
  <2> QED BY <2>4 DEF n, r
<1>11. cnt' = [cnt EXCEPT ![e] = Abstract!CntAfter(e, k)]
  BY <1>1, <1>3, <1>6 DEF CntAfter, Abstract!CntAfter
<1>12. \A g, h \in Executor : Waits(g, h)' <=> Waits(g, h)
  BY <1>1 DEF Waits
<1>13. AbstractAnswers' = IF k = "load" THEN [AbstractAnswers EXCEPT ![f] = @ \cup {e}]
                                        ELSE AbstractAnswers
  <2>1. UnansweredIs /\ UnansweredIs'
    BY <1>0, UnansweredHolds, UnansweredNext, PollKeeps DEF IInv
  <2>2. /\ Len(q) \in Nat /\ Len(q) # 0 /\ Len(Tail(q)) = Len(q) - 1
        /\ \A i \in 1 .. Len(q) - 1 : Tail(q)[i] = q[i + 1]
    BY <1>2, SeqFacts
  <2>3. PostedOK(f, e) BY <1>0 DEF Pairs, PairOK
  <2>4. CASE IsLoad(m)
    <3>1. Len(q) = 1 /\ Waits(f, e)
      <4>1. 1 \in 1 .. Len(q)
        <5>1. Len(q) \in Nat /\ Len(q) # 0 BY <2>2
        <5> QED BY <5>1
      <4> QED BY <4>1, <2>3, <2>4, <1>2, <1>3 DEF PostedOK, Awaited
    <3>2. ~Unanswered(f, e)'
      <4>1. Len(Posted(f, e)') = 0
        BY <3>1, <2>2, <1>2
      <4>2. 1 .. 0 = {} OBVIOUS
      <4> QED BY <4>1, <4>2, <2>1 DEF UnansweredIs
    <3>3. ASSUME NEW g \in Executor, NEW h \in Executor
          PROVE  Waits(g, h)' /\ ~Unanswered(g, h)' <=>
                     (Waits(g, h) /\ ~Unanswered(g, h)) \/ (g = f /\ h = e)
      <4>1. CASE g = f /\ h = e BY <4>1, <3>1, <3>2, <1>12
      <4>2. CASE g # f \/ h # e BY <4>2, <1>8, <1>12, UnansweredKept
      <4> QED BY <4>1, <4>2
    <3>4. AbstractAnswers' = [AbstractAnswers EXCEPT ![f] = @ \cup {e}]
      <4>1. ASSUME NEW g \in Executor
            PROVE  AbstractAnswers'[g] =
                       IF g = f THEN AbstractAnswers[f] \cup {e} ELSE AbstractAnswers[g]
        BY <3>3 DEF AbstractAnswers
      <4> QED BY <4>1 DEF AbstractAnswers
    <3> QED BY <2>4, <3>4, <1>6
  <2>5. CASE ~IsLoad(m)
    <3>1. Unanswered(f, e)' <=> Unanswered(f, e)
      <4>1. ASSUME NEW i \in 1 .. Len(q), IsLoad(q[i])
            PROVE  \E j \in 1 .. Len(Tail(q)) : IsLoad(Tail(q)[j])
        <5>1. i # 1 BY <4>1, <2>5, <1>3
        <5>2. i - 1 \in 1 .. Len(q) - 1 /\ i - 1 + 1 = i
          <6>1. Len(q) \in Nat BY <2>2
          <6> QED BY <6>1, <5>1
        <5>3. Tail(q)[i - 1] = q[i] BY <5>2, <2>2
        <5>4. i - 1 \in 1 .. Len(Tail(q)) BY <5>2, <2>2
        <5> QED BY <4>1, <5>3, <5>4
      <4>2. ASSUME NEW i \in 1 .. Len(Tail(q)), IsLoad(Tail(q)[i])
            PROVE  \E j \in 1 .. Len(q) : IsLoad(q[j])
        <5>1. i \in 1 .. Len(q) - 1 BY <2>2
        <5>2. Tail(q)[i] = q[i + 1] BY <5>1, <2>2
        <5>3. i + 1 \in 1 .. Len(q)
          <6>1. Len(q) \in Nat BY <2>2
          <6> QED BY <5>1, <6>1
        <5> QED BY <4>2, <5>2, <5>3
      <4>3. Unanswered(f, e) <=> \E j \in 1 .. Len(q) : IsLoad(q[j])
        BY <2>1, <1>2 DEF UnansweredIs
      <4>4. Unanswered(f, e)' <=> \E j \in 1 .. Len(Tail(q)) : IsLoad(Tail(q)[j])
        <5>1. Posted(f, e)' = Tail(q) BY <1>2
        <5> QED BY <5>1, <2>1 DEF UnansweredIs
      <4> QED BY <4>1, <4>2, <4>3, <4>4
    <3>2. ASSUME NEW g \in Executor, NEW h \in Executor
          PROVE  Unanswered(g, h)' <=> Unanswered(g, h)
      <4>1. CASE g = f /\ h = e BY <4>1, <3>1
      <4>2. CASE g # f \/ h # e BY <4>2, <1>8, UnansweredKept
      <4> QED BY <4>1, <4>2
    <3>3. AbstractAnswers' = AbstractAnswers BY <3>2, <1>12, AnswersKept
    <3> QED BY <2>5, <3>3, <1>6
  <2> QED BY <2>4, <2>5
<1>14. AbstractDaemon[e] = "serving" \/ (AbstractDaemon[e] = "draining" /\ cnt[e] # 0)
  <2>1. daemon[e] = "serving" \/ (daemon[e] = "leaving" /\ cnt[e] # 0)
    BY <1>1 DEF Looping
  <2> QED BY <2>1, ViewIs
<1>15. /\ AbstractUser' = AbstractUser /\ AbstractMade' = AbstractMade
       /\ AbstractDaemon' = AbstractDaemon
  BY <1>1, UserKept, DaemonKept
<1>16. 1 \in Abstract!Deliverable(AbstractLinks[f][e])
  BY <1>7, <1>9 DEF Abstract!Deliverable
<1>17. AbstractLinks[f][e][1] = k BY <1>5, <1>9
<1>18. Abstract!Poll(e, f)
  <2>1. AbstractLinks' = [AbstractLinks EXCEPT ![f][e] = Abstract!RemoveAt(@, 1)]
    BY <1>10, SameOperators
  <2> QED BY <2>1, <1>11, <1>13, <1>14, <1>15, <1>16, <1>17 DEF Abstract!Poll
<1> QED BY <1>18

(* A chunk that is not the last goes unseen; the last one is the answer.   *)
LEMMA UserRxIsAnswered ==
  ASSUME IInv, NEW e \in Executor, UserRx(e)
  PROVE  \/ UNCHANGED Abstract!vars
         \/ \E f \in Executor : Abstract!Answered(e, f)
<1>0. TypeOK /\ Pairs BY DEF IInv
<1>1. user[e].at = "rx" /\ UNCHANGED <<made, daemon, cnt, told, rx, p, request>>
  BY DEF UserRx, daemonVars
<1>2. PICK f \in Executor : f = user[e].peer BY <1>0, <1>1, UserFacts
<1>3. /\ answer[f][e] # << >>
      /\ user' = [user EXCEPT ![e] = At("running")] \/ user' = user
  BY <1>2 DEF UserRx
<1>4. ASSUME NEW g \in Executor, NEW h \in Executor
      PROVE  AbstractLink(g, h)' = AbstractLink(g, h)
  <2>1. Due(g, h)' <=> Due(g, h) BY <1>1 DEF Due
  <2> QED BY <2>1, <1>1, PostedKept, LinkKept
<1>5. CASE user' = user BY <1>1, <1>4, <1>5, ViewStutters
<1>6. CASE user' = [user EXCEPT ![e] = At("running")]
  <2>1. /\ user'[e].at = "running"
        /\ \A g \in Executor : g # e => user'[g] = user[g]
    BY <1>0, <1>6, Fields DEF TypeOK
  <2>2. AbstractUser[e] = <<"waits", f>> BY <1>1, <1>2, ViewIs
  <2>3. ~Unanswered(e, f)
    <3>1. PairOK(e, f) BY <1>0 DEF Pairs
    <3>2. Stream(e, f) # << >>
      <4>1. /\ Len(Stream(e, f)) = Len(got[e]) + Len(answer[f][e])
            /\ got[e] \in Seq(Chunk) /\ answer[f][e] \in Seq(Chunk)
        BY <1>0, PairFacts
      <4>2. /\ Len(got[e]) \in Nat /\ Len(answer[f][e]) \in Nat
            /\ Len(answer[f][e]) # 0
        BY <4>1, <1>3, SeqFacts
      <4>3. Len(Stream(e, f)) # 0
        <5>1. \A a, b \in Nat : b # 0 => a + b # 0 OBVIOUS
        <5> QED BY <5>1, <4>1, <4>2
      <4> QED BY <4>3, EmptySequence
    <3>3. \A i \in 1 .. Len(Posted(e, f)) : ~IsLoad(Posted(e, f)[i])
      BY <3>1, <3>2 DEF PairOK, PostedOK
    <3> QED BY <3>3, <1>0, UnansweredHolds DEF UnansweredIs
  <2>4. Waits(e, f) /\ \A h \in Executor : Waits(e, h) => h = f
    BY <1>1, <1>2 DEF Waits
  <2>5. f \in AbstractAnswers[e] BY <2>3, <2>4, ViewIs
  <2>6. AbstractAnswers' = [AbstractAnswers EXCEPT ![e] = @ \ {f}]
    <3>1. ASSUME NEW g \in Executor, NEW h \in Executor
          PROVE  Waits(g, h)' /\ ~Unanswered(g, h)' <=>
                     Waits(g, h) /\ ~Unanswered(g, h) /\ (g = e => h # f)
      <4>1. CASE g = e
        <5>1. ~Waits(e, h)' BY <2>1 DEF Waits
        <5> QED BY <4>1, <5>1, <2>4
      <4>2. CASE g # e
        <5>1. Waits(g, h)' <=> Waits(g, h) BY <4>2, <2>1 DEF Waits
        <5> QED BY <4>2, <5>1, <1>4, UnansweredKept
      <4> QED BY <4>1, <4>2
    <3>2. ASSUME NEW g \in Executor
          PROVE  AbstractAnswers'[g] =
                     IF g = e THEN AbstractAnswers[e] \ {f} ELSE AbstractAnswers[g]
      BY <3>1 DEF AbstractAnswers
    <3> QED BY <3>2 DEF AbstractAnswers
  <2>7. AbstractUser' = [AbstractUser EXCEPT ![e] = <<"running">>]
    <3>1. ASSUME NEW g \in Executor
          PROVE  AbstractUser'[g] = IF g = e THEN <<"running">> ELSE AbstractUser[g]
      BY <2>1 DEF AbstractUser
    <3> QED BY <3>1 DEF AbstractUser
  <2>8. AbstractMade' = AbstractMade
    <3>1. ASSUME NEW g \in Executor PROVE AbstractMade'[g] = AbstractMade[g]
      BY <2>1, <1>1 DEF AbstractMade
    <3> QED BY <3>1 DEF AbstractMade
  <2>9. AbstractDaemon' = AbstractDaemon /\ AbstractLinks' = AbstractLinks
    BY <1>1, <1>4, DaemonKept, LinksKept
  <2>10. Abstract!Answered(e, f)
    BY <1>1, <2>2, <2>5, <2>6, <2>7, <2>8, <2>9 DEF Abstract!Answered
  <2> QED BY <2>10
<1> QED BY <1>3, <1>5, <1>6

LEMMA InitImplements == Init => Abstract!Init
<1> SUFFICES ASSUME Init PROVE Abstract!Init
  OBVIOUS
<1>1. TypeOK BY InitIInv DEF IInv
<1>2. /\ \A e \in Executor : user[e].at = "running" /\ daemon[e] = "serving"
      /\ made = [e \in Executor |-> 0]
  BY Fields DEF Init
<1>3. ASSUME NEW e \in Executor, NEW f \in Executor
      PROVE  AbstractLink(e, f) = << >>
  <2>1. rx[f] # "complete" /\ request[e][f] = << >> BY DEF Init
  <2>2. Posted(e, f) = << >> BY <2>1, <1>1, PostedIs
  <2>3. Kinds(<< >>) = << >>
    <3>1. << >> \in Seq(Message) /\ Len(<< >>) = 0 BY EmptySequence
    <3>2. Kinds(<< >>) \in Seq(Kind) /\ Len(Kinds(<< >>)) = 0 BY <3>1, KindsFacts
    <3> QED BY <3>2, EmptySeq
  <2> QED BY <2>2, <2>3, <1>2 DEF AbstractLink, Due
<1>4. AbstractUser = [e \in Executor |-> <<"running">>] BY <1>2 DEF AbstractUser
<1>5. AbstractMade = [e \in Executor |-> 0] BY <1>2 DEF AbstractMade
<1>6. AbstractDaemon = [e \in Executor |-> "serving"] BY <1>2 DEF AbstractDaemon
<1>7. AbstractLinks = [e \in Executor |-> [f \in Executor |-> << >>]]
  BY <1>3 DEF AbstractLinks
<1>8. AbstractAnswers = [e \in Executor |-> {}] BY <1>2 DEF AbstractAnswers, Waits
<1>9. cnt = [e \in Executor |-> Abstract!Cardinality(Executor) - 1]
  BY SameOperators DEF Init
<1> QED BY <1>4, <1>5, <1>6, <1>7, <1>8, <1>9 DEF Abstract!Init

LEMMA NextImplements ==
  IInv /\ [Next]_vars => [Abstract!Next]_(Abstract!vars)
<1> SUFFICES ASSUME IInv, [Next]_vars
             PROVE  Abstract!Next \/ UNCHANGED Abstract!vars
  OBVIOUS
<1>1. ASSUME NEW e \in Executor, Abstract!User(e) \/ Abstract!Daemon(e)
      PROVE  Abstract!Next
  BY <1>1 DEF Abstract!Next
<1>2. ASSUME NEW e \in Executor, User(e)
      PROVE  Abstract!Next \/ UNCHANGED Abstract!vars
  <2>1. ASSUME NEW f \in Executor, NEW op \in Op, Call(e, f, op)
        PROVE  UNCHANGED Abstract!vars
    BY <2>1, CallStutters
  <2>2. CASE UserTx(e)
    <3>1. Abstract!User(e) BY <2>2, UserTxIsRequest DEF Abstract!User
    <3> QED BY <3>1, <1>1
  <2>3. CASE UserRx(e)
    <3>1. UNCHANGED Abstract!vars \/ Abstract!User(e)
      BY <2>3, UserRxIsAnswered DEF Abstract!User
    <3> QED BY <3>1, <1>1
  <2>4. CASE End(e)
    <3>1. Abstract!User(e) BY <2>4, EndIsEnd DEF Abstract!User
    <3> QED BY <3>1, <1>1
  <2> QED BY <2>1, <2>2, <2>3, <2>4, <1>2 DEF User
<1>3. ASSUME NEW e \in Executor, Daemon(e)
      PROVE  Abstract!Next \/ UNCHANGED Abstract!vars
  <2>1. CASE Poll(e)
    <3>1. Abstract!Daemon(e) BY <2>1, PollIsPoll DEF Abstract!Daemon
    <3> QED BY <3>1, <1>1
  <2>2. CASE AnswerTx(e) \/ Lend(e) BY <2>2, BufferStutters
  <2>3. CASE Leave(e)
    <3>1. Abstract!Daemon(e) BY <2>3, LeaveIsBroadcast DEF Abstract!Daemon
    <3> QED BY <3>1, <1>1
  <2>4. CASE BroadcastTx(e) BY <2>4, BroadcastTxStutters
  <2>5. CASE Exit(e)
    <3>1. Abstract!Daemon(e) BY <2>5, ExitIsExit DEF Abstract!Daemon
    <3> QED BY <3>1, <1>1
  <2> QED BY <2>1, <2>2, <2>3, <2>4, <2>5, <1>3 DEF Daemon
<1>4. ASSUME NEW e \in Executor, Provider(e) PROVE UNCHANGED Abstract!vars
  BY <1>4, BufferStutters DEF Provider
<1>5. CASE UNCHANGED vars
  <2>1. UNCHANGED <<user, made, daemon, cnt, told, rx, p, request>> BY <1>5 DEF vars
  <2>2. ASSUME NEW g \in Executor, NEW h \in Executor
        PROVE  AbstractLink(g, h)' = AbstractLink(g, h)
    <3>1. Due(g, h)' <=> Due(g, h) BY <2>1 DEF Due
    <3> QED BY <3>1, <2>1, PostedKept, LinkKept
  <2> QED BY <2>1, <2>2, ViewStutters
<1> QED BY <1>2, <1>3, <1>4, <1>5 DEF Next, Finished

(* Sending and receiving one message at a time, waiting for room, and      *)
(* serving nobody while it sends make no difference to how executors stop: *)
(* whatever Termination promises of the end holds of the links too.        *)
THEOREM EndpointImplements == Spec => ImplementsTermination
<1>1. Spec => Abstract!Init /\ [][Abstract!Next]_(Abstract!vars)
  BY InitImplements, NextImplements, Inductive, PTL DEF Spec
<1> QED BY <1>1 DEF ImplementsTermination, Abstract!Spec
=============================================================================
