------------------------------ MODULE Endpoint ------------------------------
(***************************************************************************)
(* The links between user threads and daemons, one send and one receive    *)
(* at a time (links_implementations/, and the calls of Context.hpp).       *)
(*                                                                         *)
(* Every send posts one buffer, again and again while the provider says    *)
(* -FI_EAGAIN, and spins for its completion.  A daemon has one buffer p:   *)
(* it lends p to the provider (nb_recv), polls until a request is in it,   *)
(* handles that request, which may take several sends to p.from, and only  *)
(* then lends p again.  A user thread that waits for an answer receives    *)
(* its chunks one by one from the executor it asked.                       *)
(*                                                                         *)
(* Termination is the same protocol with sends that never wait, answers    *)
(* in one piece and a broadcast in one step; ImplementsTermination says    *)
(* that this makes no difference.                                          *)
(***************************************************************************)
EXTENDS Integers, SequencesExt

CONSTANTS
    Executor,       \* the ranks
    MaxRequests,    \* bound: requests an application makes at most
    Asks,           \* who makes any of whom
    Op,             \* the requests they make
    Depth,          \* messages the provider keeps for a pair of endpoints
    LoadChunks      \* messages that a marshalled object is sent in

ASSUME EndpointAssumption ==
    /\ Executor \subseteq Nat /\ IsFiniteSet(Executor) /\ Executor # {}
    /\ MaxRequests \in Nat /\ Asks \subseteq Executor \X Executor
    /\ Op \subseteq {"RLOAD", "RC_GET", "PVT_RESET"}
    /\ Depth \in Nat \ {0} /\ LoadChunks \in Nat \ {0}

VARIABLES
    user,       \* user[e]: where the user thread is, and in which request
    made,       \* made[e]: requests it has made
    got,        \* got[e]: chunks of the answer it has received
    daemon,     \* daemon[e]: which loop the daemon is in
    cnt,        \* cnt[e]: executors it has not received DMN_END from
    told,       \* told[e]: executors it has sent DMN_END to
    rx,         \* rx[e]: the buffer p is with the provider ("posted"), filled
                \*   ("complete") or with the daemon ("taken")
    p,          \* p[e]: what is in the buffer
    sent,       \* sent[e]: chunks of the present answer sent; Idle when the
                \*   daemon is not handling a request
    request,    \* request[e][f]: from e to the daemon of f, in order
    answer      \* answer[e][f]: from the daemon of e to the user of f, in order

vars == <<user, made, got, daemon, cnt, told, rx, p, sent, request, answer>>
userVars == <<user, made, got>>
daemonVars == <<daemon, cnt, told, rx, p, sent>>

Others(e) == Executor \ {e}

(* How many messages the answer to a request is sent in *)
ChunksOf == [RLOAD |-> LoadChunks, RC_GET |-> 1, PVT_RESET |-> 0, DMN_END |-> 0]

Message == [op : DOMAIN ChunksOf, from : Executor, nr : 0 .. MaxRequests]
Chunk   == [nr : 1 .. MaxRequests, i : 1 .. LoadChunks]

Idle == LoadChunks + 1      \* a value of sent: no request in hand

(* Where a user thread is: in its application, in a send, in a receive, or *)
(* past the last destructor                                                *)
At(where) == [at |-> where]
In(where, f, op) == [at |-> where, peer |-> f, op |-> op]

Place == {At("running"), At("ended")} \cup
         {In(w, f, op) : w \in {"tx", "rx"}, f \in Executor, op \in Op}

TypeOK ==
    /\ user \in [Executor -> Place]
    /\ made \in [Executor -> 0 .. MaxRequests]
    /\ got \in [Executor -> Seq(Chunk)]
    /\ daemon \in [Executor -> {"serving", "leaving", "done"}]
    /\ cnt \in [Executor -> 0 .. Cardinality(Executor) - 1]
    /\ told \in [Executor -> SUBSET Executor]
    /\ rx \in [Executor -> {"posted", "complete", "taken"}]
    /\ p \in [Executor -> Message]
    /\ sent \in [Executor -> 0 .. Idle]
    /\ request \in [Executor -> [Executor -> Seq(Message)]]
    /\ answer \in [Executor -> [Executor -> Seq(Chunk)]]

(* The daemon starts by lending its buffer, unless it is alone. *)
Init ==
    /\ user = [e \in Executor |-> At("running")]
    /\ made = [e \in Executor |-> 0]
    /\ got = [e \in Executor |-> << >>]
    /\ daemon = [e \in Executor |-> "serving"]
    /\ cnt = [e \in Executor |-> Cardinality(Executor) - 1]
    /\ told = [e \in Executor |-> {}]
    /\ rx = [e \in Executor |-> IF Others(e) = {} THEN "taken" ELSE "posted"]
    /\ p = [e \in Executor |-> [op |-> "DMN_END", from |-> e, nr |-> 0]]
    /\ sent = [e \in Executor |-> Idle]
    /\ request = [e \in Executor |-> [f \in Executor |-> << >>]]
    /\ answer = [e \in Executor |-> [f \in Executor |-> << >>]]

(* Fault: a send that finds no room is not tried again. *)
Tx_Once(links, e, f, m) ==
    links' = [links EXCEPT ![e][f] = IF Len(@) < Depth THEN Append(@, m) ELSE @]

(* A send is accepted and completes: the end of the loop in fl_post_tx. *)
Tx(links, e, f, m) ==
    /\ Len(links[e][f]) < Depth
    /\ links' = [links EXCEPT ![e][f] = Append(@, m)]

-----------------------------------------------------------------------------
(* The user thread *)

(* It calls an operation that sends a request, and is then in fl_tx. *)
Call(e, f, op) ==
    /\ user[e].at = "running" /\ <<e, f>> \in Asks /\ f # e
    /\ made[e] < MaxRequests
    /\ made' = [made EXCEPT ![e] = @ + 1]
    /\ user' = [user EXCEPT ![e] = In("tx", f, op)]
    /\ UNCHANGED <<got, daemonVars, request, answer>>

UserTx(e) ==
    /\ user[e].at = "tx"
    /\ LET f  == user[e].peer
           op == user[e].op
       IN  /\ Tx(request, e, f, [op |-> op, from |-> e, nr |-> made[e]])
           /\ user' = [user EXCEPT ![e] = IF ChunksOf[op] > 0 THEN In("rx", f, op)
                                                              ELSE At("running")]
    /\ UNCHANGED <<made, got, daemonVars, answer>>

(* One receive of recv_kernel or recv_rc: posted for the executor that was *)
(* asked, and spun for                                                     *)
UserRx(e) ==
    /\ user[e].at = "rx"
    /\ LET f == user[e].peer
           g == Append(got[e], Head(answer[f][e]))
       IN  /\ answer[f][e] # << >>
           /\ answer' = [answer EXCEPT ![f][e] = Tail(@)]
           /\ IF Len(g) = ChunksOf[user[e].op]
              THEN /\ user' = [user EXCEPT ![e] = At("running")]
                   /\ got' = [got EXCEPT ![e] = << >>]
              ELSE /\ got' = [got EXCEPT ![e] = g]
                   /\ UNCHANGED user
    /\ UNCHANGED <<made, daemonVars, request>>

(* ~Context: daemon_termination = true, then join *)
End(e) ==
    /\ user[e].at = "running"
    /\ user' = [user EXCEPT ![e] = At("ended")]
    /\ UNCHANGED <<made, got, daemonVars, request, answer>>

-----------------------------------------------------------------------------
(* The daemon thread, and the provider that fills its buffer *)

Deliver(e, f) ==
    /\ rx[e] = "posted"
    /\ request[f][e] # << >>
    /\ p' = [p EXCEPT ![e] = Head(request[f][e])]
    /\ request' = [request EXCEPT ![f][e] = Tail(@)]
    /\ rx' = [rx EXCEPT ![e] = "complete"]
    /\ UNCHANGED <<userVars, daemon, cnt, told, sent, answer>>

Handling(e) == sent[e] # Idle

(* In one of its loops; the second ends with the last DMN_END. *)
Looping(e) ==
    \/ daemon[e] = "serving"
    \/ daemon[e] = "leaving" /\ told[e] = Others(e) /\ cnt[e] # 0

(* Fault: every request counts. *)
CntAfter_EveryRequest(e, op) == cnt[e] - 1

CntAfter(e, op) == IF op = "DMN_END" THEN cnt[e] - 1 ELSE cnt[e]

(* Fault: the buffer is lent again before the request is handled. *)
Poll_LendsFirst(e) ==
    /\ Looping(e) /\ ~Handling(e)
    /\ rx[e] = "complete"
    /\ rx' = [rx EXCEPT ![e] = "posted"]
    /\ sent' = [sent EXCEPT ![e] = 0]
    /\ cnt' = [cnt EXCEPT ![e] = CntAfter(e, p[e].op)]
    /\ UNCHANGED <<userVars, daemon, told, p, request, answer>>

(* nb_poll pops the completion; what is in p is handled next. *)
Poll(e) ==
    /\ Looping(e) /\ ~Handling(e)
    /\ rx[e] = "complete"
    /\ rx' = [rx EXCEPT ![e] = "taken"]
    /\ sent' = [sent EXCEPT ![e] = 0]
    /\ cnt' = [cnt EXCEPT ![e] = CntAfter(e, p[e].op)]
    /\ UNCHANGED <<userVars, daemon, told, p, request, answer>>

(* One send of an answer: where it goes is read from p every time. *)
AnswerTx(e) ==
    /\ Handling(e) /\ sent[e] < ChunksOf[p[e].op]
    /\ Tx(answer, e, p[e].from, [nr |-> p[e].nr, i |-> sent[e] + 1])
    /\ sent' = [sent EXCEPT ![e] = @ + 1]
    /\ UNCHANGED <<userVars, daemon, cnt, told, rx, p, request>>

(* The request is handled: nb_recv(p) *)
Lend(e) ==
    /\ Handling(e) /\ sent[e] = ChunksOf[p[e].op]
    /\ rx' = [rx EXCEPT ![e] = "posted"]
    /\ sent' = [sent EXCEPT ![e] = Idle]
    /\ UNCHANGED <<userVars, daemon, cnt, told, p, request, answer>>

(* Fault: the daemon does not wait for its user thread. *)
Leave_Early(e) ==
    /\ daemon[e] = "serving" /\ ~Handling(e)
    /\ daemon' = [daemon EXCEPT ![e] = "leaving"]
    /\ UNCHANGED <<userVars, cnt, told, rx, p, sent, request, answer>>

(* The first loop is over, whatever is still in the links, or was never    *)
(* entered by an executor that is alone.                                   *)
Leave(e) ==
    /\ daemon[e] = "serving" /\ ~Handling(e)
    /\ user[e].at = "ended" \/ Others(e) = {}
    /\ daemon' = [daemon EXCEPT ![e] = "leaving"]
    /\ UNCHANGED <<userVars, cnt, told, rx, p, sent, request, answer>>

(* The next receiver of a broadcast: in the order of the ranks *)
Untold(e) == {f \in Others(e) \ told[e] : \A g \in Others(e) \ told[e] : f <= g}

(* One send of the broadcast of DMN_END; no request is served meanwhile. *)
BroadcastTx(e) ==
    /\ daemon[e] = "leaving"
    /\ \E f \in Untold(e) :
        /\ told' = [told EXCEPT ![e] = @ \cup {f}]
        /\ Tx(request, e, f, [op |-> "DMN_END", from |-> e, nr |-> 0])
    /\ UNCHANGED <<userVars, daemon, cnt, rx, p, sent, answer>>

Exit(e) ==
    /\ daemon[e] = "leaving" /\ told[e] = Others(e)
    /\ cnt[e] = 0 /\ ~Handling(e)
    /\ daemon' = [daemon EXCEPT ![e] = "done"]
    /\ UNCHANGED <<userVars, cnt, told, rx, p, sent, request, answer>>

Closed(e) == daemon[e] = "done" /\ user[e].at = "ended"

-----------------------------------------------------------------------------
User(e) ==
    \/ \E f \in Executor, op \in Op : Call(e, f, op)
    \/ UserTx(e) \/ UserRx(e) \/ End(e)

Daemon(e) ==
    \/ Poll(e) \/ AnswerTx(e) \/ Lend(e)
    \/ Leave(e) \/ BroadcastTx(e) \/ Exit(e)

Provider(e) == \E f \in Executor : Deliver(e, f)

Finished == (\A e \in Executor : Closed(e)) /\ UNCHANGED vars

Next == (\E e \in Executor : User(e) \/ Daemon(e) \/ Provider(e)) \/ Finished

Spec == Init /\ [][Next]_vars

(* Both threads of an executor run, the provider delivers from every peer, *)
(* and an application comes to its end.                                    *)
Fairness ==
    \A e \in Executor :
        /\ WF_vars(UserTx(e)) /\ WF_vars(UserRx(e)) /\ WF_vars(End(e))
        /\ WF_vars(Daemon(e))
        /\ \A f \in Executor : WF_vars(Deliver(e, f))

FairSpec == Spec /\ Fairness

-----------------------------------------------------------------------------
(* An answer is received whole and by who asked: what a user thread has    *)
(* received and what is on its way to it are the chunks of the answer to   *)
(* its present request, in order, from the executor it asked; and nothing  *)
(* is on its way to a user thread that is not waiting.  This is what       *)
(* ingest() takes for granted, and why p must stay as it is until the last *)
(* send to p.from.                                                         *)
AnswersWhole ==
    \A e, f \in Executor :
        IF user[e].at = "rx" /\ user[e].peer = f
        THEN IsPrefix(got[e] \o answer[f][e],
                      [i \in 1 .. ChunksOf[user[e].op] |-> [nr |-> made[e], i |-> i]])
        ELSE answer[f][e] = << >>

(* Every executor stops, although sends wait for room (the loop on         *)
(* -FI_EAGAIN in fl_post_tx) and a daemon serves nobody while it sends.    *)
AllClose == <>(\A e \in Executor : Closed(e))

-----------------------------------------------------------------------------
(* The abstract view: requests that have been posted, answers as one, and  *)
(* a broadcast that has happened when it begins                            *)
KindOf(m) == CASE m.op = "DMN_END" -> "end"
               [] ChunksOf[m.op] > 0 -> "load"
               [] OTHER -> "tell"

Kinds(q) == [i \in DOMAIN q |-> KindOf(q[i])]

(* What e has sent to the daemon of f and f has not polled yet *)
InBuffer(e, f) == IF rx[f] = "complete" /\ p[f].from = e THEN <<p[f]>> ELSE << >>
Posted(e, f) == InBuffer(e, f) \o request[e][f]

(* A DMN_END that the broadcast has still to send *)
Due(e, f) == daemon[e] = "leaving" /\ f \in Others(e) \ told[e]

AbstractLink(e, f) ==
    IF Due(e, f) THEN Append(Kinds(Posted(e, f)), "end") ELSE Kinds(Posted(e, f))

Waits(e, f) == user[e].at = "rx" /\ user[e].peer = f

Unanswered(e, f) == \E i \in DOMAIN AbstractLink(e, f) : AbstractLink(e, f)[i] = "load"

AbstractUser ==
    [e \in Executor |-> CASE user[e].at = "rx" -> <<"waits", user[e].peer>>
                          [] user[e].at = "ended" -> <<"ended">>
                          [] OTHER -> <<"running">>]
AbstractMade ==
    [e \in Executor |-> IF user[e].at = "tx" THEN made[e] - 1 ELSE made[e]]
AbstractDaemon ==
    [e \in Executor |-> IF daemon[e] = "leaving" THEN "draining" ELSE daemon[e]]
AbstractLinks == [e \in Executor |-> [f \in Executor |-> AbstractLink(e, f)]]
AbstractAnswers ==
    [e \in Executor |-> {f \in Executor : Waits(e, f) /\ ~Unanswered(e, f)}]

Abstract == INSTANCE Termination WITH
    InOrder <- TRUE,
    user    <- AbstractUser,
    made    <- AbstractMade,
    daemon  <- AbstractDaemon,
    link    <- AbstractLinks,
    answers <- AbstractAnswers

(* The links implement Termination: in particular a daemon that has left   *)
(* its loops leaves no request behind, and nothing can arrive in the       *)
(* buffer that it has lent for the last time.                              *)
ImplementsTermination == Abstract!Spec
=============================================================================
