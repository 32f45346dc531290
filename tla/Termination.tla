---------------------------- MODULE Termination ----------------------------
(***************************************************************************)
(* How executors stop: ~Context and the two loops of its Daemon            *)
(* (Context.hpp).                                                          *)
(*                                                                         *)
(* A daemon outlives the user thread of its own executor, because the user *)
(* threads of the others may still need the memory behind it.  When its    *)
(* own user is finished it broadcasts DMN_END, on the links that carried   *)
(* the user's requests, and goes on serving until it has received DMN_END  *)
(* from everyone else.                                                     *)
(*                                                                         *)
(* Requests are of two kinds here: "load" blocks the user thread until the *)
(* answer (RLOAD, RC_GET), "tell" does not (PVT_RESET, RC_INC, RC_DEC).    *)
(* What they do to the memory is the subject of PrivatePtr and PublicPtr.  *)
(***************************************************************************)
EXTENDS Integers, SequencesExt

CONSTANTS
    Executor,       \* the ranks; cardinality_ is their number
    MaxRequests,    \* bound: requests each application makes
    InOrder         \* does a link deliver in the order of the sends?

ASSUME TerminationAssumption ==
    /\ IsFiniteSet(Executor) /\ Executor # {}
    /\ MaxRequests \in Nat
    /\ InOrder \in BOOLEAN

VARIABLES
    user,       \* user[e]: the user thread, "running", "ended", or the rank it
                \*   waits for an answer from
    made,       \* made[e]: how many requests it has made
    daemon,     \* daemon[e]: which loop the daemon of e is in
    cnt,        \* cnt[e]: executors it has not received DMN_END from
    link,       \* link[e][f]: what e has sent to the daemon of f
    answers     \* answers[e]: executors whose answer to e is on its way

vars == <<user, made, daemon, cnt, link, answers>>

Others(e) == Executor \ {e}

TypeOK ==
    /\ user \in [Executor -> {<<"running">>, <<"ended">>} \cup
                             {<<"waits", f>> : f \in Executor}]
    /\ made \in [Executor -> 0 .. MaxRequests]
    /\ daemon \in [Executor -> {"serving", "draining", "done"}]
    /\ cnt \in [Executor -> 0 .. Cardinality(Executor) - 1]
    /\ link \in [Executor -> [Executor -> Seq({"load", "tell", "end"})]]
    /\ answers \in [Executor -> SUBSET Executor]

Init ==
    /\ user = [e \in Executor |-> <<"running">>]
    /\ made = [e \in Executor |-> 0]
    /\ daemon = [e \in Executor |-> "serving"]
    /\ cnt = [e \in Executor |-> Cardinality(Executor) - 1]
    /\ link = [e \in Executor |-> [f \in Executor |-> << >>]]
    /\ answers = [e \in Executor |-> {}]

-----------------------------------------------------------------------------
(* The user thread *)

Request(e, f, kind) ==
    /\ user[e] = <<"running">> /\ f # e
    /\ made[e] < MaxRequests
    /\ made' = [made EXCEPT ![e] = @ + 1]
    /\ link' = [link EXCEPT ![e][f] = Append(@, kind)]
    /\ user' = IF kind = "load" THEN [user EXCEPT ![e] = <<"waits", f>>] ELSE user
    /\ UNCHANGED <<daemon, cnt, answers>>

Answered(e, f) ==
    /\ user[e] = <<"waits", f>>
    /\ f \in answers[e]
    /\ answers' = [answers EXCEPT ![e] = @ \ {f}]
    /\ user' = [user EXCEPT ![e] = <<"running">>]
    /\ UNCHANGED <<made, daemon, cnt, link>>

(* ~Context begins: daemon_termination = true, then join *)
End(e) ==
    /\ user[e] = <<"running">>
    /\ user' = [user EXCEPT ![e] = <<"ended">>]
    /\ UNCHANGED <<made, daemon, cnt, link, answers>>

-----------------------------------------------------------------------------
(* The daemon thread *)

(* Fault: the daemon does not wait for daemon_termination. *)
Broadcast_Early(e) ==
    /\ daemon[e] = "serving"
    /\ link' = [link EXCEPT ![e] = [f \in Executor |->
                   IF f = e THEN @[f] ELSE Append(@[f], "end")]]
    /\ daemon' = [daemon EXCEPT ![e] = "draining"]
    /\ UNCHANGED <<user, made, cnt, answers>>

(* End of the first loop.  An executor alone (cnt = 0 from the start) does *)
(* not enter it.  The sends of the broadcast go to different links, so     *)
(* that a late one is no different from a slow one.                        *)
Broadcast(e) ==
    /\ daemon[e] = "serving"
    /\ user[e] = <<"ended">> \/ Cardinality(Executor) = 1
    /\ link' = [link EXCEPT ![e] = [f \in Executor |->
                   IF f = e THEN @[f] ELSE Append(@[f], "end")]]
    /\ daemon' = [daemon EXCEPT ![e] = "draining"]
    /\ UNCHANGED <<user, made, cnt, answers>>

(* Which of the messages of q a receive may complete with *)
Deliverable(q) == IF InOrder THEN {1} \cap DOMAIN q ELSE DOMAIN q

(* Faults: DMN_END is not counted; every request is. *)
CntAfter_Kept(e, kind) == cnt[e]
CntAfter_EveryRequest(e, kind) == cnt[e] - 1

(* What a request leaves of cnt *)
CntAfter(e, kind) == IF kind = "end" THEN cnt[e] - 1 ELSE cnt[e]

(* poll_iteration, in either loop *)
Poll(e, f) ==
    /\ daemon[e] = "serving" \/ (daemon[e] = "draining" /\ cnt[e] # 0)
    /\ \E i \in Deliverable(link[f][e]) :
        LET kind == link[f][e][i]
        IN  /\ link' = [link EXCEPT ![f][e] = RemoveAt(@, i)]
            /\ cnt' = [cnt EXCEPT ![e] = CntAfter(e, kind)]
            /\ answers' = IF kind = "load"
                          THEN [answers EXCEPT ![f] = @ \cup {e}] ELSE answers
    /\ UNCHANGED <<user, made, daemon>>

(* Fault: the daemon returns after its broadcast. *)
Exit_AtOnce(e) ==
    /\ daemon[e] = "draining"
    /\ daemon' = [daemon EXCEPT ![e] = "done"]
    /\ UNCHANGED <<user, made, cnt, link, answers>>

(* End of the second loop: operator() returns, join() too once the user is *)
(* there, and the links are closed.                                        *)
Exit(e) ==
    /\ daemon[e] = "draining"
    /\ cnt[e] = 0
    /\ daemon' = [daemon EXCEPT ![e] = "done"]
    /\ UNCHANGED <<user, made, cnt, link, answers>>

Closed(e) == daemon[e] = "done" /\ user[e] = <<"ended">>

-----------------------------------------------------------------------------
User(e) ==
    \/ \E f \in Executor : \/ \E kind \in {"load", "tell"} : Request(e, f, kind)
                           \/ Answered(e, f)
    \/ End(e)

Daemon(e) == Broadcast(e) \/ Exit(e) \/ \E f \in Executor : Poll(e, f)

Finished == (\A e \in Executor : Closed(e)) /\ UNCHANGED vars

Next == (\E e \in Executor : User(e) \/ Daemon(e)) \/ Finished

Spec == Init /\ [][Next]_vars

(* Daemons poll every link for ever, answers arrive, and an application    *)
(* that can end does so after finitely many requests.                      *)
Fairness ==
    \A e \in Executor :
        /\ WF_vars(Broadcast(e)) /\ WF_vars(Exit(e)) /\ WF_vars(End(e))
        /\ \A f \in Executor : WF_vars(Poll(e, f)) /\ WF_vars(Answered(e, f))

FairSpec == Spec /\ Fairness

-----------------------------------------------------------------------------
(* A daemon does not stop before everybody else is finished: when it has   *)
(* left its loops, every other user thread has ended and can send no more. *)
ServesToTheEnd ==
    \A e \in Executor : daemon[e] = "done" =>
        \A f \in Others(e) : user[f] = <<"ended">>

(* Nothing is left unserved: when a daemon has left its loops no request   *)
(* to it is on its way.  ~View asserts as much: a PVT_RESET or RC_DEC that *)
(* is never handled leaves a committed copy (View.hpp).                    *)
NothingUnserved ==
    \A e \in Executor : daemon[e] = "done" =>
        \A f \in Executor : link[f][e] = << >>

(* Two executors agree on the end: cnt counts exactly the others whose     *)
(* DMN_END has not been received, so that it cannot run below zero or stay *)
(* above it.                                                               *)
CountsPeers ==
    \A e \in Executor :
        cnt[e] = Cardinality({f \in Others(e) :
                     daemon[f] = "serving"
                     \/ \E i \in DOMAIN link[f][e] : link[f][e][i] = "end"})

(* Every executor stops: nobody waits for an answer from a daemon that has *)
(* left, and no two daemons wait for each other.                           *)
AllClose == <>(\A e \in Executor : Closed(e))
=============================================================================
