--------------------------- MODULE SharedMemory ---------------------------
(***************************************************************************)
(* What public pointers promise to an application: every public address is *)
(* one immutable location with a number of references to it, wherever they *)
(* are.  As long as there is one the content stays; once there is none     *)
(* the location is reclaimed, for good.  There are no executors, counts in *)
(* tables, requests or daemons here: PublicPtr implements this module.     *)
(***************************************************************************)
EXTENDS Naturals

CONSTANTS Address, Value, NoValue

VARIABLES
    references,     \* how many references to each address there are
    content         \* what the location contains, NoValue without location

sharedVars == <<references, content>>

Init ==
    /\ references = [a \in Address |-> 0]
    /\ content = [a \in Address |-> NoValue]

Create(a, v) ==
    /\ references[a] = 0 /\ content[a] = NoValue
    /\ references' = [references EXCEPT ![a] = 1]
    /\ content' = [content EXCEPT ![a] = v]

Share(a) ==
    /\ references[a] > 0
    /\ references' = [references EXCEPT ![a] = @ + 1]
    /\ UNCHANGED content

(* The last reference may take the location with it at once, or leave it   *)
(* to a later Reclaim.                                                     *)
Release(a) ==
    /\ references[a] > 0
    /\ references' = [references EXCEPT ![a] = @ - 1]
    /\ \/ UNCHANGED content
       \/ references[a] = 1 /\ content' = [content EXCEPT ![a] = NoValue]

Reclaim(a) ==
    /\ references[a] = 0 /\ content[a] # NoValue
    /\ content' = [content EXCEPT ![a] = NoValue]
    /\ UNCHANGED references

Next ==
    \E a \in Address :
        \/ Share(a) \/ Release(a) \/ Reclaim(a)
        \/ \E v \in Value : Create(a, v)

Spec == Init /\ [][Next]_sharedVars

(* Nothing is kept for ever without a reference. *)
FairSpec == Spec /\ \A a \in Address : WF_sharedVars(Reclaim(a))
=============================================================================
