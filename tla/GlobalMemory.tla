---------------------------- MODULE GlobalMemory ----------------------------
(***************************************************************************)
(* What GAM promises to an application that uses both kinds of pointers:   *)
(* a private address is a location with one capability (PrivateMemory), a  *)
(* public one an immutable location that lives as long as its references   *)
(* (SharedMemory), and publishing moves a private location to a public     *)
(* address.  A capability or a reference that the application threw away   *)
(* by mistake costs its own location, which stays as it is, and nothing    *)
(* else.  GamContext implements this module.                               *)
(***************************************************************************)
EXTENDS Naturals

CONSTANTS Executor, Address, Value, NoValue

VARIABLES
    place,          \* where the capability of each private address is
    references,     \* how many references to each public address there are
    content,        \* what each location contains
    wasted          \* the addresses a capability or reference was lost of

globalVars == <<place, references, content, wasted>>

Private == INSTANCE PrivateMemory
Shared  == INSTANCE SharedMemory

(* What place says of addresses without a capability. *)
Public == [stage |-> "public"]
Lost   == [stage |-> "lost"]

Init ==
    /\ Private!Init
    /\ references = [a \in Address |-> 0]
    /\ wasted = {}

CreateShared(a, v) ==
    /\ place[a] = Private!Unborn
    /\ place' = [place EXCEPT ![a] = Public]
    /\ Shared!Create(a, v)
    /\ UNCHANGED wasted

(* References to a wasted location are counted on, but it is never freed. *)
UseShared(a) ==
    /\ place[a] = Public
    /\ Shared!Share(a) \/ Shared!Release(a) \/ Shared!Reclaim(a)
    /\ a \in wasted => UNCHANGED content
    /\ UNCHANGED <<place, wasted>>

(* The location of a becomes that of b, with one reference to it. *)
Publish(e, a, b) ==
    /\ place[a] = Private!At("held", e)
    /\ place[b] = Private!Unborn
    /\ place' = [place EXCEPT ![a] = Private!Gone, ![b] = Public]
    /\ references' = [references EXCEPT ![b] = 1]
    /\ content' = [content EXCEPT ![a] = NoValue, ![b] = content[a]]
    /\ UNCHANGED wasted

LoseCapability(e, a) ==
    /\ place[a] = Private!At("sent", e)
    /\ place' = [place EXCEPT ![a] = Lost]
    /\ wasted' = wasted \cup {a}
    /\ UNCHANGED <<references, content>>

LoseReference(a) ==
    /\ place[a] = Public
    /\ references[a] > 0
    /\ references' = [references EXCEPT ![a] = @ - 1]
    /\ wasted' = wasted \cup {a}
    /\ UNCHANGED <<place, content>>

Next ==
    \/ Private!Next /\ UNCHANGED <<references, wasted>>
    \/ \E a \in Address :
        \/ UseShared(a) \/ LoseReference(a)
        \/ \E v \in Value : CreateShared(a, v)
        \/ \E e \in Executor : \/ LoseCapability(e, a)
                               \/ \E b \in Address : Publish(e, a, b)

Spec == Init /\ [][Next]_globalVars
=============================================================================
