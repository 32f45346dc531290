--------------------------- MODULE PrivateMemory ---------------------------
(***************************************************************************)
(* What private pointers promise to an application: every private address *)
(* is one memory location and one capability to it.  Whoever holds the     *)
(* capability may open the location, write it, close it, hand the          *)
(* capability to another executor, or destroy it; nobody else can, and     *)
(* the location always contains what was written last, wherever the        *)
(* capability has been.  There are no copies, no authors, no daemons and   *)
(* no remote loads here: the runtime in PrivatePtr implements this module. *)
(***************************************************************************)
CONSTANTS Executor, Address, Value, NoValue

VARIABLES
    place,      \* where the capability of each address is
    content     \* what each live location contains

memoryVars == <<place, content>>

At(stage, e) == [stage |-> stage, at |-> e]

Unborn == [stage |-> "unborn"]
Gone   == [stage |-> "gone"]

(* held: a private_ptr; open: a local child of it; sent: being pushed to *)
Place == {Unborn, Gone} \cup [stage : {"held", "open", "sent"}, at : Executor]

Init ==
    /\ place = [a \in Address |-> Unborn]
    /\ content = [a \in Address |-> NoValue]

Create(e, a, v) ==
    /\ place[a] = Unborn
    /\ place' = [place EXCEPT ![a] = At("held", e)]
    /\ content' = [content EXCEPT ![a] = v]

Move(a, from, to) ==
    /\ place[a] = from
    /\ place' = [place EXCEPT ![a] = to]
    /\ UNCHANGED content

Open(e, a)    == Move(a, At("held", e), At("open", e))
Close(e, a)   == Move(a, At("open", e), At("held", e))
Send(e, f, a) == e # f /\ Move(a, At("held", e), At("sent", f))
Receive(e, a) == Move(a, At("sent", e), At("held", e))

Write(e, a, v) ==
    /\ place[a] = At("open", e)
    /\ content' = [content EXCEPT ![a] = v]
    /\ UNCHANGED place

Destroy(e, a) ==
    /\ place[a] \in {At("held", e), At("open", e)}
    /\ place' = [place EXCEPT ![a] = Gone]
    /\ content' = [content EXCEPT ![a] = NoValue]

Next ==
    \E e \in Executor, a \in Address :
        \/ Open(e, a) \/ Close(e, a) \/ Receive(e, a) \/ Destroy(e, a)
        \/ \E f \in Executor : Send(e, f, a)
        \/ \E v \in Value : Create(e, a, v) \/ Write(e, a, v)

Spec == Init /\ [][Next]_memoryVars
=============================================================================
