------------------------------ MODULE GamView ------------------------------
(***************************************************************************)
(* The memory table of every executor: include/gam/View.hpp, the part of   *)
(* Context.hpp that maps and unmaps global addresses, and the local heap   *)
(* the tables point into.                                                  *)
(*                                                                         *)
(* An address is an identity: the code compares addresses and uses them    *)
(* as keys, and takes no decision on the home and offset packed inside.    *)
(* A cell is one block of local memory; malloc may hand out a freed cell   *)
(* again.  A backend_ptr is represented by the cell it wraps, because      *)
(* deleting it is what frees that cell.                                    *)
(***************************************************************************)
CONSTANTS
    Null,       \* nullptr, an absent key, a free cell
    Executor,   \* the ranks
    Address,    \* global addresses
    Cell,       \* blocks of local memory, the same names at every executor
    Value,      \* what a block may contain
    Default     \* the value of a value-initialised block, T()

AccessLevel == {"public", "private"}

(* struct entry of View.hpp; owner Null is the void owner of public memory *)
Entry == [committed    : Cell \cup {Null},
          child        : Cell \cup {Null},
          owner        : Executor \cup {Null},
          author       : Executor,
          access_level : AccessLevel]

ASSUME ViewAssumption ==
    /\ Default \in Value
    /\ Null \notin Executor \cup Address \cup Cell \cup Value \cup Entry

VARIABLES
    issued,     \* the addresses make_global has generated so far
    view,       \* view[e][a]: view_map of e at a, Null when the key is absent
    parent,     \* parent[e][c]: parent_map of e at c, Null when absent
    heap        \* heap[e][c]: the content of c at e, Null when c is free

tableVars == <<issued, view, parent, heap>>

TableTypeOK ==
    /\ issued \subseteq Address
    /\ view \in [Executor -> [Address -> Entry \cup {Null}]]
    /\ parent \in [Executor -> [Cell -> Address \cup {Null}]]
    /\ heap \in [Executor -> [Cell -> Value \cup {Null}]]

TableInit ==
    /\ issued = {}
    /\ view = [e \in Executor |-> [a \in Address |-> Null]]
    /\ parent = [e \in Executor |-> [c \in Cell |-> Null]]
    /\ heap = [e \in Executor |-> [c \in Cell |-> Null]]

-----------------------------------------------------------------------------
Mapped(e, a) == view[e][a] # Null

FreeCells(e) == {c \in Cell : heap[e][c] = Null}

(* make_global: an address nobody has been given before *)
FreshAddresses == Address \ issued

(* e backs a: it has memory committed for a *)
Backs(e, a) == Mapped(e, a) /\ view[e][a].committed # Null

(* The setters of View, on the entry of a mapped address. *)
BindCommitted(x, c) == [x EXCEPT !.committed = c]
BindChild(x, c)     == [x EXCEPT !.child = c]
BindOwner(x, o)     == [x EXCEPT !.owner = o]
BindAuthor(x, o)    == [x EXCEPT !.author = o]

(* The entry mmap_private leaves behind for the block c of e. *)
PrivateEntry(e, c) ==
    [committed |-> c, child |-> c, owner |-> e, author |-> e,
     access_level |-> "private"]

(* mmap_private: map the fresh address a to the block c of e. *)
MmapPrivate(e, a, c) ==
    /\ issued' = issued \cup {a}
    /\ view' = [view EXCEPT ![e][a] = PrivateEntry(e, c)]
    /\ parent' = [parent EXCEPT ![e][c] = a]

(* Fault: unmap does not call unbind_parent. *)
ParentsWithout_Kept(e, a) == parent

(* What unmap leaves of the parenthood of e: the child of a private        *)
(* address loses its parent, public memory has no child.                   *)
ParentsWithout(e, a) ==
    IF view[e][a].access_level = "private"
    THEN [parent EXCEPT ![e] = [c \in Cell |->
             IF c = view[e][a].child THEN Null ELSE parent[e][c]]]
    ELSE parent

(* Deleting the backend_ptr of a runs the deleter of its block. *)
HeapWithout(e, a) ==
    [heap EXCEPT ![e] = [c \in Cell |->
        IF c = view[e][a].committed THEN Null ELSE heap[e][c]]]

(* Context::unmap; View::unmap asserts that the key is there.  The asserts  *)
(* on the child, its parent and the committed memory follow from the       *)
(* invariants about those who call it.                                     *)
Unmap(e, a) ==
    /\ Mapped(e, a)
    /\ parent' = ParentsWithout(e, a)
    /\ heap' = HeapWithout(e, a)
    /\ view' = [view EXCEPT ![e][a] = Null]
    /\ UNCHANGED issued
=============================================================================
