--------------------------- MODULE GlobalPointer ---------------------------
(***************************************************************************)
(* Global addresses (GlobalPointer.hpp): 64-bit descriptors made of one    *)
(* bit for reserved values, the rank of the creator (31 bits) and an       *)
(* offset (32 bits), the value of a counter.                               *)
(*                                                                         *)
(* The widths are parameters.  The counter is as wide as a descriptor, so  *)
(* that it runs past the offset.  Where its upper bits meet the rank, the  *)
(* constructor joins them with a bitwise or and asserts that the parts are *)
(* what they should be; but an or that sets a bit of the rank again leaves *)
(* nothing to see.  The counter is static in a static function of a        *)
(* header: there is one in every translation unit of the program.          *)
(***************************************************************************)
EXTENDS Integers, FiniteSets, Bitwise

CONSTANTS
    Executor,       \* the ranks
    Unit,           \* the translation units that create pointers
    HomeBits,       \* 31 in the code
    LsbBits,        \* 32 in the code
    MaxMade         \* bound: addresses an executor makes

first_reserved == 2 ^ (HomeBits + LsbBits)
max_home == 2 ^ HomeBits - 1
Word == 2 * first_reserved

VARIABLES
    cnt,        \* cnt[e][u]: the counter of unit u in executor e
    made,       \* made[e]: the descriptors e has made
    calls,      \* calls[e]: how often make_global has returned to e
    aborted     \* aborted[e]: has an assert failed?

vars == <<cnt, made, calls, aborted>>

Init ==
    /\ cnt = [e \in Executor |-> [u \in Unit |-> 1]]
    /\ made = [e \in Executor |-> {}]
    /\ calls = [e \in Executor |-> 0]
    /\ aborted = [e \in Executor |-> FALSE]

-----------------------------------------------------------------------------
(* The parts of a descriptor *)
IsAddress(d) == d # 0 /\ d < first_reserved
Home(d) == d \div 2 ^ LsbBits
Lsb(d) == d % 2 ^ LsbBits

(* lsb | (home << LsbBits), in the width of a descriptor *)
Join(home, lsb) == (lsb | (home * 2 ^ LsbBits)) % Word

(* The asserts of the constructor *)
Intact(home, d) ==
    /\ IsAddress(d)
    /\ Join(home, Lsb(d)) = d
    /\ home = Home(d)

(* make_global, called from unit u: the next value of its counter *)
MakeGlobal(e, u) ==
    /\ ~aborted[e] /\ calls[e] < MaxMade
    /\ e <= max_home
    /\ cnt' = [cnt EXCEPT ![e][u] = @ + 1]
    /\ LET d == Join(e, cnt[e][u])
       IN  IF Intact(e, d)
           THEN /\ made' = [made EXCEPT ![e] = @ \cup {d}]
                /\ calls' = [calls EXCEPT ![e] = @ + 1]
                /\ UNCHANGED aborted
           ELSE /\ aborted' = [aborted EXCEPT ![e] = TRUE]
                /\ UNCHANGED <<made, calls>>

Next == \E e \in Executor, u \in Unit : MakeGlobal(e, u)

Spec == Init /\ [][Next]_vars

-----------------------------------------------------------------------------
(* Addresses are never made twice, by one executor or by two: mmap_global  *)
(* asserts that nothing is committed to a fresh one (Context.hpp), and     *)
(* view_map and ref_cnt have one entry for each.  The code does not keep   *)
(* this: an executor whose rank has its lowest bit set repeats itself when *)
(* the counter has run past the offset, and so do two translation units of *)
(* one executor from the start.                                            *)
Distinct ==
    /\ \A e \in Executor : Cardinality(made[e]) = calls[e]
    /\ \A e, f \in Executor : e # f => made[e] \cap made[f] = {}
=============================================================================
