--------------------------- MODULE ReplicatedLog ---------------------------
(***************************************************************************)
(* What a Kayak cluster promises to the database above it: one sequence of  *)
(* entries that every server follows in the same order.  An entry is        *)
(* decided by the first server that commits it, and only when all servers   *)
(* have everything that was decided before.                                 *)
(***************************************************************************)
EXTENDS Naturals, Sequences

CONSTANTS Server, Entries

VARIABLES
    decided,   \* the entries decided so far
    at         \* how many of them each server has

lvars == <<decided, at>>

LogInit == decided = <<>> /\ at = [n \in Server |-> 0]

Decide(n, e) ==
    /\ \A m \in Server : at[m] = Len(decided)
    /\ decided' = Append(decided, e)
    /\ at' = [at EXCEPT ![n] = @ + 1]

Follow(n) ==
    /\ at[n] < Len(decided)
    /\ at' = [at EXCEPT ![n] = @ + 1]
    /\ UNCHANGED decided

LogNext == \E n \in Server : Follow(n) \/ \E e \in Entries : Decide(n, e)

LogSpec == /\ LogInit
           /\ [][LogNext]_lvars
           /\ \A n \in Server : WF_lvars(Follow(n))
=============================================================================
