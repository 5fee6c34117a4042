------------------------------- MODULE NodeByNode -------------------------------
(***************************************************************************)
(* What computing a graph with a team of threads promises: each thread     *)
(* does its share of every node in order, nobody starts a node before      *)
(* everyone has done the one before, an abort stops the whole team after   *)
(* the same node, and the call returns when all shares are done.           *)
(* GgmlThreadpool implements it with a spinning barrier.                   *)
(***************************************************************************)
EXTENDS Naturals

CONSTANTS
    AllThreads,     \* thread indexes
    Lengths         \* numbers of nodes a graph may have

VARIABLES
    team,           \* threads of the call under way, {} between calls
    limit,          \* nodes to compute
    done            \* nodes whose share each thread has done

vars == <<team, limit, done>>

Init == team = {} /\ limit = 0 /\ done = [t \in {} |-> 0]

Start ==
    /\ team = {}
    /\ team' \in (SUBSET AllThreads) \ {{}}
    /\ limit' \in Lengths
    /\ done' = [t \in team' |-> 0]

\* Thread 0 may find, after its share of a node, that the call is aborted.
Share(t) ==
    /\ done[t] < limit
    /\ \A u \in team : done[u] >= done[t]
    /\ done' = [done EXCEPT ![t] = @ + 1]
    /\ limit' \in {limit} \cup (IF t = 0 THEN {done[t] + 1} ELSE {})
    /\ team' = team

Finish ==
    /\ team # {}
    /\ \A t \in team : done[t] = limit
    /\ team' = {} /\ limit' = 0 /\ done' = [t \in {} |-> 0]

Next == Start \/ Finish \/ \E t \in team : Share(t)

Spec == Init /\ [][Next]_vars
===============================================================================
