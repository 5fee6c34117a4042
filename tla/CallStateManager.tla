--------------------------- MODULE CallStateManager ---------------------------
(***************************************************************************)
(* The call state machine every detector reports into (CallStateManager.kt *)
(* and CallState.kt).  This module holds its constant part: the states and *)
(* the transition relation.  CallDetection and CallAudioCoordinator own a  *)
(* variable that moves along it.                                           *)
(***************************************************************************)

CallStates == {"IDLE", "INCOMING", "IN_PROGRESS", "ENDED"}

\* The states in which the coordinator captures audio.
ActiveStates == {"INCOMING", "IN_PROGRESS"}

MutTransitions_NoMissedCall ==
    ({"IDLE"} \X ActiveStates)
        \cup ({"INCOMING"} \X {"IN_PROGRESS", "IDLE"})
        \cup ({"IN_PROGRESS"} \X {"ENDED", "IDLE"})
        \cup ({"ENDED"} \X {"IDLE", "INCOMING", "IN_PROGRESS"})

MutTransitions_NoBackToBack ==
    ({"IDLE"} \X ActiveStates)
        \cup ({"INCOMING"} \X {"IN_PROGRESS", "ENDED", "IDLE"})
        \cup ({"IN_PROGRESS"} \X {"ENDED", "IDLE"})
        \cup ({"ENDED"} \X {"IDLE"})

\* The pairs validateTransition accepts; a report of the current state is
\* ignored.  ENDED may reopen without an IDLE in between (back-to-back calls).
Transitions ==
    ({"IDLE"} \X ActiveStates)
        \cup ({"INCOMING"} \X {"IN_PROGRESS", "ENDED", "IDLE"})
        \cup ({"IN_PROGRESS"} \X {"ENDED", "IDLE"})
        \cup ({"ENDED"} \X {"IDLE", "INCOMING", "IN_PROGRESS"})

ValidTransition(from, to) == <<from, to>> \in Transitions

===============================================================================
