---------------------------- MODULE MCCallDetection ----------------------------
(***************************************************************************)
(* One app that can announce a call and post a message.  The limits let    *)
(* the service restart, each detector bind again, and a native call and an *)
(* app call overlap.                                                       *)
(***************************************************************************)
EXTENDS CallDetection

MCLimit == [e \in Events |-> CASE e \in {"phone", "toggle", "bind"} -> 3
                               [] e = "notification" -> 2
                               [] e = "window" -> 2]
===============================================================================
