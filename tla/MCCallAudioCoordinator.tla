------------------------ MODULE MCCallAudioCoordinator ------------------------
(***************************************************************************)
(* Two small instances.  Calls: one session, enabled and disabled, around  *)
(* two calls with two texts and a message notification; a call may add a   *)
(* collector to the one the call before left running.  Restart: detection  *)
(* is enabled again after that, around two calls with two texts and one    *)
(* import, one call to a session.                                          *)
(***************************************************************************)
EXTENDS CallAudioCoordinator

MCJobIds == 1 .. 4

MCCallsCollectorIds == 1 .. 2
MCCallsLimit == [e \in Events |-> CASE e = "report" -> 4
                                    [] e \in {"toggle", "text"} -> 2
                                    [] e = "notification" -> 1
                                    [] e = "import" -> 0]

MCRestartCollectorIds == {1}
MCRestartLimit == [e \in Events |-> CASE e = "report" -> 4
                                      [] e = "toggle" -> 3
                                      [] e = "text" -> 2
                                      [] e = "import" -> 1
                                      [] e = "notification" -> 0]
===============================================================================
