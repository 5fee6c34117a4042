----------------------------- MODULE ModelLifetime -----------------------------
(***************************************************************************)
(* What the native layer promises about a model it holds: it is loaded at  *)
(* most once at a time, used by one caller at a time, only while loaded,   *)
(* and never freed or replaced under a caller.  LlamaEngine implements it. *)
(***************************************************************************)
CONSTANT Threads

VARIABLES
    loaded,     \* a model with its context is in memory
    users       \* callers inside the native inference loop

vars == <<loaded, users>>

Init == loaded = FALSE /\ users = {}

Load == ~loaded /\ users = {} /\ loaded' = TRUE /\ users' = users

Free == loaded /\ users = {} /\ loaded' = FALSE /\ users' = users

Begin(t) == loaded /\ users = {} /\ users' = {t} /\ loaded' = loaded

End(t) == t \in users /\ users' = users \ {t} /\ loaded' = loaded

Next == Load \/ Free \/ \E t \in Threads : Begin(t) \/ End(t)

Spec == Init /\ [][Next]_vars
===============================================================================
