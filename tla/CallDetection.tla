----------------------------- MODULE CallDetection -----------------------------
(***************************************************************************)
(* The call-detection module: three detectors that the system binds and    *)
(* calls in any order report into one CallStateManager, and                *)
(* CallDetectionService starts and stops them.                             *)
(*   TelephonyCallDetector           the native call, from the telephony   *)
(*                                   framework                             *)
(*   NativeCallAccessibilityService  the native call, from dialer windows  *)
(*   ThirdPartyCallDetector          calls of supported apps, from their   *)
(*                                   notifications                         *)
(* All callbacks run on the main thread, so a callback is one action; what *)
(* interleaves is their order.  The telephony framework posts its          *)
(* callbacks, so they wait in a queue behind other main-thread events.     *)
(***************************************************************************)
EXTENDS Naturals, Sequences, CallStateManager

CONSTANTS
    CallKeys,   \* keys of notifications that announce a call
    ChatKeys,   \* keys of other notifications of supported apps
    Limit       \* bound on each kind of environment event

Keys == CallKeys \cup ChatKeys
Events == {"phone", "window", "notification", "bind", "toggle"}

ASSUME DetectionAssumption ==
    /\ CallKeys \cap ChatKeys = {}
    /\ Limit \in [Events -> Nat]

VARIABLES
    running,        \* CallDetectionService.running
    callState,      \* CallStateManager._state
    wired,          \* CallStateWire holds the state manager and the text sink
    phone,          \* the real native call
    phoneQueue,     \* telephony callbacks posted to the main looper
    a11y,           \* the accessibility service
    listener,       \* the notification listener
    posted,         \* notifications really on screen
    tracked,        \* activeNotifications
    reporter,       \* history: who set callState last
    spent           \* environment events so far, bounded by Limit

systemVars == <<phone, posted>>
vars == <<running, callState, wired, systemVars, phoneQueue, a11y, listener,
          tracked, reporter, spent>>

PhoneStates == {"idle", "ringing", "offhook"}
Contents == {"none", "incoming", "active", "message"}
Reporters == {"reset", "telephony", "a11y", "notification"}
Unbound == [bound |-> FALSE, attached |-> FALSE, seen |-> "IDLE"]

TypeOK ==
    /\ running \in BOOLEAN
    /\ callState \in CallStates
    /\ wired \in BOOLEAN
    /\ phone \in PhoneStates
    /\ phoneQueue \in Seq(PhoneStates)
    /\ a11y \in [bound : BOOLEAN, attached : BOOLEAN, seen : CallStates]
    /\ listener \in [connected : BOOLEAN, attached : BOOLEAN]
    /\ posted \in [Keys -> Contents]
    /\ tracked \in [Keys -> Contents]
    /\ reporter \in Reporters
    /\ spent \in [Events -> Nat]

Init ==
    /\ running = FALSE
    /\ callState = "IDLE"
    /\ wired = FALSE
    /\ phone = "idle"
    /\ phoneQueue = <<>>
    /\ a11y = Unbound
    /\ listener = [connected |-> FALSE, attached |-> FALSE]
    /\ posted = [k \in Keys |-> "none"]
    /\ tracked = [k \in Keys |-> "none"]
    /\ reporter = "reset"
    /\ spent = [e \in Events |-> 0]

Spend(e) ==
    /\ spent[e] < Limit[e]
    /\ spent' = [spent EXCEPT ![e] = @ + 1]

\* CallStateManager.onStateReported: an invalid or repeated state is ignored.
Report(s, who) ==
    IF ValidTransition(callState, s)
    THEN callState' = s /\ reporter' = who
    ELSE UNCHANGED <<callState, reporter>>

NoReport == UNCHANGED <<callState, reporter>>

-------------------------------------------------------------------------------
(***************************************************************************)
(* CallDetectionService.                                                   *)
(***************************************************************************)

\* Registering with the telephony framework delivers the current state.
Start ==
    /\ ~running
    /\ Spend("toggle")
    /\ running' = TRUE
    /\ wired' = TRUE
    /\ phoneQueue' = Append(phoneQueue, phone)
    /\ a11y' = IF a11y.bound THEN [a11y EXCEPT !.attached = TRUE] ELSE a11y
    /\ listener' = IF listener.connected
                   THEN [listener EXCEPT !.attached = TRUE] ELSE listener
    /\ NoReport
    /\ UNCHANGED <<systemVars, tracked>>

\* The bound services keep their references; telephony callbacks already posted
\* still arrive.
Stop ==
    /\ running
    /\ Spend("toggle")
    /\ running' = FALSE
    /\ wired' = FALSE
    /\ callState' = "IDLE"
    /\ reporter' = "reset"
    /\ UNCHANGED <<systemVars, phoneQueue, a11y, listener, tracked>>

-------------------------------------------------------------------------------
(***************************************************************************)
(* The native call: telephony callbacks and dialer windows.                *)
(***************************************************************************)

\* A second caller makes an offhook phone ring (call waiting).
PhoneChanges(p) ==
    /\ p # phone
    /\ Spend("phone")
    /\ phone' = p
    /\ phoneQueue' = IF running THEN Append(phoneQueue, p) ELSE phoneQueue
    /\ NoReport
    /\ UNCHANGED <<running, wired, a11y, listener, posted, tracked>>

\* handleCallState: a hang-up ends an active call and clears a finished one.
TelephonyState(p) ==
    CASE p = "ringing" -> "INCOMING"
      [] p = "offhook" -> "IN_PROGRESS"
      [] p = "idle" -> IF callState \in ActiveStates THEN "ENDED" ELSE "IDLE"

TelephonyCallback ==
    /\ phoneQueue # <<>>
    /\ phoneQueue' = Tail(phoneQueue)
    /\ Report(TelephonyState(Head(phoneQueue)), "telephony")
    /\ UNCHANGED <<running, wired, systemVars, a11y, listener, tracked, spent>>

MutAttachOnBind_Forgotten == FALSE

\* The wire is re-read when the system binds a service.
AttachOnBind == wired

A11yBinds ==
    /\ ~a11y.bound
    /\ Spend("bind")
    /\ a11y' = [Unbound EXCEPT !.bound = TRUE, !.attached = AttachOnBind]
    /\ NoReport
    /\ UNCHANGED <<running, wired, systemVars, phoneQueue, listener, tracked>>

A11yDestroyed ==
    /\ a11y.bound
    /\ a11y' = Unbound
    /\ NoReport
    /\ UNCHANGED <<running, wired, systemVars, phoneQueue, listener, tracked, spent>>

\* What detectCallState reads off a window.  An "active" keyword ("dialer",
\* "active", "connected") may appear without any call.
WindowState(keyword) ==
    CASE keyword = "incoming" -> "INCOMING"
      [] keyword = "active" -> "IN_PROGRESS"
      [] keyword = "phone" ->
            IF a11y.seen \in ActiveStates THEN "IN_PROGRESS" ELSE "none"

MutIsNews_NullUnchecked(s) == s # a11y.seen

\* if (newState != null && newState != currentState)
IsNews(s) == s \notin {"none", a11y.seen}

WindowAppears(keyword) ==
    /\ a11y.bound
    /\ Spend("window")
    /\ LET s == WindowState(keyword)
       IN IF IsNews(s)
          THEN /\ a11y' = [a11y EXCEPT !.seen = s]
               /\ IF a11y.attached THEN Report(s, "a11y") ELSE NoReport
          ELSE NoReport /\ UNCHANGED a11y
    /\ UNCHANGED <<running, wired, systemVars, phoneQueue, listener, tracked>>

-------------------------------------------------------------------------------
(***************************************************************************)
(* Calls of supported apps: notifications.                                 *)
(***************************************************************************)

ListenerConnects ==
    /\ ~listener.connected
    /\ Spend("bind")
    /\ listener' = [connected |-> TRUE, attached |-> AttachOnBind]
    /\ NoReport
    /\ UNCHANGED <<running, wired, systemVars, phoneQueue, a11y, tracked>>

\* The object may stay, with its references and what it tracked ...
ListenerDisconnects ==
    /\ listener.connected
    /\ listener' = [listener EXCEPT !.connected = FALSE]
    /\ NoReport
    /\ UNCHANGED <<running, wired, systemVars, phoneQueue, a11y, tracked, spent>>

\* ... or the system destroys it: the one it binds next has tracked nothing.
ListenerDestroyed ==
    /\ listener' = [connected |-> FALSE, attached |-> FALSE]
    /\ tracked' = [k \in Keys |-> "none"]
    /\ NoReport
    /\ UNCHANGED <<running, wired, systemVars, phoneQueue, a11y, spent>>

ContentsOf(k) == IF k \in CallKeys THEN {"incoming", "active"} ELSE {"message"}

NotificationPosted(k, content) ==
    /\ content \in ContentsOf(k)
    /\ posted[k] # content
    /\ Spend("notification")
    /\ posted' = [posted EXCEPT ![k] = content]
    /\ IF listener.connected
       THEN /\ tracked' = [tracked EXCEPT ![k] = content]
            /\ IF listener.attached /\ content # "message"
               THEN Report(IF content = "incoming" THEN "INCOMING"
                           ELSE "IN_PROGRESS", "notification")
               ELSE NoReport
       ELSE NoReport /\ UNCHANGED tracked
    /\ UNCHANGED <<running, wired, phone, phoneQueue, a11y, listener>>

MutStillActive_IgnoresOthers(notifications) == FALSE

StillActive(notifications) ==
    \E k \in Keys : notifications[k] \in {"incoming", "active"}

NotificationRemoved(k) ==
    /\ posted[k] # "none"
    /\ posted' = [posted EXCEPT ![k] = "none"]
    /\ IF listener.connected
       THEN /\ tracked' = [tracked EXCEPT ![k] = "none"]
            /\ IF listener.attached /\ ~StillActive(tracked') /\ callState # "IDLE"
               THEN Report("ENDED", "notification")
               ELSE NoReport
       ELSE NoReport /\ UNCHANGED tracked
    /\ UNCHANGED <<running, wired, phone, phoneQueue, a11y, listener, spent>>

-------------------------------------------------------------------------------
Next ==
    \/ Start \/ Stop
    \/ \E p \in PhoneStates : PhoneChanges(p)
    \/ TelephonyCallback
    \/ A11yBinds \/ A11yDestroyed
    \/ \E w \in {"incoming", "active", "phone"} : WindowAppears(w)
    \/ ListenerConnects \/ ListenerDisconnects \/ ListenerDestroyed
    \/ \E k \in Keys : NotificationRemoved(k)
                       \/ \E c \in Contents : NotificationPosted(k, c)

\* The main looper delivers posted callbacks; nothing else is owed.
Fairness == WF_vars(TelephonyCallback)

Spec == Init /\ [][Next]_vars /\ Fairness

-------------------------------------------------------------------------------
(***************************************************************************)
(* Properties.                                                             *)
(***************************************************************************)

\* "The link always lands regardless of bind timing" (CallStateWire.kt l. 11):
\* in whatever order the service starts and stops and the system binds, unbinds
\* and rebinds, a bound detector of a running service has the state manager.
LinkLands ==
    running => /\ a11y.bound => a11y.attached
               /\ listener.connected => listener.attached

\* Once the telephony callbacks have been delivered, a native call under way is
\* monitored, unless the last word came from a notification (which can end a
\* native call, see NativeCallStaysActive).
NativeCallMonitored ==
    running /\ phone # "idle" /\ phoneQueue = <<>>
        => callState \in ActiveStates \/ reporter = "notification"

\* While a call notification stays tracked, an app call under way is ended only
\* by telephony or by a stop: other notifications coming and going and dialer
\* windows never end it (ThirdPartyCallDetector.kt l. 49-57).
AppCallKept ==
    [][ /\ callState \in ActiveStates /\ callState' \notin ActiveStates
        /\ \E k \in CallKeys : tracked[k] # "none" /\ tracked'[k] # "none"
        => reporter' \in {"telephony", "reset"} ]_vars

\* After a native hang-up the detector does not stay in an active state by its
\* own account: what keeps the state active then is another detector.
HangUpEnds ==
    running /\ phone = "idle" /\ phoneQueue = <<>> /\ callState \in ActiveStates
        => reporter \in {"a11y", "notification"}

\* Violated.  README l. 7: "During a call (native dialer or third-party apps)"
\* the app detects the call and captures.  Removing any notification of a
\* supported app, a chat message say, reports ENDED during a native call.
NativeCallStaysActive ==
    running /\ phone = "offhook" /\ phoneQueue = <<>> => callState \in ActiveStates
===============================================================================
