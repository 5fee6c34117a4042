-------------------------- MODULE CallDetection_proofs --------------------------
(***************************************************************************)
(* For any notifications, any number of phone changes, windows and         *)
(* bindings, and any order of callbacks: type correctness of the           *)
(* detectors, links that land, native calls that are followed, and app     *)
(* calls that are kept.                                                    *)
(***************************************************************************)
EXTENDS CallDetection, SequenceTheorems, TLAPS

(***************************************************************************)
(* The telephony queue.                                                    *)
(***************************************************************************)

\* The youngest posted callback.
Youngest(queue) == queue[Len(queue)]

\* A callback posted to the looper is the youngest.
LEMMA PostedIsYoungest ==
    ASSUME NEW S, NEW queue \in Seq(S), NEW p \in S
    PROVE  /\ Append(queue, p) \in Seq(S)
           /\ Append(queue, p) # <<>>
           /\ Youngest(Append(queue, p)) = p
BY DEF Youngest

\* Delivering the oldest callback leaves the youngest in place, unless they are
\* the same.
LEMMA DeliveryKeepsYoungest ==
    ASSUME NEW S, NEW queue \in Seq(S), queue # <<>>
    PROVE  /\ Head(queue) \in S
           /\ Tail(queue) \in Seq(S)
           /\ Tail(queue) # <<>> => Youngest(Tail(queue)) = Youngest(queue)
           /\ Tail(queue) = <<>> => Head(queue) = Youngest(queue)
<1>1. Head(queue) \in S /\ Tail(queue) \in Seq(S)
  OBVIOUS
<1>2. Tail(queue) # <<>> => Youngest(Tail(queue)) = Youngest(queue)
  BY SMTT(30) DEF Youngest
<1>3. ASSUME Tail(queue) = <<>> PROVE Head(queue) = Youngest(queue)
  <2> DEFINE t == Tail(queue)
  <2>1. Len(t) = Len(queue) - 1
    BY HeadTailProperties, Zenon
  <2>2. Len(queue) \in Nat
    BY LenProperties, Zenon
  <2>3. t = <<>>
    BY <1>3
  <2> HIDE DEF t
  <2>4. Len(queue) = 1
    BY <2>1, <2>2, <2>3
  <2> QED
    BY <2>4 DEF Youngest
<1> QED
  BY <1>1, <1>2, <1>3

(***************************************************************************)
(* The call state machine.                                                 *)
(***************************************************************************)

\* A valid or ignored report leaves the machine in a state, and a report of an
\* active state leaves it in an active one: it is ignored only in one of those.
LEMMA ReportType ==
    ASSUME callState \in CallStates, reporter \in Reporters,
           NEW s \in CallStates, NEW who \in Reporters, Report(s, who)
    PROVE  callState' \in CallStates /\ reporter' \in Reporters
BY DEF Report, CallStates

\* A valid report of an active state makes the machine active.
LEMMA ActiveReportActivates ==
    ASSUME callState \in CallStates,
           NEW s \in ActiveStates, NEW who \in Reporters, Report(s, who)
    PROVE  callState' \in ActiveStates
BY DEF Report, CallStates, ActiveStates, ValidTransition, Transitions

\* Of a native hang-up the machine never remains in an active state.
LEMMA HangUpReportEnds ==
    ASSUME callState \in CallStates, Report(TelephonyState("idle"), "telephony")
    PROVE  callState' \notin ActiveStates
<1>1. CASE callState \in ActiveStates
  BY <1>1 DEF Report, ActiveStates, ValidTransition, Transitions, TelephonyState
<1>2. CASE callState \notin ActiveStates
  BY <1>2 DEF Report, CallStates, ActiveStates, ValidTransition, Transitions, TelephonyState
<1> QED
  BY <1>1, <1>2

\* A window means an active state or nothing.
LEMMA WindowStates ==
    ASSUME NEW keyword \in {"incoming", "active", "phone"}
    PROVE  WindowState(keyword) \in ActiveStates \cup {"none"}
BY DEF WindowState, ActiveStates

(***************************************************************************)
(* Types.                                                                  *)
(***************************************************************************)

\* An environment event spends one unit of its budget.
LEMMA SpendType ==
    ASSUME NEW e \in Events, spent \in [Events -> Nat], Spend(e)
    PROVE  spent' \in [Events -> Nat]
BY DEF Spend

\* The detectors start well typed, before any notification or call.
LEMMA InitTypeOK == Init => TypeOK
<1> SUFFICES ASSUME Init PROVE TypeOK
  OBVIOUS
<1>1. a11y \in [bound : BOOLEAN, attached : BOOLEAN, seen : CallStates]
  BY DEF Init, Unbound, CallStates
<1>2. listener \in [connected : BOOLEAN, attached : BOOLEAN]
  BY DEF Init
<1>3. /\ posted \in [Keys -> Contents] /\ tracked \in [Keys -> Contents]
      /\ spent \in [Events -> Nat] /\ phoneQueue \in Seq(PhoneStates)
  BY DEF Init, Contents
<1> QED
  BY <1>1, <1>2, <1>3 DEF Init, TypeOK, CallStates, PhoneStates, Reporters

\* Every callback keeps the types.
LEMMA TypeInductive == TypeOK /\ [Next]_vars => TypeOK'
<1> SUFFICES ASSUME TypeOK, [Next]_vars PROVE TypeOK'
  OBVIOUS
<1> USE DEF TypeOK
<1>1. CASE UNCHANGED vars
  BY <1>1 DEF vars, systemVars
<1>2. ASSUME Start PROVE TypeOK'
  BY <1>2, SpendType, PostedIsYoungest DEF Start, Events, NoReport, systemVars
<1>3. ASSUME Stop PROVE TypeOK'
  BY <1>3, SpendType DEF Stop, Events, systemVars, CallStates, Reporters
<1>4. ASSUME NEW p \in PhoneStates, PhoneChanges(p) PROVE TypeOK'
  BY <1>4, SpendType, PostedIsYoungest DEF PhoneChanges, Events, NoReport
<1>5. ASSUME TelephonyCallback PROVE TypeOK'
  <2>1. Head(phoneQueue) \in PhoneStates /\ Tail(phoneQueue) \in Seq(PhoneStates)
    BY <1>5, DeliveryKeepsYoungest DEF TelephonyCallback
  <2>2. TelephonyState(Head(phoneQueue)) \in CallStates
    BY <2>1 DEF TelephonyState, PhoneStates, CallStates
  <2>3. callState' \in CallStates /\ reporter' \in Reporters
    BY <1>5, <2>2, ReportType DEF TelephonyCallback, Reporters
  <2> QED
    BY <1>5, <2>1, <2>3 DEF TelephonyCallback, systemVars
<1>6. ASSUME A11yBinds PROVE TypeOK'
  BY <1>6, SpendType DEF A11yBinds, AttachOnBind, Events, NoReport, systemVars,
                         Unbound, CallStates
<1>7. ASSUME A11yDestroyed PROVE TypeOK'
  BY <1>7 DEF A11yDestroyed, NoReport, systemVars, Unbound, CallStates
<1>8. ASSUME NEW w \in {"incoming", "active", "phone"}, WindowAppears(w) PROVE TypeOK'
  <2>1. CASE IsNews(WindowState(w))
    <3>1. WindowState(w) \in CallStates
      BY <2>1, WindowStates DEF IsNews, ActiveStates, CallStates
    <3>2. callState' \in CallStates /\ reporter' \in Reporters
      BY <1>8, <2>1, <3>1, ReportType DEF WindowAppears, NoReport, Reporters
    <3>3. a11y' \in [bound : BOOLEAN, attached : BOOLEAN, seen : CallStates]
      BY <1>8, <2>1, <3>1 DEF WindowAppears
    <3> QED
      BY <1>8, <3>2, <3>3, SpendType DEF WindowAppears, Events, systemVars
  <2>2. CASE ~IsNews(WindowState(w))
    BY <1>8, <2>2, SpendType DEF WindowAppears, Events, NoReport, systemVars
  <2> QED
    BY <2>1, <2>2
<1>9. ASSUME ListenerConnects PROVE TypeOK'
  BY <1>9, SpendType DEF ListenerConnects, AttachOnBind, Events, NoReport, systemVars
<1>10. ASSUME ListenerDisconnects PROVE TypeOK'
  BY <1>10 DEF ListenerDisconnects, NoReport, systemVars
<1>13. ASSUME ListenerDestroyed PROVE TypeOK'
  BY <1>13 DEF ListenerDestroyed, NoReport, systemVars, Contents
<1>11. ASSUME NEW k \in Keys, NotificationRemoved(k) PROVE TypeOK'
  <2>1. "ENDED" \in CallStates /\ "notification" \in Reporters /\ "none" \in Contents
    BY DEF CallStates, Reporters, Contents
  <2>2. callState' \in CallStates /\ reporter' \in Reporters
    BY <1>11, <2>1, ReportType DEF NotificationRemoved, NoReport
  <2>3. posted' \in [Keys -> Contents] /\ tracked' \in [Keys -> Contents]
    BY <1>11, <2>1 DEF NotificationRemoved
  <2> QED
    BY <1>11, <2>2, <2>3 DEF NotificationRemoved
<1>12. ASSUME NEW k \in Keys, NEW c \in Contents, NotificationPosted(k, c) PROVE TypeOK'
  <2>1. {"INCOMING", "IN_PROGRESS"} \subseteq CallStates /\ "notification" \in Reporters
    BY DEF CallStates, Reporters
  <2>2. callState' \in CallStates /\ reporter' \in Reporters
    BY <1>12, <2>1, ReportType DEF NotificationPosted, NoReport
  <2>3. posted' \in [Keys -> Contents] /\ tracked' \in [Keys -> Contents]
    BY <1>12 DEF NotificationPosted
  <2> QED
    BY <1>12, <2>2, <2>3, SpendType DEF NotificationPosted, Events
<1> QED
  BY <1>1, <1>2, <1>3, <1>4, <1>5, <1>6, <1>7, <1>8, <1>9, <1>10, <1>11, <1>12, <1>13 DEF Next

\* The detectors, their links and the queue keep their types in every order of
\* the callbacks.
THEOREM TypeCorrect == Spec => []TypeOK
BY InitTypeOK, TypeInductive, PTL DEF Spec

(***************************************************************************)
(* Links.  A bound detector gets the wire's references when it binds or    *)
(* when the service starts; that is enough because the wire is filled      *)
(* exactly while the service runs.                                         *)
(***************************************************************************)

WireFollowsService == wired = running

LinkInv == WireFollowsService /\ LinkLands

\* No callback of the service or of the binding leaves it wired when it is not
\* running, or running and bound without its wiring.
LEMMA LinkInductive == TypeOK /\ LinkInv /\ [Next]_vars => LinkInv'
<1> SUFFICES ASSUME TypeOK, LinkInv, [Next]_vars PROVE LinkInv'
  OBVIOUS
<1> USE DEF LinkInv, WireFollowsService, LinkLands
<1>1. CASE UNCHANGED vars
  BY <1>1 DEF vars
<1>2. ASSUME Start PROVE LinkInv'
  <2>1. a11y'.bound => a11y'.attached
    BY <1>2 DEF Start, TypeOK
  <2>2. listener'.connected => listener'.attached
    BY <1>2 DEF Start, TypeOK
  <2> QED
    BY <1>2, <2>1, <2>2 DEF Start
<1>3. ASSUME Stop PROVE LinkInv'
  BY <1>3 DEF Stop
<1>4. ASSUME NEW p \in PhoneStates, PhoneChanges(p) PROVE LinkInv'
  BY <1>4 DEF PhoneChanges
<1>5. ASSUME TelephonyCallback PROVE LinkInv'
  BY <1>5 DEF TelephonyCallback
<1>6. ASSUME A11yBinds PROVE LinkInv'
  BY <1>6 DEF A11yBinds, AttachOnBind, Unbound
<1>7. ASSUME A11yDestroyed PROVE LinkInv'
  BY <1>7 DEF A11yDestroyed, Unbound
<1>8. ASSUME NEW w \in {"incoming", "active", "phone"}, WindowAppears(w) PROVE LinkInv'
  <2>1. a11y'.bound = a11y.bound /\ a11y'.attached = a11y.attached
    BY <1>8 DEF WindowAppears, TypeOK
  <2> QED
    BY <1>8, <2>1 DEF WindowAppears
<1>9. ASSUME ListenerConnects PROVE LinkInv'
  BY <1>9 DEF ListenerConnects, AttachOnBind
<1>10. ASSUME ListenerDisconnects PROVE LinkInv'
  BY <1>10 DEF ListenerDisconnects, TypeOK
<1>13. ASSUME ListenerDestroyed PROVE LinkInv'
  BY <1>13 DEF ListenerDestroyed
<1>11. ASSUME NEW k \in Keys, NotificationRemoved(k) PROVE LinkInv'
  BY <1>11 DEF NotificationRemoved
<1>12. ASSUME NEW k \in Keys, NEW c \in Contents, NotificationPosted(k, c) PROVE LinkInv'
  BY <1>12 DEF NotificationPosted
<1> QED
  BY <1>1, <1>2, <1>3, <1>4, <1>5, <1>6, <1>7, <1>8, <1>9, <1>10, <1>11, <1>12, <1>13 DEF Next

\* The link lands whatever the order of starts, stops and bindings
\* (CallStateWire.kt l. 11).
THEOREM LinkLandsInvariant == Spec => []LinkLands
<1>1. Init => LinkInv
  BY DEF Init, LinkInv, WireFollowsService, LinkLands
<1>2. LinkInv => LinkLands
  BY DEF LinkInv
<1> QED
  BY <1>1, <1>2, LinkInductive, TypeCorrect, PTL DEF Spec

(***************************************************************************)
(* The native call.  The state machine is right about the phone once the   *)
(* queue is empty, because until then the youngest queued callback is the  *)
(* present state of the phone.                                             *)
(***************************************************************************)

QueueEndsAtPhone == running /\ phoneQueue # <<>> => Youngest(phoneQueue) = phone

NativeInv == QueueEndsAtPhone /\ NativeCallMonitored /\ HangUpEnds

\* A step that leaves the phone and its queue alone keeps NativeInv when it
\* reports nothing, a window's active state, or whatever a notification says.
LEMMA OtherDetectorsKeepNativeInv ==
    ASSUME NativeInv, UNCHANGED <<running, phone, phoneQueue>>,
           \/ NoReport
           \/ callState' \in ActiveStates /\ reporter' = "a11y"
           \/ reporter' = "notification"
    PROVE  NativeInv'
BY DEF NativeInv, QueueEndsAtPhone, NativeCallMonitored, HangUpEnds, NoReport, Youngest

\* Posting, delivering and dropping telephony callbacks keep the queue ending at
\* the state the phone is in.
LEMMA NativeInductive == TypeOK /\ NativeInv /\ [Next]_vars => NativeInv'
<1> SUFFICES ASSUME TypeOK, NativeInv, [Next]_vars PROVE NativeInv'
  OBVIOUS
<1>0. callState \in CallStates /\ reporter \in Reporters /\ phone \in PhoneStates
      /\ phoneQueue \in Seq(PhoneStates)
  BY DEF TypeOK
<1>1. CASE UNCHANGED vars
  BY <1>1, OtherDetectorsKeepNativeInv DEF vars, systemVars, NoReport
<1>2. ASSUME Start PROVE NativeInv'
  <2>1. phoneQueue' # <<>> /\ Youngest(phoneQueue') = phone /\ phone' = phone
    BY <1>0, <1>2, PostedIsYoungest DEF Start, systemVars
  <2> QED
    BY <2>1 DEF NativeInv, QueueEndsAtPhone, NativeCallMonitored, HangUpEnds, Youngest
<1>3. ASSUME Stop PROVE NativeInv'
  BY <1>3 DEF Stop, NativeInv, QueueEndsAtPhone, NativeCallMonitored, HangUpEnds
<1>4. ASSUME NEW p \in PhoneStates, PhoneChanges(p) PROVE NativeInv'
  <2>1. running' => phoneQueue' # <<>> /\ Youngest(phoneQueue') = phone'
    BY <1>0, <1>4, PostedIsYoungest DEF PhoneChanges
  <2> QED
    BY <2>1 DEF NativeInv, QueueEndsAtPhone, NativeCallMonitored, HangUpEnds, Youngest
<1>5. ASSUME TelephonyCallback PROVE NativeInv'
  <2>1. UNCHANGED <<running, phone>> /\ phoneQueue' = Tail(phoneQueue)
    BY <1>5 DEF TelephonyCallback, systemVars
  <2>2. CASE running /\ phoneQueue' = <<>>
    <3>1. Head(phoneQueue) = phone
      BY <1>0, <1>5, <2>1, <2>2, DeliveryKeepsYoungest
         DEF NativeInv, QueueEndsAtPhone, TelephonyCallback
    <3>2. Report(TelephonyState(phone), "telephony")
      BY <1>5, <3>1 DEF TelephonyCallback
    <3>3. CASE phone = "idle"
      <4>1. callState' \notin ActiveStates
        BY <1>0, <3>2, <3>3, HangUpReportEnds
      <4> QED
        BY <2>1, <2>2, <3>3, <4>1
           DEF NativeInv, QueueEndsAtPhone, NativeCallMonitored, HangUpEnds
    <3>4. CASE phone \in {"ringing", "offhook"}
      <4>1. TelephonyState(phone) \in ActiveStates
        BY <3>4 DEF TelephonyState, ActiveStates
      <4>2. callState' \in ActiveStates
        BY <1>0, <3>2, <4>1, ActiveReportActivates DEF Reporters
      <4> QED
        BY <2>1, <2>2, <3>4, <4>2
           DEF NativeInv, QueueEndsAtPhone, NativeCallMonitored, HangUpEnds
    <3> QED
      BY <1>0, <3>3, <3>4 DEF PhoneStates
  <2>3. CASE running /\ phoneQueue' # <<>>
    BY <1>0, <1>5, <2>1, <2>3, DeliveryKeepsYoungest
       DEF NativeInv, QueueEndsAtPhone, NativeCallMonitored, HangUpEnds, TelephonyCallback,
           Youngest
  <2>4. CASE ~running
    BY <2>1, <2>4 DEF NativeInv, QueueEndsAtPhone, NativeCallMonitored, HangUpEnds
  <2> QED
    BY <2>2, <2>3, <2>4
<1>6. ASSUME A11yBinds PROVE NativeInv'
  BY <1>6, OtherDetectorsKeepNativeInv DEF A11yBinds, systemVars
<1>7. ASSUME A11yDestroyed PROVE NativeInv'
  BY <1>7, OtherDetectorsKeepNativeInv DEF A11yDestroyed, systemVars
<1>8. ASSUME NEW w \in {"incoming", "active", "phone"}, WindowAppears(w) PROVE NativeInv'
  <2>1. NoReport \/ (callState' \in ActiveStates /\ reporter' = "a11y")
    BY <1>8, WindowStates DEF WindowAppears, IsNews, Report, NoReport
  <2> QED
    BY <1>8, <2>1, OtherDetectorsKeepNativeInv DEF WindowAppears, systemVars
<1>9. ASSUME ListenerConnects PROVE NativeInv'
  BY <1>9, OtherDetectorsKeepNativeInv DEF ListenerConnects, systemVars
<1>10. ASSUME ListenerDisconnects PROVE NativeInv'
  BY <1>10, OtherDetectorsKeepNativeInv DEF ListenerDisconnects, systemVars
<1>13. ASSUME ListenerDestroyed PROVE NativeInv'
  BY <1>13, OtherDetectorsKeepNativeInv DEF ListenerDestroyed, systemVars
<1>11. ASSUME NEW k \in Keys, NotificationRemoved(k) PROVE NativeInv'
  <2>1. NoReport \/ reporter' = "notification"
    BY <1>11 DEF NotificationRemoved, Report, NoReport
  <2> QED
    BY <1>11, <2>1, OtherDetectorsKeepNativeInv DEF NotificationRemoved
<1>12. ASSUME NEW k \in Keys, NEW c \in Contents, NotificationPosted(k, c) PROVE NativeInv'
  <2>1. NoReport \/ reporter' = "notification"
    BY <1>12 DEF NotificationPosted, Report, NoReport
  <2> QED
    BY <1>12, <2>1, OtherDetectorsKeepNativeInv DEF NotificationPosted
<1> QED
  BY <1>1, <1>2, <1>3, <1>4, <1>5, <1>6, <1>7, <1>8, <1>9, <1>10, <1>11, <1>12, <1>13 DEF Next

\* The native call is followed in every order of callbacks.
LEMMA NativeInvariant == Spec => []NativeInv
<1>1. Init => NativeInv
  BY DEF Init, NativeInv, QueueEndsAtPhone, NativeCallMonitored, HangUpEnds
<1> QED
  BY <1>1, NativeInductive, TypeCorrect, PTL DEF Spec

\* With the callbacks delivered, a native call under way is monitored unless a
\* notification spoke last.
THEOREM NativeCallMonitoredInvariant == Spec => []NativeCallMonitored
<1>1. NativeInv => NativeCallMonitored
  BY DEF NativeInv
<1> QED
  BY <1>1, NativeInvariant, PTL

\* With the callbacks delivered, only another detector keeps the state active
\* after a native hang-up.
THEOREM HangUpEndsInvariant == Spec => []HangUpEnds
<1>1. NativeInv => HangUpEnds
  BY DEF NativeInv
<1> QED
  BY <1>1, NativeInvariant, PTL

(***************************************************************************)
(* App calls.  What announces a call is tracked as one, so a removal that  *)
(* leaves another announcement tracked reports nothing.                    *)
(***************************************************************************)

AnnouncementsTracked == \A k \in CallKeys : tracked[k] # "message"

\* Only a key that announces no call is ever tracked as a message.
LEMMA AnnouncementsInductive ==
    TypeOK /\ AnnouncementsTracked /\ [Next]_vars => AnnouncementsTracked'
<1> SUFFICES ASSUME TypeOK, AnnouncementsTracked, [Next]_vars PROVE AnnouncementsTracked'
  OBVIOUS
<1> USE DEF AnnouncementsTracked
<1>1. ASSUME NEW k \in Keys, NotificationRemoved(k) PROVE AnnouncementsTracked'
  BY <1>1 DEF NotificationRemoved, TypeOK, Keys
<1>2. ASSUME NEW k \in Keys, NEW c \in Contents, NotificationPosted(k, c)
      PROVE  AnnouncementsTracked'
  BY <1>2 DEF NotificationPosted, ContentsOf, TypeOK, Keys
<1>3. CASE UNCHANGED tracked
  BY <1>3
<1>4. CASE ListenerDestroyed
  BY <1>4 DEF ListenerDestroyed, Keys
<1> QED
  BY <1>1, <1>2, <1>3, <1>4 DEF Next, vars, Start, Stop, PhoneChanges, TelephonyCallback, A11yBinds,
     A11yDestroyed, WindowAppears, ListenerConnects, ListenerDisconnects

\* A step that ends an app call while one of its notifications stays tracked is
\* the telephony's or a stop.
LEMMA StepKeepsAppCall ==
    ASSUME TypeOK, AnnouncementsTracked, AnnouncementsTracked', [Next]_vars,
           callState \in ActiveStates, callState' \notin ActiveStates,
           NEW kept \in CallKeys, tracked[kept] # "none", tracked'[kept] # "none"
    PROVE  reporter' \in {"telephony", "reset"}
<1>0. callState \in CallStates /\ ~NoReport
  BY DEF TypeOK, NoReport
<1>1. ASSUME NEW s \in ActiveStates, NEW who \in Reporters PROVE ~Report(s, who)
  BY <1>0, <1>1, ActiveReportActivates
<1>2. CASE Stop
  BY <1>2 DEF Stop
<1>3. CASE TelephonyCallback
  BY <1>0, <1>3 DEF TelephonyCallback, Report, NoReport
<1>4. ASSUME NEW w \in {"incoming", "active", "phone"}, WindowAppears(w) PROVE FALSE
  BY <1>0, <1>1, <1>4, WindowStates DEF WindowAppears, IsNews, Reporters
<1>5. ASSUME NEW k \in Keys, NotificationRemoved(k) PROVE FALSE
  <2>1. StillActive(tracked')
    <3>1. tracked' \in [Keys -> Contents]
      BY <1>5 DEF NotificationRemoved, TypeOK, Contents
    <3> QED
      BY <3>1 DEF StillActive, AnnouncementsTracked, Keys, Contents
  <2> QED
    BY <1>0, <1>5, <2>1 DEF NotificationRemoved
<1>6. ASSUME NEW k \in Keys, NEW c \in Contents, NotificationPosted(k, c) PROVE FALSE
  BY <1>0, <1>1, <1>6 DEF NotificationPosted, ActiveStates, Reporters
<1>7. CASE UNCHANGED vars
  BY <1>0, <1>7 DEF vars, NoReport
<1> QED
  BY <1>0, <1>2, <1>3, <1>4, <1>5, <1>6, <1>7 DEF Next, Start, PhoneChanges, A11yBinds,
     A11yDestroyed, ListenerConnects, ListenerDisconnects, ListenerDestroyed

\* An app call with a tracked notification is ended only by telephony or a stop
\* (ThirdPartyCallDetector.kt l. 49-57).
THEOREM AppCallKeptTheorem == Spec => AppCallKept
<1>1. Init => AnnouncementsTracked
  BY DEF Init, AnnouncementsTracked, Keys
<1>2. Spec => []AnnouncementsTracked
  BY <1>1, AnnouncementsInductive, TypeCorrect, PTL DEF Spec
<1>3. TypeOK /\ AnnouncementsTracked /\ AnnouncementsTracked' /\ [Next]_vars =>
        [ /\ callState \in ActiveStates /\ callState' \notin ActiveStates
          /\ \E k \in CallKeys : tracked[k] # "none" /\ tracked'[k] # "none"
          => reporter' \in {"telephony", "reset"} ]_vars
  BY StepKeepsAppCall
<1> QED
  BY <1>2, <1>3, TypeCorrect, PTL DEF Spec, AppCallKept
===============================================================================
