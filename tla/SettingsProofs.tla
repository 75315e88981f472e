-------------------------- MODULE SettingsProofs ---------------------------
(***************************************************************************)
(* Theorems about SettingsStore and SettingsPage, for any set of sections  *)
(* and scripts, any number of requests and initializations under way and   *)
(* any number of app state changes, and, in the last three sections, about *)
(* DeclarativeForm, the other kind of form the page shows, for any fields, *)
(* forms and values and any number of saves in flight.                     *)
(***************************************************************************)
EXTENDS SettingsPage, DeclarativeForm, FiniteSetTheorems, SequenceTheorems, TLAPS

USE ConstantsAssumption

-----------------------------------------------------------------------------
(* What the requests of an action look like afterwards.                    *)

\* A request that is sent is the only new one, and it has no data yet.
LEMMA SendType ==
  ASSUME RequestsOK, NEW what, NEW s, Send(what, s), version' = version,
         version \in Nat,
         \/ what \in {"load", "prefetch"} /\ s \in Section
         \/ what = "sections" /\ s = NoSection
  PROVE  RequestsOK'
<1>1. PICK i \in Slot : /\ request[i] = NoRequest
                        /\ request' = [request EXCEPT ![i] =
                             [what |-> what, section |-> s, status |-> "sent", data |-> 0]]
  BY DEF Send
<1>2. [what |-> what, section |-> s, status |-> "sent", data |-> 0] \in RequestType
  BY DEF RequestType, Key, Version
<1>3. request' \in [Slot -> RequestType]
  BY <1>1, <1>2 DEF RequestsOK
<1>4. ASSUME NEW j \in Slot
      PROVE  /\ request'[j].what = "none" <=> request'[j] = NoRequest
             /\ request'[j].what \in {"load", "prefetch"} <=> request'[j].section \in Section
             /\ request'[j].status = "ok" <=> request'[j].data > 0
             /\ request'[j].data <= version'
  <2>1. CASE j = i
    BY <2>1, <1>1 DEF RequestsOK, NoRequest
  <2>2. CASE j # i
    BY <2>2, <1>1 DEF RequestsOK
  <2> QED  BY <2>1, <2>2
<1> QED  BY <1>3, <1>4 DEF RequestsOK

LEMMA ReceiveType ==
  ASSUME RequestsOK, version \in Nat, NEW i \in Slot, NEW what, Receive(i, what)
  PROVE  RequestsOK'
<1>1. NoRequest \in RequestType
  BY DEF NoRequest, RequestType, Key, Version
<1>2. request' \in [Slot -> RequestType] /\ version' = version
  BY <1>1 DEF RequestsOK, Receive
<1>3. ASSUME NEW j \in Slot
      PROVE  /\ request'[j].what = "none" <=> request'[j] = NoRequest
             /\ request'[j].what \in {"load", "prefetch"} <=> request'[j].section \in Section
             /\ request'[j].status = "ok" <=> request'[j].data > 0
             /\ request'[j].data <= version'
  BY <1>2 DEF RequestsOK, Receive, NoRequest
<1> QED  BY <1>2, <1>3 DEF RequestsOK

LEMMA AnswerType ==
  ASSUME RequestsOK, version \in Version \ {0}, NEW i \in Slot, Answer(i)
  PROVE  RequestsOK'
<1>1. request' \in [Slot -> RequestType] /\ version' = version
  BY DEF RequestsOK, Answer, RequestType
<1>2. ASSUME NEW j \in Slot
      PROVE  /\ request'[j].what = "none" <=> request'[j] = NoRequest
             /\ request'[j].what \in {"load", "prefetch"} <=> request'[j].section \in Section
             /\ request'[j].status = "ok" <=> request'[j].data > 0
             /\ request'[j].data <= version'
  BY <1>1 DEF RequestsOK, Answer, NoRequest, RequestType, Version
<1> QED  BY <1>1, <1>2 DEF RequestsOK

\* The synchronous part of a load either changes nothing or sends a request.
LEMMA LoadType ==
  ASSUME TypeOK, NEW s \in Section, NEW force, LoadSectionContent(s, force),
         version' = version
  PROVE  /\ RequestsOK'
         /\ loading' \in SUBSET Section
         /\ errors' \in [Section -> {"none", "denied", "failed"}]
<1>1. CASE UNCHANGED <<loading, errors, request>>
  BY <1>1 DEF TypeOK, RequestsOK
<1>2. CASE /\ loading' = loading \cup {s}
           /\ errors' = [errors EXCEPT ![s] = "none"]
           /\ Send("load", s)
  BY <1>2, SendType DEF TypeOK
<1> QED  BY <1>1, <1>2 DEF LoadSectionContent

\* What is in flight when an app state change is handled counts as overtaken.
LEMMA OvertakeFacts ==
  ASSUME RequestsOK, overtaken \in SUBSET Key, Overtake
  PROVE  /\ handled' = version
         /\ overtaken \subseteq overtaken' /\ overtaken' \in SUBSET Key
         /\ \A i \in Slot : request[i] # NoRequest => request[i].section \in overtaken'
         /\ \A i \in Slot : request[i].what \in {"load", "sections"} => NoSection \in overtaken'
BY DEF Overtake, RequestsOK, RequestType, Key
-----------------------------------------------------------------------------
(* Types.                                                                  *)

LEMMA InitType == Init => TypeOK
BY DEF Init, TypeOK, RequestsOK, NoRequest, RequestType, Key, Version

LEMMA StepType == TypeOK /\ [Next]_vars => TypeOK'
<1> SUFFICES ASSUME TypeOK, [Next]_vars PROVE TypeOK'
  OBVIOUS
<1>1. version \in Nat /\ version \in Version \ {0}
  BY DEF TypeOK, Version
<1>2. CASE UNCHANGED vars
  BY <1>2 DEF TypeOK, RequestsOK, vars
<1>3. CASE AppChange
  BY <1>3 DEF TypeOK, RequestsOK, AppChange, store, RequestType, Version
<1>4. CASE AppEvent
  <2>1. CASE HandleAppStateChange
    <3>1. RequestsOK'
      BY <1>1, <1>4, <2>1, SendType DEF TypeOK, AppEvent, HandleAppStateChange
    <3>2. handled' = version /\ overtaken' \in SUBSET Key
      BY <2>1, OvertakeFacts DEF TypeOK, HandleAppStateChange
    <3> QED
      BY <1>4, <2>1, <3>1, <3>2
      DEF TypeOK, AppEvent, HandleAppStateChange, ClearAllContent
  <2>2. CASE UNCHANGED <<store, request, handled, overtaken>>
    BY <1>4, <2>2 DEF TypeOK, RequestsOK, AppEvent, store
  <2> QED  BY <1>4, <2>1, <2>2 DEF AppEvent
<1>5. CASE Leave
  <2>1. RequestsOK'
    BY <1>5 DEF TypeOK, RequestsOK, Leave
  <2>2. registered' \in BOOLEAN /\ handlers' \in Int
    <3>1. registered' = FALSE
      BY <1>5 DEF Leave, UnregisterEventListeners
    <3>2. handlers' \in {handlers - 1, handlers} /\ handlers \in Int
      BY <1>5 DEF TypeOK, Leave, UnregisterEventListeners
    <3>3. handlers' \in Int
      BY <3>2
    <3> QED  BY <3>1, <3>3
  <2> QED  BY <1>5, <2>1, <2>2 DEF TypeOK, Leave, Key
<1>6. CASE Retry
  BY <1>6, LoadType DEF TypeOK, Retry, RetryOffered, Key
<1>7. CASE RefreshSection
  BY <1>7, LoadType DEF TypeOK, RefreshSection, Key
<1>8. ASSUME NEW s \in Section, Navigate(s) PROVE TypeOK'
  <2>1. RequestsOK' /\ loading' \in SUBSET Section
        /\ errors' \in [Section -> {"none", "denied", "failed"}]
    BY <1>8, LoadType DEF Navigate
  <2>2. registered' \in BOOLEAN /\ handlers' \in Int
    BY <1>8 DEF TypeOK, Navigate, RegisterEventListeners
  <2> QED  BY <1>8, <2>1, <2>2 DEF TypeOK, Navigate, Key
<1>9. ASSUME NEW s \in Section, Prefetch(s) PROVE TypeOK'
  BY <1>1, <1>9, SendType DEF TypeOK, Prefetch, store
<1>10. ASSUME NEW s \in Section, ClearSectionContent(s) PROVE TypeOK'
  BY <1>10 DEF TypeOK, RequestsOK, ClearSectionContent
<1>11. ASSUME NEW i \in Slot, Answer(i) PROVE TypeOK'
  BY <1>1, <1>11, AnswerType DEF TypeOK, Answer, store
<1>12. ASSUME NEW i \in Slot, Deliver(i) PROVE TypeOK'
  <2>1. RequestsOK'
    BY <1>1, <1>12, ReceiveType
    DEF TypeOK, Deliver, LoadSucceeded, LoadFailed, PrefetchDone, SectionsDone
  <2>2. request[i].data \in 0..version /\ request[i].status \in {"none", "sent", "ok", "denied", "failed"}
    BY <1>1 DEF TypeOK, RequestsOK, RequestType, Version
  <2>3. CASE LoadSucceeded(i)
    BY <2>1, <2>2, <2>3 DEF TypeOK, LoadSucceeded, Receive
  <2>4. CASE LoadFailed(i)
    BY <2>1, <2>2, <2>4 DEF TypeOK, LoadFailed, Receive
  <2>5. CASE PrefetchDone(i)
    BY <2>1, <2>2, <2>5 DEF TypeOK, PrefetchDone, Receive
  <2>6. CASE SectionsDone(i)
    BY <2>1, <2>2, <2>6 DEF TypeOK, SectionsDone, Receive, Key
  <2> QED  BY <1>12, <2>3, <2>4, <2>5, <2>6 DEF Deliver
<1> QED
  BY <1>2, <1>3, <1>4, <1>5, <1>6, <1>7, <1>8, <1>9, <1>10, <1>11, <1>12 DEF Next

\* For all constants, every variable has its type, only an answered request
\* carries data and nothing in the page is newer than the server.
THEOREM TypeCorrect == Spec => []TypeOK
BY InitType, StepType, PTL DEF Spec
-----------------------------------------------------------------------------
(* Spinners.                                                               *)

\* A request that is sent keeps every other request.
LEMMA SendKeeps ==
  ASSUME RequestsOK, NEW what, NEW s, Send(what, s)
  PROVE  /\ \E i \in Slot : request'[i].what = what /\ request'[i].section = s
         /\ \A i \in Slot : request[i] # NoRequest => request'[i] = request[i]
BY DEF Send, RequestsOK

\* A load that is delivered ends the spinner of its own section only.
LEMMA ReceiveKeeps ==
  ASSUME RequestsOK, NEW i \in Slot, NEW what, Receive(i, what)
  PROVE  \A j \in Slot \ {i} : request'[j] = request[j]
BY DEF Receive, RequestsOK

LEMMA LoadSpins ==
  ASSUME TypeOK, SpinnerHasRequest, NEW s \in Section, NEW force, LoadSectionContent(s, force)
  PROVE  SpinnerHasRequest'
<1> SUFFICES ASSUME NEW t \in loading'
             PROVE  \E i \in Slot : request'[i].what = "load" /\ request'[i].section = t
  BY DEF SpinnerHasRequest, InFlight
<1>1. t \in loading => \E i \in Slot : request[i].what = "load" /\ request[i].section = t
  BY DEF SpinnerHasRequest, InFlight
<1>2. CASE UNCHANGED <<loading, errors, request>>
  BY <1>1, <1>2
<1>3. CASE loading' = loading \cup {s} /\ Send("load", s)
  <2>1. RequestsOK
    BY DEF TypeOK
  <2>2. CASE t = s
    BY <1>3, <2>1, <2>2, SendKeeps
  <2>3. CASE t # s
    <3>1. PICK i \in Slot : request[i].what = "load" /\ request[i].section = t
      BY <1>1, <1>3, <2>3
    <3>2. request[i] # NoRequest
      BY <3>1 DEF NoRequest
    <3> QED  BY <1>3, <2>1, <3>1, <3>2, SendKeeps
  <2> QED  BY <2>2, <2>3
<1> QED  BY <1>2, <1>3 DEF LoadSectionContent

LEMMA StepSpins == TypeOK /\ SpinnerHasRequest /\ [Next]_vars => SpinnerHasRequest'
<1> SUFFICES ASSUME TypeOK, SpinnerHasRequest, [Next]_vars PROVE SpinnerHasRequest'
  OBVIOUS
<1> USE DEF SpinnerHasRequest, InFlight
<1>1. RequestsOK
  BY DEF TypeOK
<1>2. CASE UNCHANGED vars
  BY <1>2 DEF vars
<1>3. CASE AppChange
  BY <1>3 DEF AppChange, store
<1>4. CASE AppEvent
  BY <1>4 DEF AppEvent, HandleAppStateChange, ClearAllContent, store
<1>5. CASE Leave
  BY <1>5 DEF Leave
<1>6. CASE Retry
  BY <1>6, LoadSpins DEF Retry, RetryOffered, TypeOK, Key
<1>7. CASE RefreshSection
  BY <1>7, LoadSpins DEF RefreshSection, TypeOK, Key
<1>8. ASSUME NEW s \in Section, Navigate(s) PROVE SpinnerHasRequest'
  BY <1>8, LoadSpins DEF Navigate
<1>9. ASSUME NEW s \in Section, Prefetch(s) PROVE SpinnerHasRequest'
  <2>1. loading' = loading /\ \A i \in Slot : request[i] # NoRequest => request'[i] = request[i]
    BY <1>1, <1>9, SendKeeps DEF Prefetch, store
  <2>2. \A i \in Slot : request[i].what = "load" => request[i] # NoRequest
    BY DEF NoRequest
  <2> QED  BY <2>1, <2>2
<1>10. ASSUME NEW s \in Section, ClearSectionContent(s) PROVE SpinnerHasRequest'
  BY <1>10 DEF ClearSectionContent
<1>11. ASSUME NEW i \in Slot, Answer(i) PROVE SpinnerHasRequest'
  <2>1. loading' = loading
    BY <1>11 DEF Answer, store
  <2>2. \A j \in Slot : /\ request'[j].what = request[j].what
                         /\ request'[j].section = request[j].section
    BY <1>1, <1>11 DEF Answer, RequestsOK, RequestType
  <2> QED  BY <2>1, <2>2
<1>12. ASSUME NEW i \in Slot, Deliver(i) PROVE SpinnerHasRequest'
  <2>1. /\ \A j \in Slot \ {i} : request'[j] = request[j]
        /\ \/ request[i].what = "load" /\ loading' = loading \ {request[i].section}
           \/ request[i].what # "load" /\ loading' = loading
    BY <1>1, <1>12, ReceiveKeeps
    DEF Deliver, LoadSucceeded, LoadFailed, PrefetchDone, SectionsDone, Receive
  <2> QED  BY <2>1
<1> QED
  BY <1>2, <1>3, <1>4, <1>5, <1>6, <1>7, <1>8, <1>9, <1>10, <1>11, <1>12 DEF Next

\* For any number of requests in flight, a section counts as loading only as
\* long as a load of it is in flight, whatever was cleared and sent meanwhile.
THEOREM SpinnersAreBacked == Spec => []SpinnerHasRequest
<1>1. Init => SpinnerHasRequest
  BY DEF Init, SpinnerHasRequest
<1>2. TypeOK /\ SpinnerHasRequest /\ [Next]_vars => SpinnerHasRequest'
  BY StepSpins
<1> QED  BY <1>1, <1>2, TypeCorrect, PTL DEF Spec

-----------------------------------------------------------------------------
(* Subscriptions.                                                          *)

\* The flag eventListenersRegistered is set exactly where the navigation is
\* mounted, and says whether the handler is subscribed.
Subscribed == /\ registered = TRUE <=> view # NoSection
              /\ handlers = IF registered THEN 1 ELSE 0

LEMMA StepSubscribed == TypeOK /\ Subscribed /\ [Next]_vars => Subscribed'
<1> SUFFICES ASSUME TypeOK, Subscribed, [Next]_vars PROVE Subscribed'
  OBVIOUS
<1>1. registered \in BOOLEAN
  BY DEF TypeOK
<1>2. CASE Leave
  BY <1>1, <1>2 DEF Leave, UnregisterEventListeners, Subscribed
<1>3. ASSUME NEW s \in Section, Navigate(s) PROVE Subscribed'
  BY <1>1, <1>3 DEF Navigate, RegisterEventListeners, Subscribed
<1>4. CASE UNCHANGED <<registered, handlers, view>>
  BY <1>4 DEF Subscribed
<1>5. CASE AppChange \/ AppEvent \/ Retry \/ RefreshSection \/ UNCHANGED vars
  BY <1>4, <1>5 DEF AppChange, AppEvent, HandleAppStateChange, Retry, RefreshSection, store, vars
<1>6. ASSUME NEW s \in Section, Prefetch(s) \/ ClearSectionContent(s) PROVE Subscribed'
  BY <1>4, <1>6 DEF Prefetch, ClearSectionContent, store
<1>7. ASSUME NEW i \in Slot, Answer(i) \/ Deliver(i) PROVE Subscribed'
  BY <1>4, <1>7 DEF Answer, Deliver, LoadSucceeded, LoadFailed, PrefetchDone, SectionsDone,
                    Receive, store
<1> QED  BY <1>2, <1>3, <1>5, <1>6, <1>7 DEF Next

\* The store never has a second handler on the event bus, nor one left when
\* the navigation is gone.
THEOREM NoHandlerLeaks == Spec => []HandlersMatch
<1>1. Init => Subscribed
  BY DEF Init, Subscribed
<1>2. Subscribed => HandlersMatch
  BY DEF Subscribed, HandlersMatch
<1> QED  BY <1>1, <1>2, StepSubscribed, TypeCorrect, PTL DEF Spec
-----------------------------------------------------------------------------
(* Freshness.                                                              *)

\* An answer that no app state change overtook is not older than the last one
\* that was handled.
AnswersFresh ==
  \A i \in Slot : request[i].status = "ok" =>
    /\ request[i].section \in Section \ overtaken => request[i].data >= handled
    /\ request[i].what \in {"load", "sections"} /\ NoSection \notin overtaken
         => request[i].data >= handled

Fresh == AnswersFresh /\ StaleOnlyIfOvertaken /\ SectionsRefreshed

\* A step that handles no app state change and brings no answer.
Calm == /\ handled' = handled /\ overtaken \subseteq overtaken'
        /\ \A i \in Slot : request'[i] = request[i] \/ request'[i].status # "ok"

LEMMA CalmAnswers == AnswersFresh /\ Calm => AnswersFresh'
BY DEF AnswersFresh, Calm

LEMMA SendIsCalm ==
  ASSUME RequestsOK, NEW what, NEW s, Send(what, s), UNCHANGED <<handled, overtaken>>
  PROVE  Calm
BY DEF Send, RequestsOK, Calm

LEMMA LoadIsCalm ==
  ASSUME TypeOK, NEW s, NEW force, LoadSectionContent(s, force), UNCHANGED <<handled, overtaken>>
  PROVE  Calm
<1>1. CASE UNCHANGED <<loading, errors, request>>
  BY <1>1 DEF Calm
<1>2. CASE Send("load", s)
  BY <1>2, SendIsCalm DEF TypeOK
<1> QED  BY <1>1, <1>2 DEF LoadSectionContent

\* Requests that are not received stay in flight.
Flying == \A i \in Slot : request[i] # NoRequest =>
            request'[i].what = request[i].what /\ request'[i].section = request[i].section

LEMMA SendFlies ==
  ASSUME RequestsOK, NEW what, NEW s, Send(what, s)
  PROVE  Flying
BY SendKeeps DEF Flying

LEMMA LoadFlies ==
  ASSUME TypeOK, NEW s, NEW force, LoadSectionContent(s, force)
  PROVE  Flying
<1>1. CASE UNCHANGED <<loading, errors, request>>
  BY <1>1 DEF Flying
<1>2. CASE Send("load", s)
  BY <1>2, SendFlies DEF TypeOK
<1> QED  BY <1>1, <1>2 DEF LoadSectionContent

\* As long as the refresh of the navigation flies, it counts as refreshed.
LEMMA FlyingSections ==
  ASSUME SectionsRefreshed, Flying, overtaken \subseteq overtaken',
         sections' = sections, handled' = handled
  PROVE  SectionsRefreshed'
<1>1. (\E i \in Slot : request[i].what = "sections" /\ request[i].section = NoSection)
      => \E i \in Slot : request'[i].what = "sections" /\ request'[i].section = NoSection
  BY DEF Flying, NoRequest
<1> QED  BY <1>1 DEF SectionsRefreshed, InFlight

\* The steps that touch neither the cached content (but to clear it) nor the
\* navigation keep the cache fresh.
LEMMA CalmFresh ==
  ASSUME TypeOK, Fresh, Calm, Flying, sections' = sections,
         \A s \in Section : content'[s] \in {content[s], 0}
  PROVE  Fresh'
<1>1. AnswersFresh'
  BY CalmAnswers DEF Fresh
<1>2. StaleOnlyIfOvertaken'
  BY DEF Fresh, StaleOnlyIfOvertaken, Calm
<1>3. SectionsRefreshed'
  BY FlyingSections DEF Fresh, Calm
<1> QED  BY <1>1, <1>2, <1>3 DEF Fresh

\* Handling an app state change clears the content, sends for the navigation,
\* and counts whatever is in flight as overtaken.
LEMMA HandlingFresh ==
  ASSUME TypeOK, HandleAppStateChange
  PROVE  Fresh'
<1>1. RequestsOK /\ overtaken \in SUBSET Key
  BY DEF TypeOK
<1>2. PICK i \in Slot :
        /\ request[i] = NoRequest
        /\ request' = [request EXCEPT ![i] =
             [what |-> "sections", section |-> NoSection, status |-> "sent", data |-> 0]]
  BY DEF HandleAppStateChange, Send
<1>3. ASSUME NEW j \in Slot, request'[j].status = "ok"
      PROVE  request'[j] = request[j] /\ request[j] # NoRequest
  BY <1>1, <1>2, <1>3 DEF RequestsOK, NoRequest
<1>4. AnswersFresh'
  BY <1>1, <1>3, OvertakeFacts DEF AnswersFresh, HandleAppStateChange
<1>5. StaleOnlyIfOvertaken'
  BY DEF StaleOnlyIfOvertaken, HandleAppStateChange, ClearAllContent
<1>6. SectionsRefreshed'
  BY <1>1, <1>2 DEF SectionsRefreshed, InFlight, RequestsOK
<1> QED  BY <1>4, <1>5, <1>6 DEF Fresh

LEMMA AnswerFresh ==
  ASSUME TypeOK, Fresh, NEW i \in Slot, Answer(i)
  PROVE  Fresh'
<1>1. RequestsOK /\ version \in Nat /\ handled \in 0..version
  BY DEF TypeOK
<1>2. UNCHANGED <<handled, overtaken, content, sections>>
  BY DEF Answer, store
<1>3. Flying
  BY <1>1 DEF Answer, RequestsOK, RequestType, Flying
<1>4. ASSUME NEW j \in Slot
      PROVE  request'[j] = request[j] \/ request'[j].status # "ok" \/ request'[j].data >= handled
  BY <1>1 DEF Answer, RequestsOK, RequestType
<1>5. AnswersFresh'
  BY <1>2, <1>4 DEF Fresh, AnswersFresh
<1>6. StaleOnlyIfOvertaken'
  BY <1>2 DEF Fresh, StaleOnlyIfOvertaken
<1>7. SectionsRefreshed'
  BY <1>2, <1>3, FlyingSections DEF Fresh
<1> QED  BY <1>5, <1>6, <1>7 DEF Fresh

LEMMA DeliverFresh ==
  ASSUME TypeOK, Fresh, NEW i \in Slot, Deliver(i)
  PROVE  Fresh'
<1>1. RequestsOK
  BY DEF TypeOK
<1>2. /\ request' = [request EXCEPT ![i] = NoRequest] /\ handled' = handled
      /\ overtaken \subseteq overtaken'
  BY DEF Deliver, LoadSucceeded, LoadFailed, PrefetchDone, SectionsDone, Receive
<1>3. Calm
  BY <1>1, <1>2 DEF Calm, RequestsOK, NoRequest
<1>4. AnswersFresh'
  BY <1>3, CalmAnswers DEF Fresh
<1>5. StaleOnlyIfOvertaken'
  <2>1. ASSUME NEW s \in Section, s \notin overtaken
        PROVE  content'[s] = content[s] \/ content'[s] >= handled
    BY <1>1, <2>1 DEF Deliver, LoadSucceeded, LoadFailed, PrefetchDone, SectionsDone, Receive,
                      Fresh, AnswersFresh, TypeOK
  <2> QED  BY <1>2, <2>1 DEF Fresh, StaleOnlyIfOvertaken
<1>6. SectionsRefreshed'
  <2>1. CASE NoSection \in overtaken'
    BY <2>1 DEF SectionsRefreshed
  <2>2. CASE NoSection \notin overtaken' /\ sections' = sections /\ request[i].what # "sections"
    <3>1. ASSUME NEW j \in Slot, request[j].what = "sections" PROVE request'[j] = request[j]
      BY <1>1, <1>2, <2>2, <3>1 DEF RequestsOK
    <3> QED  BY <1>2, <2>2, <3>1 DEF Fresh, SectionsRefreshed, InFlight
  <2>3. CASE NoSection \notin overtaken' /\ sections' = request[i].data
             /\ request[i].status = "ok" /\ request[i].what \in {"load", "sections"}
    BY <1>2, <2>3 DEF Fresh, AnswersFresh, SectionsRefreshed
  <2> QED
    BY <2>1, <2>2, <2>3
    DEF Deliver, LoadSucceeded, LoadFailed, PrefetchDone, SectionsDone, Receive
<1> QED  BY <1>4, <1>5, <1>6 DEF Fresh

LEMMA StepFresh == TypeOK /\ Fresh /\ [Next]_vars => Fresh'
<1> SUFFICES ASSUME TypeOK, Fresh, [Next]_vars PROVE Fresh'
  OBVIOUS
<1>1. RequestsOK
  BY DEF TypeOK
<1>2. CASE UNCHANGED <<content, sections, request, handled, overtaken>>
  BY <1>2 DEF Fresh, AnswersFresh, StaleOnlyIfOvertaken, SectionsRefreshed, InFlight
<1>3. CASE AppEvent
  BY <1>2, <1>3, HandlingFresh DEF AppEvent, store
<1>4. CASE Retry
  BY <1>4, LoadIsCalm, LoadFlies, CalmFresh DEF Retry
<1>5. CASE RefreshSection
  BY <1>5, LoadIsCalm, LoadFlies, CalmFresh DEF RefreshSection
<1>6. ASSUME NEW s \in Section, Navigate(s) PROVE Fresh'
  BY <1>6, LoadIsCalm, LoadFlies, CalmFresh DEF Navigate
<1>7. ASSUME NEW s \in Section, Prefetch(s) PROVE Fresh'
  BY <1>1, <1>7, SendIsCalm, SendFlies, CalmFresh DEF Prefetch, store
<1>8. ASSUME NEW s \in Section, ClearSectionContent(s) PROVE Fresh'
  <2>1. Calm /\ Flying
    BY <1>8 DEF ClearSectionContent, Calm, Flying
  <2> QED  BY <1>8, <2>1, CalmFresh DEF ClearSectionContent, TypeOK
<1>9. ASSUME NEW i \in Slot, Answer(i) \/ Deliver(i) PROVE Fresh'
  BY <1>9, AnswerFresh, DeliverFresh
<1>10. CASE AppChange \/ Leave \/ UNCHANGED vars
  BY <1>2, <1>10 DEF AppChange, Leave, store, vars
<1> QED
  BY <1>3, <1>4, <1>5, <1>6, <1>7, <1>8, <1>9, <1>10 DEF Next

LEMMA AlwaysFresh == Spec => []Fresh
<1>1. Init => Fresh
  BY DEF Init, Fresh, AnswersFresh, StaleOnlyIfOvertaken, SectionsRefreshed, NoRequest
<1> QED  BY <1>1, StepFresh, TypeCorrect, PTL DEF Spec

\* Whatever comes back in whatever order, content from before the last app
\* state change that was handled is cached only for sections that had a request
\* in flight when it was handled.
THEOREM StaleWasOvertaken == Spec => []StaleOnlyIfOvertaken
<1>1. Fresh => StaleOnlyIfOvertaken
  BY DEF Fresh
<1> QED  BY <1>1, AlwaysFresh, PTL

\* Every app state change refreshes the navigation, unless a request was in
\* flight when it was handled or the refresh failed.
THEOREM NavigationRefreshes == Spec => []SectionsRefreshed
<1>1. Fresh => SectionsRefreshed
  BY DEF Fresh
<1> QED  BY <1>1, AlwaysFresh, PTL

-----------------------------------------------------------------------------
(* The page over the store.                                                 *)

\* Every step of the page is one of the store, or leaves the store alone.
THEOREM PageRunsStore == PageSpec => Spec
<1>1. PageInit => Init
  BY DEF PageInit
<1>2. [PageNext]_<<vars, page>> => [Next]_vars
  BY DEF PageNext, Store, Initialize, Timeout, Loaded, ScriptFailed
<1> QED
  BY <1>1, <1>2, PTL DEF PageSpec, Spec

LoopType == [at : {"none", "timeout", "script"}, scripts : Seq(Script), live : BOOLEAN]

LEMMA LoopFields ==
  ASSUME NEW r \in LoopType
  PROVE  /\ r.at \in {"none", "timeout", "script"} /\ r.scripts \in Seq(Script) /\ r.live \in BOOLEAN
         /\ [r EXCEPT !.live = FALSE] \in LoopType /\ [r EXCEPT !.live = FALSE].at = r.at
         /\ [r EXCEPT !.live = FALSE].scripts = r.scripts /\ ~[r EXCEPT !.live = FALSE].live
         /\ \A s \in Seq(Script) :
              /\ [r EXCEPT !.scripts = s] \in LoopType /\ [r EXCEPT !.scripts = s].at = r.at
              /\ [r EXCEPT !.scripts = s].scripts = s /\ [r EXCEPT !.scripts = s].live = r.live
BY DEF LoopType

LEMMA LoopMade ==
  ASSUME NEW s \in Seq(Script), NEW b \in BOOLEAN, NEW a \in {"timeout", "script"}
  PROVE  \E r \in LoopType : /\ r = [at |-> a, scripts |-> s, live |-> b]
                             /\ r.at = a /\ r.scripts = s /\ r.live = b
<1> DEFINE r == [at |-> a, scripts |-> s, live |-> b]
<1>1. r \in LoopType /\ r.at = a /\ r.scripts = s /\ r.live = b
  BY DEF LoopType
<1> QED
  BY <1>1

LEMMA NoLoopType == NoLoop \in LoopType /\ NoLoop.at = "none" /\ ~NoLoop.live
BY DEF NoLoop, LoopType

USE PageAssumption

\* A tag that is loading is awaited by one initialization, and each awaits one.
Awaits(l, x) == loop[l].at = "script" /\ Head(loop[l].scripts) = x
FormTyped == form \in {NoForm, "loading", "ready", "error"}
LoopsTyped == /\ loop \in [Loop -> LoopType]
              /\ \A l \in Loop : loop[l].live => form # NoForm
              /\ \A l \in Loop : loop[l].at = "script" => loop[l].scripts # <<>>
TagsTyped == tag \in [Script -> {"none", "loading", "loaded", "failed"}]
Awaited == /\ \A l \in Loop, x \in Script : Awaits(l, x) => tag[x] = "loading"
           /\ \A l, m \in Loop, x \in Script : Awaits(l, x) /\ Awaits(m, x) => l = m
           /\ \A x \in Script : tag[x] = "loading" => \E l \in Loop : Awaits(l, x)
PageTypes == FormTyped /\ LoopsTyped /\ TagsTyped /\ Awaited

LEMMA HeadType ==
  ASSUME PageTypes, NEW l \in Loop, loop[l].at = "script"
  PROVE  /\ loop[l] \in LoopType /\ loop[l].scripts \in Seq(Script) /\ loop[l].scripts # <<>>
         /\ Head(loop[l].scripts) \in Script /\ Tail(loop[l].scripts) \in Seq(Script)
         /\ tag[Head(loop[l].scripts)] = "loading"
<1>1. loop[l] \in LoopType /\ loop[l].scripts \in Seq(Script) /\ loop[l].scripts # <<>>
  BY LoopFields DEF PageTypes, LoopsTyped
<1>2. Head(loop[l].scripts) \in Script /\ Tail(loop[l].scripts) \in Seq(Script)
  BY <1>1
<1>3. tag[Head(loop[l].scripts)] = "loading"
  BY <1>2 DEF PageTypes, Awaited, Awaits
<1> QED
  BY <1>1, <1>2, <1>3

LEMMA PageTypesGive == PageTypes => PageTypeOK
<1> SUFFICES ASSUME PageTypes PROVE PageTypeOK
  OBVIOUS
<1>1. ASSUME NEW l \in Loop
      PROVE  /\ loop[l].at \in {"none", "timeout", "script"} /\ loop[l].live \in BOOLEAN
             /\ loop[l].live => form # NoForm
             /\ loop[l].at = "script" => /\ loop[l].scripts # <<>>
                                         /\ tag[Head(loop[l].scripts)] = "loading"
  BY HeadType, LoopFields DEF PageTypes, LoopsTyped
<1>2. ASSUME NEW x \in Script, tag[x] = "loading"
      PROVE  Cardinality({l \in Loop : loop[l].at = "script" /\ Head(loop[l].scripts) = x}) = 1
  <2>1. PICK l \in Loop : Awaits(l, x)
    BY <1>2 DEF PageTypes, Awaited
  <2>2. {m \in Loop : loop[m].at = "script" /\ Head(loop[m].scripts) = x} = {l}
    BY <2>1 DEF PageTypes, Awaited, Awaits
  <2> QED  BY <2>2, FS_Singleton
<1> QED
  BY <1>1, <1>2 DEF PageTypes, FormTyped, TagsTyped, PageTypeOK

LoopsElsewhere(l) == \A m \in Loop : m # l => loop'[m] = loop[m]

LEMMA ConcludeEffect ==
  ASSUME FormTyped, LoopsTyped, NEW l \in Loop, NEW how \in {"ready", "error"},
         Conclude(l, how)
  PROVE  FormTyped' /\ LoopsTyped' /\ loop'[l] = NoLoop /\ LoopsElsewhere(l)
<1>1. loop' \in [Loop -> LoopType] /\ loop'[l] = NoLoop /\ LoopsElsewhere(l)
  BY NoLoopType DEF Conclude, LoopsTyped, LoopsElsewhere
<1>2. FormTyped' /\ (form = NoForm <=> form' = NoForm)
  BY DEF Conclude, FormTyped, LoopsTyped, NoForm
<1> QED
  BY <1>1, <1>2, NoLoopType DEF LoopsTyped, LoopsElsewhere

LEMMA RestOf ==
  ASSUME NEW s \in Seq(Script), NEW i \in DOMAIN s
  PROVE  \E r \in Seq(Script) : r = SubSeq(s, i, Len(s)) /\ r # <<>> /\ Head(r) = s[i]
<1>1. i \in 1..Len(s) /\ Len(s) \in Nat
  BY LenProperties
<1>2. PICK r : r = SubSeq(s, i, Len(s))
  OBVIOUS
<1>3. /\ r \in Seq(Script) /\ Len(r) = Len(s) - i + 1
      /\ \A h \in 1..Len(s)-i+1 : r[h] = s[i+h-1]
  BY <1>1, <1>2, SubSeqProperties
<1>4. r # <<>> /\ Head(r) = r[1]
  BY <1>1, <1>3, LenProperties
<1>5. Head(r) = s[i]
  BY <1>1, <1>3, <1>4
<1> QED
  BY <1>2, <1>3, <1>4, <1>5

LEMMA ProceedEffect ==
  ASSUME PageTypes, NEW l \in Loop, NEW scripts \in Seq(Script),
         NEW tags \in [Script -> {"none", "loading", "loaded", "failed"}],
         \A m \in Loop, x \in Script : m # l /\ Awaits(m, x) => tags[x] = "loading",
         \A x \in Script : tags[x] = "loading" => \E m \in Loop : m # l /\ Awaits(m, x),
         Proceed(l, scripts, tags)
  PROVE  PageTypes'
<1>1. CASE /\ \A i \in DOMAIN scripts : tags[scripts[i]] \in {"loading", "loaded", "failed"}
           /\ Conclude(l, "ready") /\ tag' = tags
  <2>1. FormTyped' /\ LoopsTyped' /\ loop'[l] = NoLoop /\ LoopsElsewhere(l)
    BY <1>1, ConcludeEffect DEF PageTypes
  <2>2. \A m \in Loop, x \in Script : Awaits(m, x)' <=> m # l /\ Awaits(m, x)
    BY <2>1, NoLoopType DEF Awaits, LoopsElsewhere
  <2>3. Awaited'
    BY <1>1, <2>2 DEF Awaited, PageTypes
  <2>4. TagsTyped'
    BY <1>1 DEF TagsTyped
  <2> QED  BY <2>1, <2>3, <2>4 DEF PageTypes
<1>2. ASSUME NEW i \in DOMAIN scripts,
             tags[scripts[i]] \notin {"loading", "loaded", "failed"},
             tag' = [tags EXCEPT ![scripts[i]] = "loading"],
             loop' = [loop EXCEPT ![l] = [at |-> "script", live |-> loop[l].live,
                                          scripts |-> SubSeq(scripts, i, Len(scripts))]],
             UNCHANGED form
      PROVE  PageTypes'
  <2>1. PICK s \in Seq(Script) : s = SubSeq(scripts, i, Len(scripts)) /\ s # <<>> /\ Head(s) = scripts[i]
    BY RestOf
  <2>2. scripts[i] \in Script /\ loop \in [Loop -> LoopType] /\ loop[l] \in LoopType
    BY DEF PageTypes, LoopsTyped
  <2>3. PICK b \in BOOLEAN : b = loop[l].live
    BY <2>2, LoopFields
  <2>4. PICK r \in LoopType : /\ r = [at |-> "script", scripts |-> s, live |-> b]
                              /\ r.at = "script" /\ r.scripts = s /\ r.live = b
    BY LoopMade
  <2>5. loop' = [loop EXCEPT ![l] = r]
    BY <1>2, <2>1, <2>3, <2>4
  <2>6. loop' \in [Loop -> LoopType] /\ loop'[l] = r /\ LoopsElsewhere(l)
    BY <2>2, <2>5 DEF LoopsElsewhere
  <2>7. FormTyped' /\ LoopsTyped'
    BY <1>2, <2>1, <2>3, <2>4, <2>6 DEF PageTypes, FormTyped, LoopsTyped, LoopsElsewhere
  <2>8. \A m \in Loop, x \in Script : Awaits(m, x)' <=> (m # l /\ Awaits(m, x)) \/ (m = l /\ x = scripts[i])
    <3>1. \A m \in Loop, x \in Script : m # l => (Awaits(m, x)' <=> Awaits(m, x))
      BY <2>6 DEF Awaits, LoopsElsewhere
    <3>2. \A x \in Script : Awaits(l, x)' <=> x = scripts[i]
      BY <2>1, <2>4, <2>6 DEF Awaits
    <3> QED  BY <3>1, <3>2
  <2>9. tags[scripts[i]] = "none" /\ TagsTyped'
    BY <1>2, <2>2 DEF TagsTyped
  <2>10. \A x \in Script : tag'[x] = IF x = scripts[i] THEN "loading" ELSE tags[x]
    BY <1>2
  <2>11. Awaited'
    BY <2>2, <2>8, <2>9, <2>10 DEF Awaited, PageTypes
  <2> QED  BY <2>7, <2>9, <2>11 DEF PageTypes
<1> QED
  BY <1>1, <1>2 DEF Proceed, LoadScripts

LEMMA TimeoutEffect ==
  ASSUME PageTypes, NEW l \in Loop, Timeout(l)
  PROVE  PageTypes'
<1>1. PICK scripts \in Seq(Script) : scripts = loop[l].scripts
  BY LoopFields DEF PageTypes, LoopsTyped
<1>2. PICK tags \in [Script -> {"none", "loading", "loaded", "failed"}] : tags = tag
  BY DEF PageTypes, TagsTyped
<1>3. loop[l].at = "timeout" /\ Proceed(l, scripts, tags)
  BY <1>1, <1>2 DEF Timeout
<1>4. \A m \in Loop, x \in Script : m # l /\ Awaits(m, x) => tags[x] = "loading"
  BY <1>2 DEF PageTypes, Awaited
<1>5. \A x \in Script : tags[x] = "loading" => \E m \in Loop : m # l /\ Awaits(m, x)
  BY <1>2, <1>3 DEF PageTypes, Awaited, Awaits
<1> QED
  BY <1>3, <1>4, <1>5, ProceedEffect

LEMMA LoadedEffect ==
  ASSUME PageTypes, NEW l \in Loop, Loaded(l)
  PROVE  PageTypes'
<1>1. loop[l].at = "script"
  BY DEF Loaded
<1>2. PICK scripts \in Seq(Script) : scripts = Tail(loop[l].scripts)
  BY <1>1, HeadType
<1>3. PICK x \in Script : x = Head(loop[l].scripts)
  BY <1>1, HeadType
<1>4. PICK tags \in [Script -> {"none", "loading", "loaded", "failed"}] : tags = [tag EXCEPT ![x] = "loaded"]
  BY DEF PageTypes, TagsTyped
<1>5. Proceed(l, scripts, tags)
  BY <1>2, <1>3, <1>4 DEF Loaded
<1>6. Awaits(l, x) /\ \A y \in Script : tags[y] = IF y = x THEN "loaded" ELSE tag[y]
  BY <1>1, <1>3, <1>4 DEF PageTypes, TagsTyped, Awaits
<1>7. \A m \in Loop, y \in Script : m # l /\ Awaits(m, y) => tags[y] = "loading"
  BY <1>6 DEF PageTypes, Awaited
<1>8. \A y \in Script : tags[y] = "loading" => \E m \in Loop : m # l /\ Awaits(m, y)
  <2> SUFFICES ASSUME NEW y \in Script, tags[y] = "loading" PROVE \E m \in Loop : m # l /\ Awaits(m, y)
    OBVIOUS
  <2>1. y # x /\ tag[y] = "loading"
    BY <1>6
  <2>2. PICK m \in Loop : Awaits(m, y)
    BY <2>1 DEF PageTypes, Awaited
  <2> QED  BY <1>3, <2>1, <2>2 DEF Awaits
<1> QED
  BY <1>5, <1>7, <1>8, ProceedEffect

LEMMA FailedEffect ==
  ASSUME PageTypes, NEW l \in Loop, ScriptFailed(l)
  PROVE  PageTypes'
<1>1. loop[l].at = "script" /\ Conclude(l, "error")
  BY DEF ScriptFailed
<1>2. PICK x \in Script : x = Head(loop[l].scripts)
  BY <1>1, HeadType
<1>3. tag' = [tag EXCEPT ![x] = "failed"]
  BY <1>2 DEF ScriptFailed
<1>4. FormTyped' /\ LoopsTyped' /\ loop'[l] = NoLoop /\ LoopsElsewhere(l)
  BY <1>1, ConcludeEffect DEF PageTypes
<1>5. \A m \in Loop, y \in Script : Awaits(m, y)' <=> m # l /\ Awaits(m, y)
  BY <1>4, NoLoopType DEF Awaits, LoopsElsewhere
<1>6. Awaits(l, x) /\ TagsTyped'
  BY <1>1, <1>2, <1>3 DEF Awaits, PageTypes, TagsTyped
<1>7. \A y \in Script : tag'[y] = IF y = x THEN "failed" ELSE tag[y]
  BY <1>3 DEF PageTypes, TagsTyped
<1>8. Awaited'
  <2>1. Awaited
    BY DEF PageTypes
  <2>2. \A m \in Loop, y \in Script : Awaits(m, y)' => tag'[y] = "loading"
    BY <1>5, <1>6, <1>7, <2>1 DEF Awaited
  <2>3. \A m, n \in Loop, y \in Script : Awaits(m, y)' /\ Awaits(n, y)' => m = n
    BY <1>5, <2>1 DEF Awaited
  <2>4. \A y \in Script : tag'[y] = "loading" => \E m \in Loop : Awaits(m, y)'
    <3> SUFFICES ASSUME NEW y \in Script, tag'[y] = "loading" PROVE \E m \in Loop : Awaits(m, y)'
      OBVIOUS
    <3>1. y # x /\ tag[y] = "loading"
      BY <1>7
    <3>2. PICK m \in Loop : Awaits(m, y)
      BY <2>1, <3>1 DEF Awaited
    <3>3. m # l
      BY <1>6, <3>1, <3>2 DEF Awaits
    <3> QED  BY <1>5, <3>2, <3>3
  <2> QED  BY <2>2, <2>3, <2>4 DEF Awaited
<1> QED
  BY <1>4, <1>6, <1>8 DEF PageTypes

LEMMA RenderEffect ==
  ASSUME PageTypes, TypeOK', Rendered
  PROVE  PageTypes'
<1>1. UNCHANGED tag /\ TagsTyped' /\ loop \in [Loop -> LoopType] /\ view' \in Key
  BY DEF Rendered, PageTypes, TagsTyped, LoopsTyped, TypeOK
<1>2. CASE Html' = NoHtml /\ form' = NoForm /\ loop' = [l \in Loop |-> [loop[l] EXCEPT !.live = FALSE]]
  <2>1. ASSUME NEW l \in Loop
        PROVE  loop'[l] \in LoopType /\ loop'[l].at = loop[l].at /\ loop'[l].scripts = loop[l].scripts /\ ~loop'[l].live
    <3>1. PICK r \in LoopType : r = loop[l]
      BY <1>1
    <3>2. loop'[l] = [r EXCEPT !.live = FALSE]
      BY <1>2, <3>1
    <3> QED  BY <3>1, <3>2, LoopFields
  <2>2. loop' \in [Loop -> LoopType]
    BY <1>2, <2>1
  <2>3. FormTyped' /\ LoopsTyped'
    BY <1>2, <2>1, <2>2 DEF FormTyped, LoopsTyped, PageTypes
  <2>4. \A l \in Loop, x \in Script : Awaits(l, x)' <=> Awaits(l, x)
    BY <2>1 DEF Awaits
  <2>5. Awaited'
    BY <1>1, <2>4 DEF Awaited, PageTypes
  <2> QED  BY <1>1, <1>2, <2>3, <2>5 DEF PageTypes
<1>3. CASE Html' # NoHtml /\ Html' = Html /\ UNCHANGED <<form, loop>>
  <2>1. FormTyped' /\ LoopsTyped' /\ Awaited'
    BY <1>1, <1>3 DEF PageTypes, FormTyped, LoopsTyped, Awaited, Awaits
  <2> QED  BY <1>1, <2>1 DEF PageTypes
<1>4. CASE Html' # NoHtml /\ form' = "loading" /\ Begin(view')
  <2>1. view' \in Section
    BY <1>1, <1>4 DEF Html, NoHtml, Key
  <2>2. PICK s \in Seq(Script) : s = Scripts[view']
    BY <2>1
  <2>3. PICK f \in Loop : f = CHOOSE g \in {l \in Loop : loop[l] = NoLoop} : TRUE
    BY <1>4 DEF Begin
  <2>4. loop[f] = NoLoop
    BY <1>4, <2>3 DEF Begin
  <2>5. PICK n \in LoopType : /\ n = [at |-> "timeout", scripts |-> s, live |-> TRUE]
                              /\ n.at = "timeout" /\ n.scripts = s /\ n.live = TRUE
    BY LoopMade
  <2>6. loop' = [l \in Loop |-> IF l = f THEN n ELSE Live(l, view')]
    BY <1>4, <2>2, <2>3, <2>5 DEF Begin
  <2>7. ASSUME NEW m \in Loop, m # f
        PROVE  /\ loop'[m] \in LoopType /\ loop'[m].at = loop[m].at /\ loop'[m].live = loop[m].live
               /\ loop[m].at = "script" => loop'[m].scripts = loop[m].scripts
    <3>1. PICK r \in LoopType : r = loop[m]
      BY <1>1
    <3>2. loop'[m] = IF r.live /\ r.at = "timeout" THEN [r EXCEPT !.scripts = s] ELSE r
      BY <2>2, <2>6, <2>7, <3>1 DEF Live
    <3>3. CASE r.live /\ r.at = "timeout"
      <4>1. PICK n2 \in LoopType : n2 = [r EXCEPT !.scripts = s] /\ n2.at = r.at /\ n2.live = r.live
        BY LoopFields
      <4> QED  BY <3>1, <3>2, <3>3, <4>1
    <3>4. CASE ~(r.live /\ r.at = "timeout")
      BY <3>1, <3>2, <3>4
    <3> QED  BY <3>3, <3>4
  <2>8. loop'[f] = n /\ loop' \in [Loop -> LoopType]
    BY <2>6, <2>7
  <2>9. FormTyped' /\ LoopsTyped'
    BY <1>1, <1>4, <2>5, <2>7, <2>8 DEF FormTyped, LoopsTyped, PageTypes, NoForm
  <2>10. \A l \in Loop, x \in Script : Awaits(l, x)' <=> Awaits(l, x)
    <3>1. \A x \in Script : ~Awaits(f, x)' /\ ~Awaits(f, x)
      BY <2>4, <2>5, <2>8, NoLoopType DEF Awaits
    <3>2. \A l \in Loop, x \in Script : l # f => (Awaits(l, x)' <=> Awaits(l, x))
      BY <2>7 DEF Awaits
    <3> QED  BY <3>1, <3>2
  <2>11. Awaited'
    BY <1>1, <2>10 DEF Awaited, PageTypes
  <2> QED  BY <1>1, <2>9, <2>11 DEF PageTypes
<1> QED
  BY <1>2, <1>3, <1>4 DEF Rendered, Render

-----------------------------------------------------------------------------
(* Theorems about the page.                                                 *)

LEMMA PageStart == PageInit => PageTypes
<1> SUFFICES ASSUME PageInit PROVE PageTypes
  OBVIOUS
<1>1. /\ tag = [x \in Script |-> "none"]
      /\ form = (IF view = NoSection THEN NoForm ELSE "loading") /\ view \in Key
  BY DEF PageInit, Init
<1>2. PICK f : f = CHOOSE g \in Loop : TRUE
  OBVIOUS
<1>3. /\ loop \in [Loop -> LoopType]
      /\ \A l \in Loop : /\ loop[l].at \in {"none", "timeout"} /\ (loop[l].live => view # NoSection)
                         /\ loop[l].at = "timeout" => /\ l = f /\ view # NoSection /\ loop[l].live
                                                      /\ loop[l].scripts = Scripts[view]
  <2>1. CASE view = NoSection
    <3>1. loop = [l \in Loop |-> NoLoop]
      BY <2>1 DEF PageInit
    <3> QED  BY <3>1, NoLoopType
  <2>2. CASE view # NoSection
    <3>1. PICK s \in Seq(Script) : s = Scripts[view]
      BY <1>1, <2>2 DEF Key
    <3>2. PICK n \in LoopType : /\ n = [at |-> "timeout", scripts |-> s, live |-> TRUE]
                                /\ n.at = "timeout" /\ n.scripts = s /\ n.live = TRUE
      BY LoopMade
    <3>3. loop = [l \in Loop |-> IF l = f THEN n ELSE NoLoop]
      BY <1>2, <2>2, <3>1, <3>2 DEF PageInit
    <3> QED  BY <2>2, <3>1, <3>2, <3>3, NoLoopType
  <2> QED  BY <2>1, <2>2
<1>4. FormTyped /\ LoopsTyped /\ TagsTyped
  BY <1>1, <1>3 DEF FormTyped, LoopsTyped, TagsTyped, NoForm
<1>5. Awaited
  BY <1>1, <1>3 DEF Awaited, Awaits
<1> QED
  BY <1>4, <1>5 DEF PageTypes

LEMMA PageStep == PageTypes /\ TypeOK' /\ [PageNext]_<<vars, page>> => PageTypes'
<1> SUFFICES ASSUME PageTypes, TypeOK', [PageNext]_<<vars, page>> PROVE PageTypes'
  OBVIOUS
<1>1. CASE Store
  BY <1>1, RenderEffect DEF Store
<1>2. ASSUME NEW l \in Loop, Initialize(l) PROVE PageTypes'
  BY <1>2, TimeoutEffect, LoadedEffect, FailedEffect DEF Initialize
<1>3. CASE UNCHANGED <<vars, page>>
  <2>1. UNCHANGED <<form, tag, loop, view>>
    BY <1>3 DEF vars, page
  <2> QED  BY <2>1 DEF PageTypes, FormTyped, LoopsTyped, TagsTyped, Awaited, Awaits
<1> QED
  BY <1>1, <1>2, <1>3 DEF PageNext

LEMMA PageInvariance == PageSpec => []PageTypes
<1>1. PageSpec => []TypeOK
  BY PageRunsStore, TypeCorrect, PTL
<1> QED
  BY <1>1, PageStart, PageStep, PTL DEF PageSpec

\* Types hold of the page: a script tag that is loading is awaited by exactly
\* one initialization, and only a mounted form has live ones, however many
\* changes of the HTML start another.
THEOREM PageTypeCorrect == PageSpec => []PageTypeOK
BY PageInvariance, PageTypesGive, PTL

-----------------------------------------------------------------------------
(* The declarative forms: what they show.                                  *)

USE FormsAssumption

\* A form is broken only if it has a structured field in the section.
BrokenHasReason == \A x \in broken : \E g \in fields : FormOf[g] = x /\ Structured(g)

\* What a form that is not broken shows of the field f.
Displays(f) ==
  /\ f \notin Sensitive => cache[f].value # Mask /\ shown[f] # Mask
  /\ Kind[f] \in {"checkbox", "multi-checkbox"} => chosen[f] \in {Nothing, cache[f].value}
  /\ mounted /\ f \in fields /\ FormOf[f] \notin broken =>
       /\ shown[f] # Nothing
       /\ Kind[f] \in {"checkbox", "multi-checkbox"} => shown[f] = cache[f].value

Display == FormsTypeOK /\ BrokenHasReason /\ \A f \in Field : Displays(f)

-----------------------------------------------------------------------------
(* The declarative forms: what is on its way to the server.                *)

\* What may be stored of f: the last value the user gave, or the mask.
Fits(f, x) == chosen[f] \in {Nothing, x} \/ (f \in Sensitive /\ x = Mask)

Undecided(f) == timer.field = f \/ \E c \in confirming : c.field = f

\* A field that has not raced has one request in flight.
OnePost(f) == f \notin raced =>
  \A i, j \in SaveSlot : post[i].field = f /\ post[j].field = f => i = j

\* The password dialog is about the last value.
AskedFor(f) == f \notin dropped => \A c \in confirming : c.field = f => Fits(f, c.value)

\* When no timer and no dialog is to come, the request in flight has the last
\* value, and without one it is stored.
Settles(f) == f \notin dropped \cup raced \cup failed /\ ~Undecided(f) =>
  \/ \E i \in SaveSlot : post[i].field = f /\ Fits(f, post[i].value)
  \/ Fits(f, saved[f]) /\ \A i \in SaveSlot : post[i].field # f

Traced(f) == OnePost(f) /\ AskedFor(f) /\ Settles(f)

FormsInv == Display /\ \A f \in Field : Traced(f)

-----------------------------------------------------------------------------
(* Records.                                                                *)

PostType == [field : Field, value : Content]

LEMMA RecordFacts ==
  /\ NoPost \notin PostType /\ NoPost.field = Nothing /\ NoTimer.field = Nothing
  /\ Nothing \notin Field /\ Nothing \notin Content
  BY DEF NoPost, NoTimer, PostType, Content

\* A request is put into a free slot.
Posted(f, v) ==
  /\ post' \in [SaveSlot -> PostType \cup {NoPost}]
  /\ \E i \in SaveSlot :
       /\ post[i] = NoPost /\ post'[i].field = f /\ post'[i].value = v
       /\ \A j \in SaveSlot \ {i} : post'[j] = post[j]
  /\ f \notin raced' => \A j \in SaveSlot : post[j].field # f
  /\ \A g \in Field \ {f} : (g \in raced' <=> g \in raced) /\ (g \in failed' <=> g \in failed)
  /\ raced' \in SUBSET Field /\ failed' \in SUBSET Field /\ reported' \in SUBSET Field

LEMMA PostFacts ==
  ASSUME FormsTypeOK, NEW f \in Field, NEW v \in Content, Post(f, v)
  PROVE  Posted(f, v)
<1>1. PICK i \in SaveSlot :
        /\ post[i] = NoPost
        /\ post' = [post EXCEPT ![i] = [field |-> f, value |-> v]]
        /\ raced' = IF Posting(f) = {} THEN raced \ {f} ELSE raced \cup {f}
        /\ failed' = failed \ {f} /\ reported' = reported \ {f}
  BY DEF Post
<1>2. PICK new \in PostType : new = [field |-> f, value |-> v] /\ new.field = f /\ new.value = v
  <2>1. [field |-> f, value |-> v] \in PostType
    BY DEF PostType
  <2> QED  BY <2>1
<1>3. post \in [SaveSlot -> PostType \cup {NoPost}] /\ post' = [post EXCEPT ![i] = new]
  BY <1>1, <1>2 DEF FormsTypeOK, PostType
<1>4. /\ post' \in [SaveSlot -> PostType \cup {NoPost}] /\ post'[i] = new
      /\ \A j \in SaveSlot \ {i} : post'[j] = post[j]
  BY <1>3
<1>5. f \notin raced' => \A j \in SaveSlot : post[j].field # f
  BY <1>1 DEF Posting
<1>6. /\ \A g \in Field \ {f} : (g \in raced' <=> g \in raced) /\ (g \in failed' <=> g \in failed)
      /\ raced' \in SUBSET Field /\ failed' \in SUBSET Field /\ reported' \in SUBSET Field
  BY <1>1 DEF FormsTypeOK
<1> QED
  BY <1>1, <1>2, <1>4, <1>5, <1>6 DEF Posted

\* What a new request does to the fields: those that are not its own keep
\* theirs, and its own field has this request only, or has raced.
LEMMA PostedTraces ==
  ASSUME FormsInv, NEW f \in Field, NEW v \in Content, Posted(f, v), saved' = saved,
         \A c \in confirming' : c \in confirming,
         \A g \in Field \ {f} : /\ chosen'[g] = chosen[g]
                                /\ g \in dropped => g \in dropped'
                                /\ Undecided(g) => Undecided(g)',
         f \notin dropped' => /\ Fits(f, v)'
                              /\ confirming = {} \/ (f \notin dropped /\ chosen'[f] = chosen[f])
  PROVE  \A g \in Field : Traced(g)'
<1>1. PICK i \in SaveSlot :
        /\ post[i] = NoPost /\ post'[i].field = f /\ post'[i].value = v
        /\ \A j \in SaveSlot \ {i} : post'[j] = post[j]
  BY DEF Posted
<1>2. post[i].field \notin Field
  BY <1>1, RecordFacts
<1>3. Traced(f)'
  <2>1. OnePost(f)'
    BY <1>1 DEF OnePost, Posted
  <2>2. AskedFor(f)'
    BY DEF AskedFor, FormsInv, Traced, Fits
  <2>3. Settles(f)'
    BY <1>1 DEF Settles
  <2> QED  BY <2>1, <2>2, <2>3 DEF Traced
<1>4. ASSUME NEW g \in Field, g # f PROVE Traced(g)'
  <2>1. /\ g \in raced' <=> g \in raced
        /\ g \in failed' <=> g \in failed
        /\ chosen'[g] = chosen[g]
        /\ g \in dropped => g \in dropped'
        /\ Undecided(g) => Undecided(g)'
    BY <1>4 DEF Posted
  <2>2. \A j \in SaveSlot : post'[j].field = g => post'[j] = post[j]
    BY <1>1, <1>4
  <2>3. \A j \in SaveSlot : post[j].field = g => post'[j] = post[j]
    BY <1>1, <1>2
  <2>4. \A x : Fits(g, x)' <=> Fits(g, x)
    BY <2>1 DEF Fits
  <2>5. Traced(g)
    BY DEF FormsInv
  <2>6. OnePost(g)'
    BY <2>1, <2>2, <2>5 DEF OnePost, Traced
  <2>7. AskedFor(g)'
    BY <2>1, <2>4, <2>5 DEF AskedFor, Traced
  <2>8. Settles(g)'
    BY <2>1, <2>2, <2>3, <2>4, <2>5 DEF Settles, Traced
  <2> QED  BY <2>6, <2>7, <2>8 DEF Traced
<1> QED
  BY <1>3, <1>4

\* A dialog about v is opened for f, nothing is sent.
LEMMA AskedTraces ==
  ASSUME FormsInv, NEW f \in Field, NEW v \in Content, saved' = saved, post' = post,
         raced' = raced, failed' = failed,
         confirming' = confirming \cup {[field |-> f, value |-> v]},
         \A g \in Field \ {f} : /\ chosen'[g] = chosen[g]
                                /\ g \in dropped => g \in dropped'
                                /\ Undecided(g) => Undecided(g)',
         f \notin dropped' => /\ Fits(f, v)'
                              /\ confirming = {} \/ (f \notin dropped /\ chosen'[f] = chosen[f])
  PROVE  \A g \in Field : Traced(g)'
<1>1. Traced(f)'
  <2>1. OnePost(f)'
    BY DEF OnePost, FormsInv, Traced
  <2>2. AskedFor(f)'
    BY DEF AskedFor, FormsInv, Traced, Fits
  <2>3. Undecided(f)'
    <3>1. [field |-> f, value |-> v] \in confirming' /\ [field |-> f, value |-> v].field = f
      OBVIOUS
    <3> QED  BY <3>1 DEF Undecided
  <2> QED  BY <2>1, <2>2, <2>3 DEF Traced, Settles
<1>2. ASSUME NEW g \in Field, g # f PROVE Traced(g)'
  <2>1. Traced(g)
    BY DEF FormsInv
  <2>2. OnePost(g)'
    BY <2>1 DEF OnePost, Traced
  <2>3. AskedFor(g)'
    BY <1>2, <2>1 DEF AskedFor, Traced, Fits
  <2>4. Settles(g)'
    BY <1>2, <2>1 DEF Settles, Traced, Fits
  <2> QED  BY <2>2, <2>3, <2>4 DEF Traced
<1> QED
  BY <1>1, <1>2

\* updateDeclarativeSettingsValue, called with a value that the field may have.
LEMMA UpdateTraces ==
  ASSUME FormsInv, NEW f \in Field, NEW v \in Content, UpdateValue(f, v), saved' = saved,
         \A g \in Field \ {f} : /\ chosen'[g] = chosen[g]
                                /\ g \in dropped => g \in dropped'
                                /\ timer.field = g => timer'.field = g,
         f \notin dropped' => /\ Fits(f, v)'
                              /\ confirming = {} \/ (f \notin dropped /\ chosen'[f] = chosen[f])
  PROVE  /\ \A g \in Field : Traced(g)'
         /\ confirming' \in SUBSET [field : Sensitive, value : Content]
         /\ post' \in [SaveSlot -> PostType \cup {NoPost}]
         /\ raced' \in SUBSET Field /\ failed' \in SUBSET Field /\ reported' \in SUBSET Field
<1>0. FormsTypeOK /\ PostType = [field : Field, value : Content]
  BY DEF FormsInv, Display, PostType
<1>1. CASE f \notin Sensitive /\ Post(f, v) /\ UNCHANGED confirming
  <2>1. Posted(f, v)
    BY <1>0, <1>1, PostFacts
  <2>2. \A g \in Field \ {f} : Undecided(g) => Undecided(g)'
    BY <1>1 DEF Undecided
  <2>3. \A g \in Field : Traced(g)'
    BY <1>1, <2>1, <2>2, PostedTraces
  <2> QED  BY <1>0, <1>1, <2>1, <2>3 DEF Posted, FormsTypeOK
<1>2. CASE /\ f \in Sensitive
           /\ confirming' = confirming \cup {[field |-> f, value |-> v]}
           /\ UNCHANGED <<post, raced, failed, reported>>
  <2>1. \A g \in Field \ {f} : Undecided(g) => Undecided(g)'
    BY <1>2 DEF Undecided
  <2>2. \A g \in Field : Traced(g)'
    BY <1>2, <2>1, AskedTraces
  <2>3. [field |-> f, value |-> v] \in [field : Sensitive, value : Content]
    BY <1>2
  <2> QED  BY <1>0, <1>2, <2>2, <2>3 DEF FormsTypeOK
<1> QED
  BY <1>1, <1>2 DEF UpdateValue

-----------------------------------------------------------------------------
(* The declarative forms: every step keeps the invariant.                  *)

\* What the steps that show nothing new leave alone.
LEMMA SameDisplay ==
  ASSUME Display, FormsTypeOK', UNCHANGED <<fields, cache, mounted, broken, shown>>,
         \A f \in Field : Kind[f] = "text" \/ chosen'[f] = chosen[f]
  PROVE  Display'
<1>1. BrokenHasReason'
  BY DEF Display, BrokenHasReason, Structured
<1>2. ASSUME NEW f \in Field PROVE Displays(f)'
  BY DEF Display, Displays
<1> QED
  BY <1>1, <1>2 DEF Display

\* Traces of a step that sends nothing and answers nothing.
LEMMA SameTraces ==
  ASSUME FormsInv, UNCHANGED <<saved, post, chosen, raced, dropped, failed, confirming>>,
         timer'.field = timer.field
  PROVE  \A f \in Field : Traced(f)'
<1>1. ASSUME NEW f \in Field PROVE Traced(f)'
  BY DEF FormsInv, Traced, OnePost, AskedFor, Settles, Undecided, Fits
<1> QED
  BY <1>1

LEMMA MountKeeps == FormsInv /\ Mount /\ UNCHANGED fields => FormsInv'
<1> SUFFICES ASSUME FormsInv, Mount, UNCHANGED fields PROVE FormsInv'
  OBVIOUS
<1> DEFINE throws == {FormOf[f] : f \in {g \in fields : Structured(g) /\ cache[g].decoded}}
<1>1. /\ broken' = throws /\ mounted' = TRUE
      /\ cache' = [f \in Field |-> [cache[f] EXCEPT !.decoded = @ \/ (f \in fields /\ Structured(f))]]
      /\ shown' = [f \in Field |-> IF f \in fields /\ FormOf[f] \notin throws
                                   THEN cache[f].value ELSE Nothing]
      /\ UNCHANGED <<saved, timer, confirming, post, history>>
  BY DEF Mount
<1>2. fields \subseteq Field /\ FormsTypeOK /\ BrokenHasReason
  BY DEF FormsInv, Display, FormsTypeOK
<1>3. ASSUME NEW f \in Field
      PROVE  /\ cache'[f] \in [value : Content, decoded : BOOLEAN]
             /\ cache'[f].value = cache[f].value
             /\ shown'[f] \in {cache[f].value, Nothing}
             /\ f \in fields /\ FormOf[f] \notin broken' => shown'[f] = cache[f].value
             /\ cache[f].value \in Content
  <2>1. PICK old \in [value : Content, decoded : BOOLEAN] : cache[f] = old
    BY <1>2 DEF FormsTypeOK
  <2>2. cache'[f] = [old EXCEPT !.decoded = old.decoded \/ (f \in fields /\ Structured(f))]
    BY <1>1, <2>1
  <2>3. (old.decoded \/ (f \in fields /\ Structured(f))) \in BOOLEAN
    OBVIOUS
  <2>4. cache'[f] \in [value : Content, decoded : BOOLEAN] /\ cache'[f].value = old.value
    BY <2>2, <2>3
  <2> QED  BY <1>1, <2>1, <2>4
<1>4. BrokenHasReason'
  BY <1>1 DEF BrokenHasReason, Structured
<1>5. ASSUME NEW f \in Field PROVE Displays(f)'
  <2>1. Displays(f) /\ chosen' = chosen /\ fields' = fields
    BY <1>1 DEF FormsInv, Display, history
  <2>2. Nothing # Mask /\ cache[f].value # Nothing
    BY <1>3, RecordFacts DEF Content
  <2> QED  BY <1>3, <2>1, <2>2 DEF Displays
<1>6. FormsTypeOK'
  <2>1. cache' \in [Field -> [value : Content, decoded : BOOLEAN]]
    BY <1>1, <1>3
  <2>2. shown' \in [Field -> Content \cup {Nothing}]
    BY <1>1, <1>3
  <2>3. broken' \in SUBSET Form
    BY <1>1, <1>2
  <2> QED  BY <1>1, <1>2, <2>1, <2>2, <2>3 DEF FormsTypeOK, history
<1>7. \A f \in Field : Traced(f)'
  BY <1>1, SameTraces DEF history
<1> QED
  BY <1>4, <1>5, <1>6, <1>7 DEF FormsInv, Display

LEMMA UnmountKeeps == FormsInv /\ Unmount /\ UNCHANGED fields => FormsInv'
<1> SUFFICES ASSUME FormsInv, Unmount, UNCHANGED fields PROVE FormsInv'
  OBVIOUS
<1>1. /\ mounted' = FALSE /\ broken' = {} /\ shown' = [f \in Field |-> Nothing]
      /\ timer' = IF timer = NoTimer THEN timer ELSE [timer EXCEPT !.old = TRUE]
      /\ UNCHANGED <<saved, cache, confirming, post, history>>
  BY DEF Unmount
<1>2. FormsTypeOK
  BY DEF FormsInv, Display
<1> DEFINE Pending == [field : {f \in Field : Kind[f] = "text"}, value : Content, old : BOOLEAN]
<1>3. timer' \in Pending \cup {NoTimer} /\ timer'.field = timer.field
  <2>1. CASE timer = NoTimer
    BY <1>1, <2>1
  <2>2. CASE timer # NoTimer
    <3>1. PICK t \in Pending : timer = t
      BY <1>2, <2>2 DEF FormsTypeOK
    <3> QED  BY <1>1, <2>2, <3>1
  <2> QED  BY <2>1, <2>2
<1>4. FormsTypeOK'
  BY <1>1, <1>2, <1>3 DEF FormsTypeOK, history
<1>5. BrokenHasReason'
  BY <1>1 DEF BrokenHasReason
<1>6. ASSUME NEW f \in Field PROVE Displays(f)'
  <2>1. Displays(f) /\ chosen' = chosen /\ cache' = cache /\ Nothing # Mask
    BY <1>1, RecordFacts DEF FormsInv, Display, history, Content
  <2> QED  BY <1>1, <2>1 DEF Displays
<1>7. \A f \in Field : Traced(f)'
  BY <1>1, <1>3, SameTraces DEF history
<1> QED
  BY <1>4, <1>5, <1>6, <1>7 DEF FormsInv, Display

LEMMA ConfirmKeeps == FormsInv /\ Confirm /\ UNCHANGED fields => FormsInv'
<1> SUFFICES ASSUME FormsInv, Confirm, UNCHANGED fields PROVE FormsInv'
  OBVIOUS
<1>1. PICK c \in confirming :
        /\ confirming' = confirming \ {c} /\ Post(c.field, c.value)
        /\ UNCHANGED <<saved, cache, mounted, broken, shown, timer, chosen, dropped>>
  BY DEF Confirm
<1>2. FormsTypeOK /\ c \in [field : Sensitive, value : Content] /\ Sensitive \subseteq Field
  BY DEF FormsInv, Display, FormsTypeOK
<1>3. PICK f \in Field, v \in Content : c.field = f /\ c.value = v
  BY <1>2
<1>4. Posted(f, v)
  BY <1>1, <1>2, <1>3, PostFacts
<1>5. \A g \in Field \ {f} : Undecided(g) => Undecided(g)'
  BY <1>1, <1>3 DEF Undecided
<1>6. f \notin dropped => Fits(f, v)'
  <2>1. AskedFor(f)
    BY DEF FormsInv, Traced
  <2> QED  BY <1>1, <1>3, <2>1 DEF AskedFor, Fits
<1>7. \A g \in Field : Traced(g)'
  BY <1>1, <1>4, <1>5, <1>6, PostedTraces
<1>8. FormsTypeOK'
  BY <1>1, <1>2, <1>4 DEF FormsTypeOK, Posted, PostType
<1>9. Display'
  BY <1>1, <1>8, SameDisplay DEF FormsInv
<1> QED
  BY <1>7, <1>9 DEF FormsInv

LEMMA CancelKeeps == FormsInv /\ Cancel /\ UNCHANGED fields => FormsInv'
<1> SUFFICES ASSUME FormsInv, Cancel, UNCHANGED fields PROVE FormsInv'
  OBVIOUS
<1>1. PICK c \in confirming :
        /\ confirming' = confirming \ {c}
        /\ failed' = failed \cup {c.field} /\ reported' = reported \cup {c.field}
        /\ UNCHANGED <<saved, cache, mounted, broken, shown, timer, post, chosen, dropped, raced>>
  BY DEF Cancel
<1>2. FormsTypeOK /\ c \in [field : Sensitive, value : Content] /\ Sensitive \subseteq Field
  BY DEF FormsInv, Display, FormsTypeOK
<1>3. ASSUME NEW g \in Field PROVE Traced(g)'
  <2>1. Traced(g)
    BY DEF FormsInv
  <2>2. OnePost(g)' /\ AskedFor(g)'
    BY <1>1, <2>1 DEF Traced, OnePost, AskedFor, Fits
  <2>3. g \notin failed' => (Undecided(g) => Undecided(g)') /\ g \notin failed
    BY <1>1 DEF Undecided
  <2>4. Settles(g)'
    BY <1>1, <2>1, <2>3 DEF Traced, Settles, Fits
  <2> QED  BY <2>2, <2>4 DEF Traced
<1>4. FormsTypeOK'
  BY <1>1, <1>2 DEF FormsTypeOK
<1>5. Display'
  BY <1>1, <1>4, SameDisplay DEF FormsInv
<1> QED
  BY <1>3, <1>5 DEF FormsInv

LEMMA SavedKeeps ==
  ASSUME FormsInv, NEW i \in SaveSlot, Saved(i), UNCHANGED fields PROVE FormsInv'
<1>1. /\ post[i] # NoPost /\ saved' = [saved EXCEPT ![post[i].field] = post[i].value]
      /\ post' = [post EXCEPT ![i] = NoPost]
      /\ UNCHANGED <<cache, mounted, broken, shown, timer, confirming, history>>
  BY DEF Saved
<1>2. FormsTypeOK /\ post[i] \in [field : Field, value : Content]
  BY <1>1 DEF FormsInv, Display, FormsTypeOK
<1>3. PICK f \in Field, v \in Content : post[i].field = f /\ post[i].value = v
  BY <1>2
<1>4. /\ saved' \in [Field -> Content] /\ saved'[f] = v
      /\ \A g \in Field \ {f} : saved'[g] = saved[g]
  BY <1>1, <1>2, <1>3 DEF FormsTypeOK
<1>5. /\ post' \in [SaveSlot -> [field : Field, value : Content] \cup {NoPost}]
      /\ post'[i].field = Nothing /\ \A j \in SaveSlot \ {i} : post'[j] = post[j]
  BY <1>1, <1>2, RecordFacts DEF FormsTypeOK
<1>6. ASSUME NEW g \in Field PROVE Traced(g)'
  <2>1. Traced(g) /\ g # Nothing
    BY RecordFacts DEF FormsInv
  <2>2. /\ chosen' = chosen /\ raced' = raced /\ failed' = failed /\ dropped' = dropped
        /\ confirming' = confirming /\ timer' = timer
    BY <1>1 DEF history
  <2>3. OnePost(g)'
    BY <1>5, <2>1, <2>2 DEF Traced, OnePost
  <2>4. AskedFor(g)'
    BY <2>1, <2>2 DEF Traced, AskedFor, Fits
  <2>5. Settles(g)'
    <3>1. CASE g = f
      <4>1. g \notin raced => \A j \in SaveSlot : post[j].field = g => j = i
        BY <1>3, <2>1, <3>1 DEF Traced, OnePost
      <4>2. g \notin raced => \A j \in SaveSlot : post'[j].field # g
        BY <1>5, <2>1, <4>1
      <4> QED  BY <1>3, <1>4, <2>1, <2>2, <3>1, <4>1, <4>2 DEF Traced, Settles, Undecided, Fits
    <3>2. CASE g # f
      BY <1>3, <1>4, <1>5, <2>1, <2>2, <3>2 DEF Traced, Settles, Undecided, Fits
    <3> QED  BY <3>1, <3>2
  <2> QED  BY <2>3, <2>4, <2>5 DEF Traced
<1>7. FormsTypeOK'
  BY <1>1, <1>2, <1>4, <1>5 DEF FormsTypeOK, history
<1>8. Display'
  BY <1>1, <1>7, SameDisplay DEF FormsInv, history
<1> QED
  BY <1>6, <1>8 DEF FormsInv

LEMMA SaveFailedKeeps ==
  ASSUME FormsInv, NEW i \in SaveSlot, SaveFailed(i), UNCHANGED fields PROVE FormsInv'
<1>1. /\ post[i] # NoPost /\ failed' = failed \cup {post[i].field}
      /\ post' = [post EXCEPT ![i] = NoPost]
      /\ UNCHANGED <<saved, cache, mounted, broken, shown, timer, confirming, chosen,
                     dropped, raced, reported>>
  BY DEF SaveFailed
<1>2. FormsTypeOK /\ post[i] \in [field : Field, value : Content]
  BY <1>1 DEF FormsInv, Display, FormsTypeOK
<1>3. /\ post' \in [SaveSlot -> [field : Field, value : Content] \cup {NoPost}]
      /\ post'[i].field = Nothing /\ \A j \in SaveSlot \ {i} : post'[j] = post[j]
  BY <1>1, <1>2, RecordFacts DEF FormsTypeOK
<1>4. ASSUME NEW g \in Field PROVE Traced(g)'
  <2>1. Traced(g) /\ g # Nothing
    BY RecordFacts DEF FormsInv
  <2>2. OnePost(g)' /\ AskedFor(g)'
    BY <1>1, <1>3, <2>1 DEF Traced, OnePost, AskedFor, Fits
  <2>3. Settles(g)'
    BY <1>1, <1>3, <2>1 DEF Traced, Settles, Undecided, Fits
  <2> QED  BY <2>2, <2>3 DEF Traced
<1>5. FormsTypeOK'
  BY <1>1, <1>2, <1>3 DEF FormsTypeOK
<1>6. Display'
  BY <1>1, <1>5, SameDisplay DEF FormsInv
<1> QED
  BY <1>4, <1>6 DEF FormsInv

LEMMA TimerFiresKeeps == FormsInv /\ TimerFires /\ UNCHANGED fields => FormsInv'
<1> SUFFICES ASSUME FormsInv, TimerFires, UNCHANGED fields PROVE FormsInv'
  OBVIOUS
<1>1. FormsTypeOK /\ timer # NoTimer
  BY DEF FormsInv, Display, TimerFires
<1>2. PICK f \in Field, v \in Content : timer.field = f /\ timer.value = v
  BY <1>1 DEF FormsTypeOK
<1>3. /\ timer' = NoTimer /\ UpdateValue(f, v)
      /\ dropped' = IF v = chosen[f] THEN dropped ELSE dropped \cup {f}
      /\ UNCHANGED <<saved, cache, mounted, broken, shown, chosen>>
  BY <1>2 DEF TimerFires
<1>4. f \notin dropped' => f \notin dropped /\ Fits(f, v)'
  BY <1>3 DEF Fits
<1>5. \A g \in Field \ {f} : timer.field # g /\ (g \in dropped => g \in dropped')
  BY <1>2, <1>3
<1>6. /\ \A g \in Field : Traced(g)'
      /\ confirming' \in SUBSET [field : Sensitive, value : Content]
      /\ post' \in [SaveSlot -> PostType \cup {NoPost}]
      /\ raced' \in SUBSET Field /\ failed' \in SUBSET Field /\ reported' \in SUBSET Field
  BY <1>3, <1>4, <1>5, UpdateTraces
<1>7. FormsTypeOK'
  BY <1>1, <1>3, <1>6 DEF FormsTypeOK, PostType
<1>8. Display'
  BY <1>3, <1>7, SameDisplay DEF FormsInv
<1> QED
  BY <1>6, <1>8 DEF FormsInv

LEMMA SubmitKeeps ==
  ASSUME FormsInv, NEW f \in Field, Submit(f), UNCHANGED fields PROVE FormsInv'
<1>1. /\ Usable(f) /\ Kind[f] = "text" /\ UpdateValue(f, shown[f])
      /\ chosen' = IF shown[f] = Mask THEN chosen ELSE [chosen EXCEPT ![f] = shown[f]]
      /\ dropped' = dropped \ {f}
      /\ UNCHANGED <<saved, cache, mounted, broken, shown, timer>>
  BY DEF Submit
<1>2. FormsTypeOK /\ Displays(f)
  BY DEF FormsInv, Display
<1>3. PICK v \in Content : shown[f] = v /\ (f \notin Sensitive => v # Mask)
  BY <1>1, <1>2 DEF FormsTypeOK, Displays, Usable
<1>4. /\ chosen' \in [Field -> Value \cup {Nothing}] /\ (v # Mask => chosen'[f] = v)
      /\ \A g \in Field \ {f} : chosen'[g] = chosen[g]
  BY <1>1, <1>2, <1>3 DEF FormsTypeOK, Content
<1>5. Fits(f, v)'
  BY <1>3, <1>4 DEF Fits
<1>6. confirming = {} /\ \A g \in Field \ {f} : g \in dropped => g \in dropped'
  BY <1>1 DEF Usable
<1>7. /\ \A g \in Field : Traced(g)'
      /\ confirming' \in SUBSET [field : Sensitive, value : Content]
      /\ post' \in [SaveSlot -> PostType \cup {NoPost}]
      /\ raced' \in SUBSET Field /\ failed' \in SUBSET Field /\ reported' \in SUBSET Field
  BY <1>1, <1>3, <1>4, <1>5, <1>6, UpdateTraces
<1>8. FormsTypeOK'
  BY <1>1, <1>2, <1>4, <1>7 DEF FormsTypeOK, PostType
<1>9. Display'
  BY <1>1, <1>4, <1>8, SameDisplay DEF FormsInv
<1> QED
  BY <1>7, <1>9 DEF FormsInv

LEMMA TypeKeeps ==
  ASSUME FormsInv, NEW f \in Field, NEW v \in Value, Type(f, v), UNCHANGED fields
  PROVE  FormsInv'
<1>1. /\ Usable(f) /\ Kind[f] = "text" /\ Debounce(f, v)
      /\ shown' = [shown EXCEPT ![f] = v] /\ chosen' = [chosen EXCEPT ![f] = v]
      /\ UNCHANGED <<saved, cache, mounted, broken, confirming, post, raced, failed, reported>>
  BY DEF Type
<1>2. FormsTypeOK /\ v \in Content /\ v # Mask /\ v # Nothing
  BY DEF FormsInv, Display, Content
<1>3. /\ shown' \in [Field -> Content \cup {Nothing}] /\ shown'[f] = v
      /\ chosen' \in [Field -> Value \cup {Nothing}]
      /\ \A g \in Field \ {f} : shown'[g] = shown[g] /\ chosen'[g] = chosen[g]
  BY <1>1, <1>2 DEF FormsTypeOK
<1>4. /\ dropped' \in SUBSET Field
      /\ f \in dropped' \/ timer'.field = f
      /\ \A g \in Field \ {f} : /\ g \in dropped => g \in dropped'
                                /\ g \in dropped' \/ (timer.field = g <=> timer'.field = g)
      /\ timer' \in [field : {g \in Field : Kind[g] = "text"}, value : Content,
                     old : BOOLEAN] \cup {NoTimer}
  <2>1. CASE dropped' = dropped \cup {f} /\ UNCHANGED timer
    BY <1>2, <2>1 DEF FormsTypeOK
  <2>2. CASE /\ timer' = [field |-> f, value |-> v, old |-> FALSE]
             /\ dropped' = (dropped \cup ({timer.field} \cap Field)) \ {f}
    BY <1>1, <1>2, <2>2 DEF FormsTypeOK
  <2> QED  BY <1>1, <2>1, <2>2 DEF Debounce
<1>5. ASSUME NEW g \in Field PROVE Traced(g)'
  <2>1. Traced(g) /\ confirming = {}
    BY <1>1 DEF FormsInv, Usable
  <2>2. OnePost(g)' /\ AskedFor(g)'
    BY <1>1, <2>1 DEF Traced, OnePost, AskedFor
  <2>3. Settles(g)'
    <3>1. CASE g = f
      BY <1>4, <3>1 DEF Settles, Undecided
    <3>2. CASE g # f
      BY <1>1, <1>3, <1>4, <2>1, <3>2 DEF Traced, Settles, Undecided, Fits
    <3> QED  BY <3>1, <3>2
  <2> QED  BY <2>2, <2>3 DEF Traced
<1>6. FormsTypeOK'
  BY <1>1, <1>2, <1>3, <1>4 DEF FormsTypeOK
<1>7. BrokenHasReason'
  BY <1>1 DEF FormsInv, Display, BrokenHasReason, Structured
<1>8. ASSUME NEW g \in Field PROVE Displays(g)'
  <2>1. Displays(g)
    BY DEF FormsInv, Display
  <2> QED  BY <1>1, <1>2, <1>3, <2>1 DEF Displays
<1> QED
  BY <1>5, <1>6, <1>7, <1>8 DEF FormsInv, Display

LEMMA ChooseKeeps ==
  ASSUME FormsInv, NEW f \in Field, NEW v \in Value, Choose(f, v), UNCHANGED fields
  PROVE  FormsInv'
<1>1. /\ Usable(f) /\ Kind[f] # "text" /\ UpdateValue(f, v)
      /\ shown' = [shown EXCEPT ![f] = v] /\ chosen' = [chosen EXCEPT ![f] = v]
      /\ cache' = IF Kind[f] \in {"checkbox", "multi-checkbox"}
                  THEN [cache EXCEPT ![f].value = v] ELSE cache
      /\ UNCHANGED <<saved, mounted, broken, timer, dropped>>
  BY DEF Choose
<1>2. FormsTypeOK /\ v \in Content /\ v # Mask /\ v # Nothing
  BY DEF FormsInv, Display, Content
<1>3. /\ shown' \in [Field -> Content \cup {Nothing}] /\ shown'[f] = v
      /\ chosen' \in [Field -> Value \cup {Nothing}] /\ chosen'[f] = v
      /\ \A g \in Field \ {f} : shown'[g] = shown[g] /\ chosen'[g] = chosen[g]
  BY <1>1, <1>2 DEF FormsTypeOK
<1>4. /\ cache' \in [Field -> [value : Content, decoded : BOOLEAN]]
      /\ cache'[f].value \in {v, cache[f].value}
      /\ Kind[f] \in {"checkbox", "multi-checkbox"} => cache'[f].value = v
      /\ \A g \in Field \ {f} : cache'[g] = cache[g]
  <2>1. PICK old \in [value : Content, decoded : BOOLEAN] : cache[f] = old
    BY <1>2 DEF FormsTypeOK
  <2>2. PICK new \in [value : Content, decoded : BOOLEAN] :
          new = [old EXCEPT !.value = v] /\ new.value = v
    <3>1. [old EXCEPT !.value = v] \in [value : Content, decoded : BOOLEAN]
      BY <1>2
    <3> QED  BY <3>1
  <2>3. cache' = IF Kind[f] \in {"checkbox", "multi-checkbox"}
                 THEN [cache EXCEPT ![f] = new] ELSE cache
    BY <1>1, <1>2, <2>1, <2>2 DEF FormsTypeOK
  <2> QED  BY <1>2, <2>1, <2>2, <2>3 DEF FormsTypeOK
<1>5. Fits(f, v)' /\ confirming = {}
  BY <1>1, <1>3 DEF Fits, Usable
<1>6. /\ \A g \in Field : Traced(g)'
      /\ confirming' \in SUBSET [field : Sensitive, value : Content]
      /\ post' \in [SaveSlot -> PostType \cup {NoPost}]
      /\ raced' \in SUBSET Field /\ failed' \in SUBSET Field /\ reported' \in SUBSET Field
  BY <1>1, <1>2, <1>3, <1>5, UpdateTraces
<1>7. FormsTypeOK'
  BY <1>1, <1>2, <1>3, <1>4, <1>6 DEF FormsTypeOK, PostType
<1>8. BrokenHasReason'
  BY <1>1 DEF FormsInv, Display, BrokenHasReason, Structured
<1>9. ASSUME NEW g \in Field PROVE Displays(g)'
  <2>1. Displays(g)
    BY DEF FormsInv, Display
  <2>2. CASE g = f
    BY <1>1, <1>2, <1>3, <1>4, <2>1, <2>2 DEF Displays
  <2>3. CASE g # f
    BY <1>1, <1>3, <1>4, <2>1, <2>3 DEF Displays
  <2> QED  BY <2>2, <2>3
<1> QED
  BY <1>6, <1>7, <1>8, <1>9 DEF FormsInv, Display

LEMMA FormsStart == FormsInit => FormsInv
<1> SUFFICES ASSUME FormsInit PROVE FormsInv
  OBVIOUS
<1>1. Initial \in Content /\ Mask \in Content /\ Initial # Mask
  BY DEF Content
<1>2. FormsTypeOK
  BY <1>1 DEF FormsInit, FormsTypeOK
<1>3. ASSUME NEW f \in Field PROVE Displays(f) /\ Traced(f)
  <2>1. Displays(f)
    BY <1>1, RecordFacts DEF FormsInit, Displays, Content
  <2>2. Traced(f)
    BY RecordFacts DEF FormsInit, Traced, OnePost, AskedFor, Settles, Fits
  <2> QED  BY <2>1, <2>2
<1> QED
  BY <1>2, <1>3 DEF FormsInit, FormsInv, Display, BrokenHasReason

LEMMA FormsStep == FormsInv /\ [FormsNext]_formsVars => FormsInv'
<1> SUFFICES ASSUME FormsInv, [FormsNext]_formsVars PROVE FormsInv'
  OBVIOUS
<1>1. ASSUME Step, UNCHANGED fields PROVE FormsInv'
  BY <1>1, MountKeeps, UnmountKeeps, TimerFiresKeeps, ConfirmKeeps, CancelKeeps, SubmitKeeps,
     TypeKeeps, ChooseKeeps, SavedKeeps, SaveFailedKeeps DEF Step
<1>2. CASE UNCHANGED formsVars
  <2>1. /\ UNCHANGED <<fields, cache, mounted, broken, shown>>
        /\ UNCHANGED <<saved, post, chosen, raced, dropped, failed, confirming>>
        /\ UNCHANGED <<timer, reported>>
    BY <1>2 DEF formsVars, history
  <2>2. FormsTypeOK'
    BY <2>1 DEF FormsInv, Display, FormsTypeOK
  <2>3. Display'
    BY <2>1, <2>2, SameDisplay DEF FormsInv
  <2>4. \A f \in Field : Traced(f)'
    BY <2>1, SameTraces
  <2> QED  BY <2>3, <2>4 DEF FormsInv
<1> QED
  BY <1>1, <1>2 DEF FormsNext

LEMMA FormsInvariance == FormsSpec => []FormsInv
BY FormsStart, FormsStep, PTL DEF FormsSpec

\* Types hold of the forms: only text fields are debounced, only sensitive
\* ones wait for the password, and what is shown, sent and stored is a value
\* or the mask.
THEOREM FormsTypeCorrect == FormsSpec => []FormsTypeOK
<1>1. FormsInv => FormsTypeOK
  BY DEF FormsInv, Display
<1> QED
  BY <1>1, FormsInvariance, PTL

\* Whatever the sections are made of and however the user's input, the shared
\* debounce timer, the password dialogs and the answers interleave, the last
\* value the user gave a field is stored when nothing is under way, but for
\* the causes that LastChoiceSaved names.
THEOREM LastChoiceIsSaved == FormsSpec => []LastChoiceSaved
<1>1. FormsInv => LastChoiceSaved
  <2> SUFFICES ASSUME FormsInv, Quiet, NEW f \in Field, f \notin dropped \cup raced \cup failed
               PROVE  \/ chosen[f] = Nothing \/ saved[f] = chosen[f]
                      \/ f \in Sensitive /\ saved[f] = Mask
    BY DEF LastChoiceSaved
  <2>1. ~Undecided(f) /\ \A i \in SaveSlot : post[i].field # f
    BY RecordFacts DEF Quiet, Undecided
  <2>2. Fits(f, saved[f])
    BY <2>1 DEF FormsInv, Traced, Settles
  <2> QED  BY <2>2 DEF Fits
<1> QED
  BY <1>1, FormsInvariance, PTL

\* In any section, a checkbox of a form that is not broken comes back as the
\* user left it, and a form without structured fields is not broken.
THEOREM RevisitsShow == FormsSpec => []RevisitShowsChoice
<1>1. FormsInv => RevisitShowsChoice
  <2> SUFFICES ASSUME FormsInv, mounted, NEW f \in fields
               PROVE  /\ Kind[f] \in {"checkbox", "multi-checkbox"} /\ FormOf[f] \notin broken
                           => chosen[f] = Nothing \/ shown[f] = chosen[f]
                      /\ (\A g \in fields : FormOf[g] = FormOf[f] => ~Structured(g))
                           => shown[f] # Nothing
    BY DEF RevisitShowsChoice
  <2>1. f \in Field /\ Displays(f) /\ BrokenHasReason
    BY DEF FormsInv, Display, FormsTypeOK
  <2> QED  BY <2>1 DEF Displays, BrokenHasReason
<1> QED
  BY <1>1, FormsInvariance, PTL
=============================================================================
