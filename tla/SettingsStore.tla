--------------------------- MODULE SettingsStore ---------------------------
(***************************************************************************)
(* apps/settings/src/store/settings-store.ts and the views that use it:    *)
(* the cache of settings sections of the single page application.          *)
(*                                                                         *)
(* Every HTTP request is three steps, sent, answered by the server and     *)
(* delivered to the awaiting code; between them the user navigates, other  *)
(* requests come back in any order, and apps are enabled or disabled.      *)
(* What the server would send is a version number that grows with every    *)
(* app state change; 0 stands for nothing.                                 *)
(***************************************************************************)
EXTENDS Integers, FiniteSets

CONSTANTS
  Section,       \* the cache keys type-section
  NoSection,     \* view: a route without settings; request: the navigation
  AppEvents,     \* TRUE: 'nextcloud:app-menu.refresh' is emitted in this page
  Composable,    \* TRUE: the operations that only useSettings() offers are used
  Failures,      \* TRUE: requests may fail
  MaxVersion,    \* bound: 1 + app state changes on the server
  Slot           \* bound: as many requests are in flight at most

ASSUME ConstantsAssumption ==
  /\ NoSection \notin Section
  /\ AppEvents \in BOOLEAN /\ Composable \in BOOLEAN /\ Failures \in BOOLEAN
  /\ MaxVersion \in Nat \ {0} /\ IsFiniteSet(Slot)

VARIABLES
  version,       \* server: what the settings are now
  announced,     \* server: the version the last emitted event was about
  content,       \* store: content[s], 0 when not cached
  sections,      \* store: the navigation
  loading,       \* store: the keys with loading[key] true
  errors,        \* store: errors[key] and errorCodes[key]
  registered,    \* store: eventListenersRegistered
  handlers,      \* event bus: how many handlers of the store are subscribed
  request,       \* request[i]: the HTTP requests in flight
  view,          \* router: the section that is shown
  handled,       \* history: version at the last handleAppStateChange
  overtaken      \* history: keys with a request in flight at such a moment

store == <<content, sections, loading, errors, registered>>
vars == <<version, announced, content, sections, loading, errors, registered,
          handlers, request, view, handled, overtaken>>

Version == 0..MaxVersion
Key == Section \cup {NoSection}

NoRequest == [what |-> "none", section |-> NoSection, status |-> "none", data |-> 0]
RequestType == [what : {"none", "load", "prefetch", "sections"}, section : Key,
                status : {"none", "sent", "ok", "denied", "failed"}, data : Version]

\* Only an answered request carries data, and only requests for content name
\* a section.
RequestsOK ==
  /\ request \in [Slot -> RequestType]
  /\ \A i \in Slot :
       /\ request[i].what = "none" <=> request[i] = NoRequest
       /\ request[i].what \in {"load", "prefetch"} <=> request[i].section \in Section
       /\ request[i].status = "ok" <=> request[i].data > 0
       /\ request[i].data <= version

\* Every variable has its type, and nothing is newer than the server.
TypeOK ==
  /\ version \in 1..MaxVersion /\ announced \in 1..version /\ handled \in 0..version
  /\ content \in [Section -> 0..version] /\ sections \in 0..version
  /\ loading \in SUBSET Section
  /\ errors \in [Section -> {"none", "denied", "failed"}]
  /\ registered \in BOOLEAN /\ handlers \in Int
  /\ view \in Key /\ overtaken \in SUBSET Key
  /\ RequestsOK

InFlight(what, s) == {i \in Slot : request[i].what = what /\ request[i].section = s}

-----------------------------------------------------------------------------
(* Requests.                                                               *)

Send(what, s) ==
  \E i \in Slot :
    /\ request[i] = NoRequest
    /\ request' = [request EXCEPT ![i] =
         [what |-> what, section |-> s, status |-> "sent", data |-> 0]]

\* SettingsApiController: the content and the navigation of this moment, 403
\* for an admin section without permission, or any other failure on the way.
Answer(i) ==
  /\ request[i].status = "sent"
  /\ \/ request' = [request EXCEPT ![i].status = "ok", ![i].data = version]
     \/ /\ Failures
        /\ request' = [request EXCEPT ![i].status = "failed"]
     \/ /\ Failures /\ request[i].what # "sections"
        /\ request' = [request EXCEPT ![i].status = "denied"]
  /\ UNCHANGED <<version, announced, store, handlers, view, handled, overtaken>>

Receive(i, what) ==
  /\ request[i].what = what /\ request[i].status \in {"ok", "denied", "failed"}
  /\ request' = [request EXCEPT ![i] = NoRequest]
  /\ UNCHANGED <<version, announced, registered, handlers, view, handled>>

-----------------------------------------------------------------------------
(* loadSectionContent and prefetchSectionContent.                          *)

\* Fault: the URL is built without the section.
LoadSectionContent_NoSection(s, force) ==
  \/ /\ (~force /\ content[s] # 0) \/ s \in loading
     /\ UNCHANGED <<loading, errors, request>>
  \/ /\ force \/ content[s] = 0
     /\ s \notin loading
     /\ loading' = loading \cup {s}
     /\ errors' = [errors EXCEPT ![s] = "none"]
     /\ Send("load", NoSection)

\* The synchronous part, up to the await.
LoadSectionContent(s, force) ==
  \/ /\ (~force /\ content[s] # 0) \/ s \in loading
     /\ UNCHANGED <<loading, errors, request>>
  \/ /\ force \/ content[s] = 0
     /\ s \notin loading
     /\ loading' = loading \cup {s}
     /\ errors' = [errors EXCEPT ![s] = "none"]
     /\ Send("load", s)

\* Fault: a response that was overtaken is dropped, its loading flag with it.
LoadSucceeded_DropsOvertaken(i) ==
  LET s == request[i].section  fresh == s \notin overtaken IN
  /\ Receive(i, "load") /\ request[i].status = "ok"
  /\ content' = IF fresh THEN [content EXCEPT ![s] = request[i].data] ELSE content
  /\ sections' = request[i].data
  /\ loading' = IF fresh THEN loading \ {s} ELSE loading
  /\ UNCHANGED <<errors, overtaken>>

\* Fault: finally is left out, only success ends the loading state.
LoadFailed_NoFinally(i) ==
  LET s == request[i].section IN
  /\ Receive(i, "load") /\ request[i].status # "ok"
  /\ errors' = [errors EXCEPT ![s] = request[i].status]
  /\ UNCHANGED <<content, sections, loading, overtaken>>

LoadSucceeded(i) ==
  LET s == request[i].section IN
  /\ Receive(i, "load") /\ request[i].status = "ok"
  /\ content' = [content EXCEPT ![s] = request[i].data]
  /\ sections' = request[i].data
  /\ loading' = loading \ {s}
  /\ UNCHANGED <<errors, overtaken>>

LoadFailed(i) ==
  LET s == request[i].section IN
  /\ Receive(i, "load") /\ request[i].status # "ok"
  /\ errors' = [errors EXCEPT ![s] = request[i].status]
  /\ loading' = loading \ {s}
  /\ UNCHANGED <<content, sections, overtaken>>

\* No loading flag is set: a prefetch and a load of one section may overlap.
Prefetch(s) ==
  /\ Composable /\ view # NoSection
  /\ content[s] = 0 /\ s \notin loading
  /\ Send("prefetch", s)
  /\ UNCHANGED <<version, announced, store, handlers, view, handled, overtaken>>

PrefetchDone(i) ==
  LET s == request[i].section IN
  /\ Receive(i, "prefetch")
  /\ content' = IF request[i].status = "ok"
                THEN [content EXCEPT ![s] = request[i].data] ELSE content
  /\ UNCHANGED <<sections, loading, errors, overtaken>>

\* loadSections(true), after its await.
SectionsDone(i) ==
  /\ Receive(i, "sections")
  /\ sections' = IF request[i].status = "ok" THEN request[i].data ELSE sections
  /\ overtaken' = IF request[i].status = "ok" THEN overtaken ELSE overtaken \cup {NoSection}
  /\ UNCHANGED <<content, loading, errors>>

Deliver(i) ==
  LoadSucceeded(i) \/ LoadFailed(i) \/ PrefetchDone(i) \/ SectionsDone(i)

-----------------------------------------------------------------------------
(* Event listeners and app state changes.                                  *)

RegisterEventListeners ==
  /\ registered' = TRUE
  /\ handlers' = IF registered THEN handlers ELSE handlers + 1

\* Fault: unsubscribe gets a newly bound function, which removes nothing.
UnregisterEventListeners_Rebinds ==
  /\ registered' = FALSE
  /\ UNCHANGED handlers

UnregisterEventListeners ==
  /\ registered' = FALSE
  /\ handlers' = IF registered THEN handlers - 1 ELSE handlers

\* An app is enabled, disabled or removed, here or by somebody else.
AppChange ==
  /\ version < MaxVersion /\ version' = version + 1
  /\ UNCHANGED <<announced, store, handlers, request, view, handled, overtaken>>

ClearAllContent ==
  /\ content' = [s \in Section |-> 0]
  /\ errors' = [s \in Section |-> "none"]
  /\ loading' = {}

\* What is in flight now will come back with data from before the change.
Overtake ==
  /\ handled' = version
  /\ overtaken' = overtaken \cup {request[i].section : i \in {j \in Slot : request[j] # NoRequest}}
       \cup {NoSection : i \in {j \in Slot : request[j].what \in {"load", "sections"}}}

\* Fault: loadSections() is called without force and returns at once.
HandleAppStateChange_NotForced ==
  /\ ClearAllContent
  /\ Overtake
  /\ UNCHANGED <<sections, registered, request>>

\* Fault: only the errors are cleared, not the cached content.
HandleAppStateChange_KeepsContent ==
  /\ errors' = [s \in Section |-> "none"]
  /\ loading' = {}
  /\ Send("sections", NoSection)
  /\ Overtake
  /\ UNCHANGED <<content, sections, registered>>

\* After clearing, loadSections(true) up to its await.
HandleAppStateChange ==
  /\ ClearAllContent
  /\ Send("sections", NoSection)
  /\ Overtake
  /\ UNCHANGED <<sections, registered>>

\* rebuildNavigation() got its answer and emits the event.
AppEvent ==
  /\ AppEvents /\ announced < version /\ announced' = version
  /\ \/ handlers > 0 /\ HandleAppStateChange
     \/ handlers = 0 /\ UNCHANGED <<store, request, handled, overtaken>>
  /\ UNCHANGED <<version, handlers, view>>

-----------------------------------------------------------------------------
(* The views.                                                              *)

\* PersonalSettings and AdminSettings load on mount and when the section
\* changes; SettingsNavigation registers when it is mounted.
Navigate(s) ==
  /\ s # view /\ view' = s
  /\ LoadSectionContent(s, FALSE)
  /\ RegisterEventListeners
  /\ UNCHANGED <<version, announced, content, sections, handled, overtaken>>

\* To a route without settings, users or apps.
Leave ==
  /\ view # NoSection /\ view' = NoSection
  /\ UnregisterEventListeners
  /\ UNCHANGED <<version, announced, content, sections, loading, errors, request,
                 handled, overtaken>>

RetryOffered == /\ view # NoSection /\ view \notin loading
                /\ errors[view] = "failed"

Retry ==
  /\ RetryOffered
  /\ LoadSectionContent(view, FALSE)
  /\ UNCHANGED <<version, announced, content, sections, registered, handlers, view,
                 handled, overtaken>>

RefreshSection ==
  /\ Composable /\ view # NoSection
  /\ LoadSectionContent(view, TRUE)
  /\ UNCHANGED <<version, announced, content, sections, registered, handlers, view,
                 handled, overtaken>>

ClearSectionContent(s) ==
  /\ Composable
  /\ content' = [content EXCEPT ![s] = 0] /\ errors' = [errors EXCEPT ![s] = "none"]
  /\ UNCHANGED <<version, announced, sections, loading, registered, handlers, request,
                 view, handled, overtaken>>

-----------------------------------------------------------------------------
\* The page was loaded at a settings section, whose content and navigation
\* are in the InitialState, or at a route that provides neither.
Init ==
  /\ version = 1 /\ announced = 1 /\ handled = 0 /\ overtaken = {}
  /\ view \in Key
  /\ content = [s \in Section |-> IF s = view THEN 1 ELSE 0]
  /\ sections = IF view = NoSection THEN 0 ELSE 1
  /\ registered = (view # NoSection)
  /\ handlers = IF view = NoSection THEN 0 ELSE 1
  /\ loading = {} /\ errors = [s \in Section |-> "none"]
  /\ request = [i \in Slot |-> NoRequest]

Next ==
  \/ AppChange \/ AppEvent \/ Leave \/ Retry \/ RefreshSection
  \/ \E s \in Section : Navigate(s) \/ Prefetch(s) \/ ClearSectionContent(s)
  \/ \E i \in Slot : Answer(i) \/ Deliver(i)

Spec == Init /\ [][Next]_vars

-----------------------------------------------------------------------------
(* Properties.                                                             *)

\* A spinner is never orphaned: while a section counts as loading a load of
\* it is in flight, whatever was cleared and sent in between.
SpinnerHasRequest == \A s \in loading : InFlight("load", s) # {}

\* The handler is subscribed exactly while SettingsNavigation is mounted
\* ("FIXED: Event listener memory leak").
HandlersMatch == handlers = IF view = NoSection THEN 0 ELSE 1

\* After an app state change was handled the cache holds nothing older,
\* except for sections whose request was in flight when it was handled.
StaleOnlyIfOvertaken ==
  \A s \in Section \ overtaken : content[s] # 0 => content[s] >= handled

\* The navigation is refreshed by every app state change, unless a request
\* was in flight when it was handled or the refresh failed.
SectionsRefreshed ==
  NoSection \in overtaken \/ InFlight("sections", NoSection) # {} \/ sections >= handled

\* Every spinner ends.
SpinnerEnds == \A s \in Section : s \in loading ~> s \notin loading

Shown(s) == content[s] # 0 \/ errors[s] # "none"

-----------------------------------------------------------------------------
(* Promises that the code does not keep.                                   *)

\* "Clear all cached content since apps may have added/removed settings"
\* (comment in handleAppStateChange).
NothingStaleCached == \A s \in Section : content[s] # 0 => content[s] >= handled

\* "Clear our cache and refresh sections to pick up the changes": when all
\* requests have come back, the navigation is as new as the last change.
NavigationPicksUp ==
  (\A i \in Slot : request[i] = NoRequest) => sections >= handled

\* "Handles loading states, errors, and content rendering" (README_SPA): the
\* shown section has a spinner, an error or content.
NeverBlank == view # NoSection => view \in loading \/ Shown(view)

\* "Retry" loads what failed: it loads only what is not cached, so an error must
\* not stand in front of cached content.
RetrySends == RetryOffered => content[view] = 0
=============================================================================
