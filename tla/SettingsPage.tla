---------------------------- MODULE SettingsPage ----------------------------
(***************************************************************************)
(* PersonalSettings.vue with LegacySettingsForm.vue: what the user of the  *)
(* single page application sees of a section.  The page shows the legacy   *)
(* form of the section when the store has its content; the form loads the  *)
(* scripts it was given one by one, none where Scripts[s] = <<>>, which is *)
(* what SettingsApiController answers for every section.                   *)
(*                                                                         *)
(* Every mount and every change of the HTML starts an initialization of    *)
(* its own: a timeout of 0 ms, then the scripts; nothing stops it when the *)
(* HTML changes again or the form is unmounted.  Vue renders in the step   *)
(* that changes the store.                                                 *)
(***************************************************************************)
EXTENDS SettingsStore, Sequences

CONSTANTS
  Script,        \* the URLs of script tags
  Scripts,       \* Scripts[s]: those of section s, in order
  Broken,        \* those that may fail to load
  Loop           \* bound: as many initializations are under way at most

ASSUME PageAssumption ==
  Broken \subseteq Script /\ IsFiniteSet(Loop) /\ Scripts \in [Section -> Seq(Script)]

VARIABLES
  form,          \* LegacySettingsForm: loading and error of the one mounted
  tag,           \* document: tag[x], what became of the script tag with src x
  loop           \* loop[l]: the initializations under way

page == <<form, tag, loop>>

NoForm == "unmounted"
NoLoop == [at |-> "none", scripts |-> <<>>, live |-> FALSE]

\* Every initialization is at a step of its own; a script tag that is loading is
\* awaited by exactly one, and only a mounted form has live ones.
\* "timeout": the scripts are those of the props; "script": the first of the
\* scripts is awaited, the others follow.
PageTypeOK ==
  /\ form \in {NoForm, "loading", "ready", "error"}
  /\ tag \in [Script -> {"none", "loading", "loaded", "failed"}]
  /\ \A l \in Loop :
       /\ loop[l].at \in {"none", "timeout", "script"} /\ loop[l].live \in BOOLEAN
       /\ loop[l].live => form # NoForm
       /\ loop[l].at = "script" => /\ loop[l].scripts # <<>>
                                   /\ tag[Head(loop[l].scripts)] = "loading"
  /\ \A x \in Script : tag[x] = "loading" =>
       Cardinality({l \in Loop : loop[l].at = "script" /\ Head(loop[l].scripts) = x}) = 1

-----------------------------------------------------------------------------
(* The views.                                                               *)

\* v-else of the spinner and of the errors, v-if="legacyHtml".
Html == IF view = NoSection THEN <<NoSection, 0>>
        ELSE IF view \in loading \/ errors[view] # "none" \/ content[view] = 0
        THEN <<NoSection, 0>> ELSE <<view, content[view]>>

NoHtml == <<NoSection, 0>>

\* The props of the live instance follow the HTML, those of a dead one stay.
Live(l, s) == IF loop[l].live /\ loop[l].at = "timeout"
              THEN [loop[l] EXCEPT !.scripts = Scripts[s]] ELSE loop[l]

\* initialize, in a loop that is free.
Begin(s) ==
  LET free == {l \in Loop : loop[l] = NoLoop} IN
  /\ free # {}
  /\ loop' = [l \in Loop |-> IF l = CHOOSE f \in free : TRUE
                THEN [at |-> "timeout", scripts |-> Scripts[s], live |-> TRUE] ELSE Live(l, s)]

\* Unmount; nothing changes; mount, or the watcher of htmlContent: initialize.
Render ==
  \/ /\ Html' = NoHtml
     /\ form' = NoForm
     /\ loop' = [l \in Loop |-> [loop[l] EXCEPT !.live = FALSE]]
  \/ /\ Html' # NoHtml /\ Html' = Html
     /\ UNCHANGED <<form, loop>>
  \/ /\ Html' # NoHtml /\ Html' # Html
     /\ form' = "loading"
     /\ Begin(view')

Rendered == Render /\ UNCHANGED tag
Store == Next /\ Rendered

-----------------------------------------------------------------------------
(* LegacySettingsForm: initialize, loadScripts and loadScript.              *)

\* Fault: the catch block shows the error and leaves the spinner.
Conclude_OnlySuccess(l, how) ==
  /\ form' = IF ~loop[l].live \/ how = "error" THEN form
             ELSE IF form = "error" THEN "error" ELSE "ready"
  /\ loop' = [loop EXCEPT ![l] = NoLoop]

\* The end of initialize, try or catch: whatever it was started for.
Conclude(l, how) ==
  /\ form' = IF ~loop[l].live THEN form
             ELSE IF how = "error" \/ form = "error" THEN "error" ELSE "ready"
  /\ loop' = [loop EXCEPT ![l] = NoLoop]

\* loadScripts: the first of the scripts whose tag is in none of the states that
\* loadScript resolves for at once is appended to the document and awaited.
LoadScripts(l, scripts, tags, resolved) ==
  \/ /\ \A i \in DOMAIN scripts : tags[scripts[i]] \in resolved
     /\ Conclude(l, "ready") /\ tag' = tags
  \/ \E i \in DOMAIN scripts :
       /\ tags[scripts[i]] \notin resolved /\ \A h \in 1..i-1 : tags[scripts[h]] \in resolved
       /\ tag' = [tags EXCEPT ![scripts[i]] = "loading"]
       /\ loop' = [loop EXCEPT ![l] = [at |-> "script", live |-> loop[l].live,
                                       scripts |-> SubSeq(scripts, i, Len(scripts))]]
       /\ UNCHANGED form

\* Fault: loadScript looks at what this form has loaded, not at the document.
Proceed_Again(l, scripts, tags) == LoadScripts(l, scripts, tags, {"loaded"})

\* It resolves at once if the document has a tag with the src.
Proceed(l, scripts, tags) == LoadScripts(l, scripts, tags, {"loading", "loaded", "failed"})

Timeout(l) ==
  /\ loop[l].at = "timeout"
  /\ Proceed(l, loop[l].scripts, tag)
  /\ UNCHANGED vars

\* onload.
Loaded(l) ==
  /\ loop[l].at = "script"
  /\ Proceed(l, Tail(loop[l].scripts), [tag EXCEPT ![Head(loop[l].scripts)] = "loaded"])
  /\ UNCHANGED vars

\* onerror: the tag stays in the document.
ScriptFailed(l) ==
  /\ loop[l].at = "script" /\ Head(loop[l].scripts) \in Broken
  /\ tag' = [tag EXCEPT ![Head(loop[l].scripts)] = "failed"]
  /\ Conclude(l, "error")
  /\ UNCHANGED vars

Initialize(l) == Timeout(l) \/ Loaded(l) \/ ScriptFailed(l)

PageInit ==
  /\ Init
  /\ tag = [x \in Script |-> "none"]
  /\ form = IF view = NoSection THEN NoForm ELSE "loading"
  /\ loop = [l \in Loop |->
       IF l = (CHOOSE f \in Loop : TRUE) /\ view # NoSection
       THEN [at |-> "timeout", scripts |-> Scripts[view], live |-> TRUE] ELSE NoLoop]

PageNext == Store \/ \E l \in Loop : Initialize(l)

\* Requests are answered, timeouts fire and script tags load or fail. Strong
\* fairness of Deliver, as only the bound Loop ever makes a response wait.
PageFairness == /\ \A i \in Slot : /\ WF_<<vars, page>>(Answer(i) /\ Rendered)
                                  /\ SF_<<vars, page>>(Deliver(i) /\ Rendered)
                /\ \A l \in Loop : WF_<<vars, page>>(Initialize(l))

PageSpec == PageInit /\ [][PageNext]_<<vars, page>> /\ PageFairness

-----------------------------------------------------------------------------
(* Properties.                                                              *)

\* A section the user stays on comes to be shown, its legacy form with it, or
\* an error does, whatever is fetched and initialized at the same time, unless
\* an app state change clears it; and the spinner of every form ends, or the
\* form is unmounted.
PageSettles ==
  /\ \A s \in Section :
       view = s ~> form \in {"ready", "error"} \/ errors[s] # "none" \/ view # s \/ handled # 0
  /\ form = "loading" ~> form # "loading"
=============================================================================
