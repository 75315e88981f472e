-------------------------- MODULE DeclarativeForm --------------------------
(***************************************************************************)
(* DeclarativeSection.vue inside the settings single page application: the *)
(* fields of one settings section, from the cached response of the server  *)
(* to the value the user picks and back to the server.                     *)
(*                                                                         *)
(* Text fields are saved a second after the last key, through one debounce *)
(* timer that all forms of the page share; every other field is saved at   *)
(* once.  The forms decode the cached response in place.                   *)
(*                                                                         *)
(* The names of the specification (FormsInit, FormsNext, FormsSpec) differ *)
(* from those of SettingsStore: the same module has theorems about both.   *)
(***************************************************************************)
EXTENDS FiniteSets

CONSTANTS
  Field, Form,
  Pages,        \* what the section that is visited may consist of: sets of fields
  FormOf,       \* FormOf[f]: the form of field f
  Kind,         \* Kind[f]: "text", "select" (or radio), "checkbox",
                \* "multi-select" or "multi-checkbox"
  Sensitive,    \* the fields declared sensitive
  Value,        \* what a field can be set to
  Initial,      \* the value the server has at first
  Mask,         \* 'dummySecret'
  Nothing,      \* no value, no field
  SavesFail,    \* TRUE: saving may fail
  Revisits,     \* TRUE: the user leaves the section and comes back
  SaveSlot      \* bound: as many save requests are in flight at most

Kinds == {"text", "select", "checkbox", "multi-select", "multi-checkbox"}

ASSUME FormsAssumption ==
  /\ Pages \subseteq SUBSET Field /\ FormOf \in [Field -> Form] /\ Kind \in [Field -> Kinds]
  /\ Sensitive \subseteq {f \in Field : Kind[f] = "text"}
  /\ Initial \in Value /\ Mask \notin Value /\ Nothing \notin Value \cup {Mask} \cup Field
  /\ SavesFail \in BOOLEAN /\ Revisits \in BOOLEAN /\ IsFiniteSet(SaveSlot)

VARIABLES
  fields,      \* the fields of the section, fixed by the apps' schemas
  saved,       \* saved[f]: the value in the server's configuration
  cache,       \* cache[f]: value and encoding in the store's cached content
  mounted,     \* the section is shown
  broken,      \* the forms whose beforeMount threw
  shown,       \* shown[f]: formFieldsData[f].value of the mounted form
  timer,       \* the debounced call; old: its form instance is unmounted
  confirming,  \* the saves that wait for the user's password
  post,        \* post[i]: the save requests in flight
  chosen,      \* history: the last value the user gave the field
  dropped,     \* history: fields whose debounced save was lost
  raced,       \* history: fields that had two saves in flight
  failed,      \* history: fields whose last save failed or was cancelled
  reported     \* history: those of them for which the user saw an error

history == <<chosen, dropped, raced, failed, reported>>
formsVars == <<fields, saved, cache, mounted, broken, shown, timer, confirming, post, history>>

NoTimer == [field |-> Nothing, value |-> Nothing, old |-> FALSE]
NoPost  == [field |-> Nothing, value |-> Nothing]
Content == Value \cup {Mask}

FormsTypeOK ==
  /\ fields \in Pages /\ saved \in [Field -> Content]
  /\ cache \in [Field -> [value : Content, decoded : BOOLEAN]]
  /\ mounted \in BOOLEAN /\ broken \in SUBSET Form
  /\ shown \in [Field -> Content \cup {Nothing}]
  /\ timer \in [field : {f \in Field : Kind[f] = "text"}, value : Content,
                old : BOOLEAN] \cup {NoTimer}
  /\ confirming \in SUBSET [field : Sensitive, value : Content]
  /\ post \in [SaveSlot -> [field : Field, value : Content] \cup {NoPost}]
  /\ chosen \in [Field -> Value \cup {Nothing}]
  /\ dropped \in SUBSET Field /\ raced \in SUBSET Field
  /\ failed \in SUBSET Field /\ reported \in SUBSET Field

Structured(f) == Kind[f] \in {"multi-select", "multi-checkbox"}
Usable(f) == mounted /\ f \in fields /\ FormOf[f] \notin broken /\ confirming = {}
Posting(f) == {i \in SaveSlot : post[i].field = f}
Quiet == timer = NoTimer /\ confirming = {} /\ \A i \in SaveSlot : post[i] = NoPost

-----------------------------------------------------------------------------
(* Saving.                                                                 *)

Post(f, v) ==
  \E i \in SaveSlot :
    /\ post[i] = NoPost
    /\ post' = [post EXCEPT ![i] = [field |-> f, value |-> v]]
    /\ raced' = IF Posting(f) = {} THEN raced \ {f} ELSE raced \cup {f}
    /\ failed' = failed \ {f} /\ reported' = reported \ {f}

\* updateDeclarativeSettingsValue: at once, or after a password dialog.
UpdateValue(f, v) ==
  \/ /\ f \notin Sensitive
     /\ Post(f, v) /\ UNCHANGED confirming
  \/ /\ f \in Sensitive
     /\ confirming' = confirming \cup {[field |-> f, value |-> v]}
     /\ UNCHANGED <<post, raced, failed, reported>>

Confirm ==
  \E c \in confirming :
    /\ confirming' = confirming \ {c}
    /\ Post(c.field, c.value)
    /\ UNCHANGED <<saved, cache, mounted, broken, shown, timer, chosen, dropped>>

Cancel ==
  \E c \in confirming :
    /\ confirming' = confirming \ {c}
    /\ failed' = failed \cup {c.field} /\ reported' = reported \cup {c.field}
    /\ UNCHANGED <<saved, cache, mounted, broken, shown, timer, post, chosen,
                   dropped, raced>>

\* The server handles one of the requests it received.  A sensitive value is
\* stored encrypted, the mask is stored as it is.
Saved(i) ==
  /\ post[i] # NoPost
  /\ saved' = [saved EXCEPT ![post[i].field] = post[i].value]
  /\ post' = [post EXCEPT ![i] = NoPost]
  /\ UNCHANGED <<cache, mounted, broken, shown, timer, confirming, history>>

\* The promise of axios.post is returned, not awaited, inside the try block:
\* its rejection does not reach the catch that would show an error.
SaveFailed(i) ==
  /\ SavesFail /\ post[i] # NoPost
  /\ failed' = failed \cup {post[i].field}
  /\ post' = [post EXCEPT ![i] = NoPost]
  /\ UNCHANGED <<saved, cache, mounted, broken, shown, timer, confirming, chosen,
                 dropped, raced, reported>>

-----------------------------------------------------------------------------
(* The fields.                                                             *)

\* The debounced method keeps the arguments of its last call, and throws when
\* called for another component while a call is pending.
OtherInstance(f) == timer # NoTimer /\ (timer.old \/ FormOf[timer.field] # FormOf[f])

Debounce(f, v) ==
  \/ /\ OtherInstance(f)
     /\ dropped' = dropped \cup {f}
     /\ UNCHANGED timer
  \/ /\ ~OtherInstance(f)
     /\ timer' = [field |-> f, value |-> v, old |-> FALSE]
     /\ dropped' = (dropped \cup ({timer.field} \cap Field)) \ {f}

\* Fault: typing does not save, only Enter does.
Type_NoDebounce(f, v) ==
  /\ Usable(f) /\ Kind[f] = "text" /\ v # shown[f]
  /\ shown' = [shown EXCEPT ![f] = v] /\ chosen' = [chosen EXCEPT ![f] = v]
  /\ UNCHANGED <<saved, cache, mounted, broken, timer, confirming, post, dropped, raced,
                 failed, reported>>

Type(f, v) ==
  /\ Usable(f) /\ Kind[f] = "text" /\ v # shown[f]
  /\ shown' = [shown EXCEPT ![f] = v] /\ chosen' = [chosen EXCEPT ![f] = v]
  /\ Debounce(f, v)
  /\ UNCHANGED <<saved, cache, mounted, broken, confirming, post, raced, failed, reported>>

\* Fault: the fired call reads the data of the form that is shown now.
TimerFires_ReadsShown ==
  /\ timer # NoTimer
  /\ timer' = NoTimer
  /\ UpdateValue(timer.field, shown[timer.field])
  /\ UNCHANGED <<saved, cache, mounted, broken, shown, chosen, dropped>>

\* The second is over; a call left by an unmounted form saves what that form
\* showed, even over something newer.
TimerFires ==
  /\ timer # NoTimer
  /\ timer' = NoTimer
  /\ UpdateValue(timer.field, timer.value)
  /\ dropped' = IF timer.value = chosen[timer.field] THEN dropped
                ELSE dropped \cup {timer.field}
  /\ UNCHANGED <<saved, cache, mounted, broken, shown, chosen>>

\* Enter, in a text field, whether the user changed it or not.
Submit(f) ==
  /\ Usable(f) /\ Kind[f] = "text"
  /\ UpdateValue(f, shown[f])
  /\ chosen' = IF shown[f] = Mask THEN chosen ELSE [chosen EXCEPT ![f] = shown[f]]
  /\ dropped' = dropped \ {f}
  /\ UNCHANGED <<saved, cache, mounted, broken, shown, timer>>

\* Fault: the checkbox does not write its value to the cached field.
Choose_NotShared(f, v) ==
  /\ Usable(f) /\ Kind[f] # "text" /\ v # shown[f]
  /\ shown' = [shown EXCEPT ![f] = v] /\ chosen' = [chosen EXCEPT ![f] = v]
  /\ UpdateValue(f, v)
  /\ UNCHANGED <<saved, cache, mounted, broken, timer, dropped>>

\* A choice is sent at once; a checkbox and the object of a multi-checkbox
\* are shared with the cached content, the others are not.
Choose(f, v) ==
  /\ Usable(f) /\ Kind[f] # "text" /\ v # shown[f]
  /\ shown' = [shown EXCEPT ![f] = v] /\ chosen' = [chosen EXCEPT ![f] = v]
  /\ cache' = IF Kind[f] \in {"checkbox", "multi-checkbox"}
              THEN [cache EXCEPT ![f].value = v] ELSE cache
  /\ UpdateValue(f, v)
  /\ UNCHANGED <<saved, mounted, broken, timer, dropped>>

-----------------------------------------------------------------------------
(* Mounting.                                                               *)

\* initFormFieldsData: JSON.parse of a value that is decoded already throws.
Mount ==
  LET throws == {FormOf[f] : f \in {g \in fields : Structured(g) /\ cache[g].decoded}} IN
  /\ ~mounted /\ mounted' = TRUE
  /\ broken' = throws
  /\ cache' = [f \in Field |-> [cache[f] EXCEPT !.decoded = @ \/ (f \in fields /\ Structured(f))]]
  /\ shown' = [f \in Field |-> IF f \in fields /\ FormOf[f] \notin throws
                               THEN cache[f].value ELSE Nothing]
  /\ UNCHANGED <<saved, timer, confirming, post, history>>

\* The user goes to another section; the timer and the requests live on.
Unmount ==
  /\ Revisits /\ mounted /\ confirming = {}
  /\ mounted' = FALSE /\ broken' = {}
  /\ shown' = [f \in Field |-> Nothing]
  /\ timer' = IF timer = NoTimer THEN timer ELSE [timer EXCEPT !.old = TRUE]
  /\ UNCHANGED <<saved, cache, confirming, post, history>>

-----------------------------------------------------------------------------
\* Sensitive values leave the server masked, structured ones as JSON.
FormsInit ==
  /\ fields \in Pages /\ saved = [f \in Field |-> Initial]
  /\ cache = [f \in Field |-> [value |-> IF f \in Sensitive THEN Mask ELSE Initial,
                               decoded |-> FALSE]]
  /\ mounted = FALSE /\ broken = {} /\ shown = [f \in Field |-> Nothing]
  /\ timer = NoTimer /\ confirming = {} /\ post = [i \in SaveSlot |-> NoPost]
  /\ chosen = [f \in Field |-> Nothing]
  /\ dropped = {} /\ raced = {} /\ failed = {} /\ reported = {}

Step ==
  \/ Mount \/ Unmount \/ TimerFires \/ Confirm \/ Cancel
  \/ \E f \in Field : Submit(f) \/ \E v \in Value : Type(f, v) \/ Choose(f, v)
  \/ \E i \in SaveSlot : Saved(i) \/ SaveFailed(i)

FormsNext == Step /\ UNCHANGED fields
FormsSpec == FormsInit /\ [][FormsNext]_formsVars

-----------------------------------------------------------------------------
(* Properties.                                                             *)

\* When nothing is under way the server has the last value the user gave, but
\* for the fields whose debounced save another field's typing displaced, whose
\* two saves raced, and whose save failed.
LastChoiceSaved ==
  Quiet => \A f \in Field \ (dropped \cup raced \cup failed) :
             \/ chosen[f] = Nothing \/ saved[f] = chosen[f]
             \/ f \in Sensitive /\ saved[f] = Mask

\* A checkbox comes back as the user left it, since it writes its value to the
\* cached content; a form without structured fields always comes back.
RevisitShowsChoice ==
  mounted => \A f \in fields :
    /\ Kind[f] \in {"checkbox", "multi-checkbox"} /\ FormOf[f] \notin broken
         => chosen[f] = Nothing \/ shown[f] = chosen[f]
    /\ (\A g \in fields : FormOf[g] = FormOf[f] => ~Structured(g)) => shown[f] # Nothing

-----------------------------------------------------------------------------
(* Promises that the code does not keep.                                   *)

\* "Declarative forms render and save" (README_SPA): every value the user gave
\* reaches the server, when no save of the field fails and no two race.
EveryChoiceSaved ==
  Quiet => \A f \in Field \ (raced \cup failed) :
             chosen[f] = Nothing \/ saved[f] = chosen[f]

\* "Declarative forms render", also the second time a section is visited.
FormsRender == mounted => broken = {}

\* ... and with the values that were saved.
SavedIsShown ==
  mounted /\ Quiet => \A f \in Field \ (dropped \cup failed) :
    shown[f] \in {saved[f], Mask, Nothing}

\* "Failed to save setting" is shown when saving fails.
FailureReported == failed \subseteq reported

\* "Sensitive values masked with 'dummySecret' before sending to client": the
\* mask is for the client and does not replace the value in the server.
MaskNotStored == \A f \in Field : saved[f] # Mask
=============================================================================
