---------------------------- MODULE SettingsPanel ----------------------------
(***************************************************************************)
(* The endpoint of the sync widget (SyncWidget.tsx) and the dialog that    *)
(* changes it (SettingsPanel.tsx), one user.  The widget asks GET          *)
(* /admin/config/cyperf-endpoint every 30 seconds and after a sync, the    *)
(* dialog saves with POST.  Both answers come back whenever they like:     *)
(* after the dialog was dismissed, after it was opened again, after        *)
(* another administrator has saved.  What the two routes do inside is      *)
(* EndpointConfig; here the server has one address at a time.              *)
(***************************************************************************)
EXTENDS Naturals, FiniteSets

CONSTANTS
    Texts,      \* what may be typed, up to the white space that trim() removes
    Clean,      \* what the server keeps of a text: "https://" is cut off
    None,       \* the empty text, no endpoint
    MaxGets,    \* GET requests in flight at once, a bound of the model
    MaxTimers,  \* pending auto-close timers, a bound of the model
    Allowed     \* what may happen, a subset of Conditions

\* elsewhere: the address changes by another hand, or the server falls back
\*            to no address when it cannot read the table.
\* lost:      requests fail on their way, or their answers do.
Conditions == {"elsewhere", "lost"}

Values == Texts \union {None}

ASSUME SettingsAssumption ==
    /\ None \notin Texts
    /\ Values \intersect {"free", "asked"} = {}
    /\ Clean \in [Texts -> Texts]
    /\ \A t \in Texts : Clean[Clean[t]] = Clean[t]
    /\ MaxGets \in Nat \ {0}
    /\ MaxTimers \in Nat \ {0}
    /\ Allowed \subseteq Conditions

VARIABLES
    endpoint,  \* the endpoint the widget shows and prefills
    gets,      \* the GET requests: free, asked, or the endpoint answered
    open,      \* showSettings
    text,      \* the input of the dialog
    isSaving,  \* isSaving of the dialog
    feedback,  \* validationError and validationSuccess of the dialog
    timers,    \* pending auto-close timers
    post,      \* the POST under way
    posted,    \* the text it carries
    served,    \* the address the server answers with
    held       \* the addresses the server ever had

dialog == <<open, text, isSaving, feedback, timers>>
request == <<post, posted>>
server == <<served, held>>
vars == <<endpoint, gets, dialog, request, server>>

GetIds == 1 .. MaxGets
Addresses == {Clean[t] : t \in Texts}

-----------------------------------------------------------------------------
(* Variants: plausible mistakes in the code, none of which it makes.       *)

\* Opening the dialog resets all of its state.
SavingReset == FALSE

\* The finally is missing: isSaving is reset only after a success.
SavingKept == feedback' # "success"

\* Like fetch(), the client does not throw on an error status.
AcceptedAny == {"saved", "refused"}

\* The interval of the widget is missing: it asks only once.
AskNever == FALSE

-----------------------------------------------------------------------------
Init ==
    /\ served \in Addresses \union {None}
    /\ held = {served}
    /\ endpoint = None
    /\ gets = [i \in GetIds |-> IF i = 1 THEN "asked" ELSE "free"]
    /\ open = FALSE /\ text = None /\ isSaving = FALSE
    /\ feedback = "none" /\ timers = 0
    /\ post = "none" /\ posted = None

\* The effect on [isOpen, currentEndpoint]; opened and shown are the new values.
Prefill(opened, shown) ==
    IF opened /\ <<opened, shown>> # <<open, endpoint>>
    THEN text' = shown /\ feedback' = "none"
    ELSE UNCHANGED <<text, feedback>>

Serve(a) ==
    /\ served' = a
    /\ held' = held \union {a}

-----------------------------------------------------------------------------
(* The user.                                                               *)

SavingAfterOpen == isSaving

OpenSettings ==
    /\ ~ open
    /\ open' = TRUE
    /\ Prefill(TRUE, endpoint)
    /\ isSaving' = SavingAfterOpen
    /\ UNCHANGED <<endpoint, gets, timers, request, server>>

Type(t) ==
    /\ open /\ ~ isSaving
    /\ text' = t
    /\ feedback' = "none"
    /\ UNCHANGED <<endpoint, gets, open, isSaving, timers, request, server>>

\* The button, or Enter in the input; both are off for a blank text.
HandleSave ==
    /\ open /\ ~ isSaving /\ text # None
    /\ isSaving' = TRUE
    /\ feedback' = "none"
    /\ post' = "sent"
    /\ posted' = text
    /\ UNCHANGED <<endpoint, gets, open, text, timers, server>>

\* Cancel is off while a save is under way; Escape, the cross and a click
\* beside the dialog are not.
CloseSettings ==
    /\ open
    /\ open' = FALSE
    /\ UNCHANGED <<endpoint, gets, text, isSaving, feedback, timers, request, server>>

-----------------------------------------------------------------------------
(* Saving.                                                                 *)

\* 200, or a refusal: the text is no address, the controller cannot be
\* reached, the table cannot be written.
PostHandled ==
    /\ post = "sent"
    /\ \/ post' = "saved" /\ Serve(Clean[posted])
       \/ post' = "refused" /\ UNCHANGED server
    /\ UNCHANGED <<endpoint, gets, dialog, posted>>

PostEnds ==
    /\ post' = "none"
    /\ posted' = None

SavingAfterPost == FALSE

\* The answers for which axios.post returns instead of throwing.
Accepted == {"saved"}

\* onEndpointSaved closes the dialog in the same step.
SaveSucceeds ==
    /\ post \in Accepted
    /\ timers < MaxTimers
    /\ endpoint' = posted
    /\ open' = FALSE
    /\ feedback' = "success"
    /\ timers' = timers + 1
    /\ isSaving' = SavingAfterPost
    /\ PostEnds
    /\ UNCHANGED <<gets, text, server>>

\* A refusal, or a request whose answer did not arrive, saved or not.
SaveFails ==
    /\ \/ post = "refused"
       \/ post \in {"sent", "saved"} /\ "lost" \in Allowed
    /\ feedback' = "error"
    /\ isSaving' = SavingAfterPost
    /\ PostEnds
    /\ UNCHANGED <<endpoint, gets, open, text, timers, server>>

\* setTimeout(() => onOpenChange(false), 1000)
AutoClose ==
    /\ timers > 0
    /\ timers' = timers - 1
    /\ open' = FALSE
    /\ UNCHANGED <<endpoint, gets, text, isSaving, feedback, request, server>>

-----------------------------------------------------------------------------
(* The widget asks for the endpoint.                                       *)

\* The interval, and onSyncComplete after a sync that succeeded.
MayAsk == TRUE

FetchEndpoint(i) ==
    /\ gets[i] = "free"
    /\ MayAsk
    /\ gets' = [gets EXCEPT ![i] = "asked"]
    /\ UNCHANGED <<endpoint, dialog, request, server>>

GetHandled(i) ==
    /\ gets[i] = "asked"
    /\ gets' = [gets EXCEPT ![i] = served]
    /\ UNCHANGED <<endpoint, dialog, request, server>>

\* res.data.endpoint || undefined
Shown(answer) == answer

GetArrives(i) ==
    /\ gets[i] \in Values
    /\ gets' = [gets EXCEPT ![i] = "free"]
    /\ endpoint' = Shown(gets[i])
    /\ Prefill(open, Shown(gets[i]))
    /\ UNCHANGED <<open, isSaving, timers, request, server>>

GetFails(i) ==
    /\ "lost" \in Allowed
    /\ gets[i] # "free"
    /\ gets' = [gets EXCEPT ![i] = "free"]
    /\ UNCHANGED <<endpoint, dialog, request, server>>

Elsewhere(a) ==
    /\ "elsewhere" \in Allowed
    /\ Serve(a)
    /\ UNCHANGED <<endpoint, gets, dialog, request>>

Next ==
    \/ OpenSettings \/ HandleSave \/ CloseSettings
    \/ PostHandled \/ SaveSucceeds \/ SaveFails \/ AutoClose
    \/ \E t \in Values : Type(t)
    \/ \E i \in GetIds : FetchEndpoint(i) \/ GetHandled(i) \/ GetArrives(i) \/ GetFails(i)
    \/ \E a \in Addresses \union {None} : Elsewhere(a)

Spec == Init /\ [][Next]_vars

\* Requests are handled, a POST whose answer is lost fails in the end, timers
\* and the interval fire, and of a GET that is repeated for ever some get
\* through.
Fairness ==
    /\ WF_vars(PostHandled) /\ WF_vars(SaveSucceeds \/ SaveFails) /\ WF_vars(AutoClose)
    /\ \A i \in GetIds : /\ WF_vars(FetchEndpoint(i)) /\ SF_vars(GetHandled(i))
                         /\ SF_vars(GetArrives(i))

FairSpec == Spec /\ Fairness

-----------------------------------------------------------------------------
(* Properties.                                                             *)

TypeOK ==
    /\ endpoint \in Values /\ text \in Values /\ posted \in Values
    /\ gets \in [GetIds -> Values \union {"free", "asked"}]
    /\ open \in BOOLEAN /\ isSaving \in BOOLEAN
    /\ feedback \in {"none", "error", "success"}
    /\ timers \in 0 .. MaxTimers
    /\ post \in {"none", "sent", "saved", "refused"}
    /\ served \in Values
    /\ held \subseteq Values

\* The Save button is off exactly while a POST is under way, also when the
\* dialog was dismissed and opened again in the meantime (SettingsPanel.tsx:214):
\* no second save overtakes the first.
OneSave == isSaving <=> post # "none"

\* The address under the button is one the server has or had, up to the
\* prefix the server cuts off: never one that was refused or only typed
\* (SyncWidget.tsx:43-46, 99).
ShownWasHeld == endpoint # None => Clean[endpoint] \in held

\* The dialog does not stay disabled (SettingsPanel.tsx:109-111).
SavingEnds == isSaving ~> ~ isSaving

\* When the address stays the same and nobody saves, the widget ends up
\* showing it, whatever was answered late, refused or lost before
\* (SyncWidget.tsx:37-41).
WidgetCatchesUp ==
    \A a \in Values : <>[](served = a /\ ~ isSaving) => <>[](endpoint = a)

\* "Auto-close after 1 second so user sees the success message"
\* (SettingsPanel.tsx:82).
SuccessIsSeen == feedback = "success" => open

\* "On failure the error is shown in-line and the modal stays open"
\* (SettingsPanel.tsx:14): only the user closes the dialog then.
ErrorStaysOpen ==
    [][open /\ feedback = "error" /\ ~ open' => CloseSettings]_vars
=============================================================================
