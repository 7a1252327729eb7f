---------------------------- MODULE ContactForm ----------------------------
(***************************************************************************)
(* The contact sheet of the search page (ContactFormSidebar.tsx), with the *)
(* confirmation in front of it (ConfirmDialog.tsx), the hook that sends    *)
(* the form (useContactForm.ts) and POST /contact/submit (contact.py).     *)
(* The sheet can be closed and opened again while a submission is under    *)
(* way: neither cancels the request, whose answer then meets another       *)
(* session of the same sheet.  A sheet that is unmounted leaves its        *)
(* request behind.  SearchPage adds the page around it.                    *)
(***************************************************************************)
CONSTANTS
    Cves,         \* CVEs that a search may find
    NoCve,        \* no CVE
    FormTroubles  \* what may go wrong, a subset of {"lost", "server"}

\* lost:   the answer does not come within the 15 seconds of the client.
\* server: the server fails, or refuses what the form let pass (EmailStr is
\*         stricter than zod's email()).
ASSUME FormAssumption ==
    /\ NoCve \notin Cves
    /\ FormTroubles \subseteq {"lost", "server"}

VARIABLES
    isOpen,        \* contactSidebarOpen of the page
    state,         \* the sheet's state
    filled,        \* the fields pass contactSchema
    isSubmitting,  \* of useContactForm
    apiError,      \* error of useContactForm: none or words
    apiResponse,   \* the CVE the server's answer is about
    request,       \* the POST that the mounted sheet waits for
    about,         \* the CVE it names
    orphans,       \* the CVEs of POSTs on their way that no sheet waits for
    outlived,      \* the sheet was closed after the POST was sent
    accepted,      \* the CVEs the server took requests for
    agreed,        \* the user confirmed since the sheet was opened
    late           \* an answer to an earlier session came into this one

sheet == <<state, filled, isSubmitting, apiError, apiResponse>>
sending == <<request, about, orphans, outlived, accepted>>
formVars == <<isOpen, sheet, sending, agreed, late>>

-----------------------------------------------------------------------------
(* Variants: plausible mistakes in the code, none of which it makes.       *)

\* The sheet shows the form at once.
FormAtOnce == "form"

\* resetHook also resets isSubmitting.
SubmittingCleared == FALSE

\* Closing leaves the sheet in its state.
StateKept == state

\* Like fetch(), the client does not throw on an error status.
AnyStatus == {"accepted", "refused"}

\* setIsSubmitting(false) only after a success.
SubmittingAfterSuccess == apiResponse' = NoCve

-----------------------------------------------------------------------------
SheetInit ==
    /\ state = "idle" /\ filled = FALSE /\ isSubmitting = FALSE
    /\ apiError = "none" /\ apiResponse = NoCve

FormInit ==
    /\ isOpen = FALSE
    /\ SheetInit
    /\ request = "none" /\ about = NoCve /\ outlived = FALSE
    /\ orphans = {} /\ accepted = {}
    /\ agreed = FALSE /\ late = FALSE

\* What the two dialogs show.
Dialog ==
    CASE ~ isOpen \/ state = "idle" -> "none"
      [] isOpen /\ state = "confirming" -> "confirmation"
      [] isOpen /\ state \in {"form", "submitting"} -> "form"
      [] isOpen /\ state = "success" -> "preview"

-----------------------------------------------------------------------------
(* The user.                                                               *)

\* The first branch of the effect on isOpen.
StateAfterOpen == IF state = "idle" THEN "confirming" ELSE state

OpenSheet ==
    /\ ~ isOpen
    /\ isOpen' = TRUE
    /\ state' = StateAfterOpen
    /\ agreed' = FALSE
    /\ UNCHANGED <<filled, isSubmitting, apiError, apiResponse, sending, late>>

\* Continue.
HandleConfirm ==
    /\ Dialog = "confirmation"
    /\ state' = "form"
    /\ agreed' = TRUE
    /\ UNCHANGED <<isOpen, filled, isSubmitting, apiError, apiResponse, sending, late>>

SubmittingAfterClose == isSubmitting
StateAfterClose == "idle"

\* Cancel, Escape, the cross or a click beside the dialog, and the second
\* branch of the effect on isOpen.
CloseSheet ==
    /\ Dialog # "none"
    /\ isOpen' = FALSE
    /\ state' = StateAfterClose
    /\ filled' = FALSE
    /\ apiError' = "none"
    /\ apiResponse' = NoCve
    /\ isSubmitting' = SubmittingAfterClose
    /\ outlived' = (request # "none")
    /\ late' = FALSE
    /\ UNCHANGED <<request, about, orphans, accepted, agreed>>

\* The user edits the fields until they are valid, or invalid again.
EditFields ==
    /\ Dialog = "form"
    /\ filled' = ~ filled
    /\ UNCHANGED <<isOpen, state, isSubmitting, apiError, apiResponse, sending,
                   agreed, late>>

\* The Send button; an invalid form only shows its field errors.
HandleSubmit(cveId) ==
    /\ Dialog = "form" /\ filled /\ ~ isSubmitting
    /\ state' = "submitting"
    /\ isSubmitting' = TRUE
    /\ apiError' = "none"
    /\ request' = "sent" /\ about' = cveId /\ outlived' = FALSE
    /\ UNCHANGED <<isOpen, filled, apiResponse, orphans, accepted, agreed, late>>

-----------------------------------------------------------------------------
(* The server and its answers.                                             *)

\* The mail is queued and 200 is returned, or the request is refused.
SubmitHandled ==
    /\ request = "sent"
    /\ \/ request' = "accepted" /\ accepted' = accepted \union {about}
       \/ /\ "server" \in FormTroubles
          /\ request' = "refused" /\ UNCHANGED accepted
    /\ UNCHANGED <<isOpen, sheet, about, orphans, outlived, agreed, late>>

\* Nobody waits any more for a POST that the server may still take.
LeftBehind == IF request = "sent" THEN orphans \union {about} ELSE orphans

\* The server takes such a POST, or refuses it, or it never arrives.
OrphanHandled(c) ==
    /\ c \in orphans
    /\ orphans' = orphans \ {c}
    /\ accepted' \in {accepted, accepted \union {c}}
    /\ UNCHANGED <<isOpen, sheet, request, about, outlived, agreed, late>>

\* The answers for which axios.post returns instead of throwing.
Returned == {"accepted"}

SubmittingAfterAnswer == FALSE

Settle ==
    /\ isSubmitting' = SubmittingAfterAnswer
    /\ request' = "none" /\ about' = NoCve /\ outlived' = FALSE
    /\ late' = (late \/ outlived)
    /\ UNCHANGED <<isOpen, filled, accepted, agreed>>

SubmitSucceeds ==
    /\ request \in Returned
    /\ apiResponse' = about
    /\ state' = "success"
    /\ UNCHANGED <<apiError, orphans>>
    /\ Settle

\* The detail of a refusal: main.py flattens that of a 422 into a text.
Detail == "words"

\* Said of a request without an answer.
SubmissionFailed == "words"

SubmitFails ==
    /\ \/ request = "refused" /\ apiError' = Detail
       \/ /\ "lost" \in FormTroubles
          /\ request \in {"sent", "accepted"} /\ apiError' = SubmissionFailed
    /\ state' = "form"
    /\ orphans' = LeftBehind
    /\ UNCHANGED apiResponse
    /\ Settle

\* The page renders without the sheet: its state is gone, and the answer to a
\* request it has sent changes nothing any more.  The request goes on, and the
\* sheet that is mounted next knows nothing of it.
UnmountSheet ==
    /\ state' = "idle" /\ filled' = FALSE /\ isSubmitting' = FALSE
    /\ apiError' = "none" /\ apiResponse' = NoCve
    /\ request' = "none" /\ about' = NoCve /\ outlived' = FALSE
    /\ orphans' = LeftBehind
    /\ late' = FALSE
    /\ UNCHANGED <<isOpen, accepted, agreed>>

FormTypeOK ==
    /\ isOpen \in BOOLEAN /\ filled \in BOOLEAN /\ isSubmitting \in BOOLEAN
    /\ state \in {"idle", "confirming", "form", "submitting", "success"}
    /\ apiError \in {"none", "words"}
    /\ apiResponse \in Cves \union {NoCve}
    /\ request \in {"none", "sent", "accepted", "refused"}
    /\ about \in Cves \union {NoCve}
    /\ orphans \subseteq Cves /\ accepted \subseteq Cves
    /\ outlived \in BOOLEAN /\ agreed \in BOOLEAN /\ late \in BOOLEAN
=============================================================================
