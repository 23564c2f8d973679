------------------------------- MODULE Dialogs -------------------------------
(***************************************************************************)
(* The modal dialogs of the page (ui-utils.ts, renderer.ts).  Each kind    *)
(* has one overlay in the page, whose buttons hold the handlers of the     *)
(* dialog opened last; a stack of dialogs decides which one has the        *)
(* keyboard and where the focus goes when it closes.  Most are opened from *)
(* the page, which an overlay covers; an alert and the offer of an update  *)
(* answer something asynchronous, and may come over another dialog.        *)
(*                                                                         *)
(* The focus is on an element of the page or of an overlay, or on the body *)
(* (nowhere).  The dialog of an update also downloads and installs it      *)
(* (updates.go).                                                           *)
(***************************************************************************)
EXTENDS Naturals, Sequences, SequencesExt, FiniteSetsExt

CONSTANT MaxDialogs    \* bound: dialogs opened

DialogsAssumption == MaxDialogs \in Nat

VARIABLES
    stack,     \* dialogStack, the top last
    shown,     \* overlays displayed
    handler,   \* the dialog each overlay's button closes, 0: none
    focus,
    opened,    \* dialogs so far, their names
    pending,   \* dialogs whose promise is not resolved
    download,  \* of an update, as Go has it
    told,      \* its events, not yet at the page
    listening, \* the page listens to them
    home,      \* history: the focus when the first dialog of the stack opened
    mishaps    \* history: of Mishap

dialogVars == <<stack, shown, handler, opened, pending, home>>
vars == <<dialogVars, focus, download, told, listening, mishaps>>

(* In the order of the page: a later one lies over an earlier one.         *)
Overlays == <<"prompt", "update", "alert", "qr", "dns">>
Overlay == Range(Overlays)
Places == {"page", "body"} \cup Overlay
Depth(o) == CHOOSE i \in 1..Len(Overlays) : Overlays[i] = o
Ids == 1..MaxDialogs
Entries == [id: Ids, overlay: Overlay, restoreTo: Places]
Mishap == {"reused",     \* an overlay was opened while it was open
           "overtaken",  \* a dialog below another was closed
           "unheeded"}   \* an update's offer was closed while it downloads

TypeOK ==
    /\ stack \in Seq(Entries) /\ Len(stack) <= MaxDialogs
    /\ shown \in SUBSET Overlay /\ handler \in [Overlay -> {0} \cup Ids]
    /\ focus \in Places /\ home \in Places /\ opened \in 0..MaxDialogs
    /\ pending \in SUBSET Ids /\ mishaps \in SUBSET Mishap
    /\ download \in {"none", "offered", "running", "failed", "verified", "installing", "denied"}
    /\ told \in Seq({"complete", "error"}) /\ listening \in BOOLEAN

Init ==
    /\ stack = <<>> /\ shown = {} /\ handler = [o \in Overlay |-> 0]
    /\ focus \in {"page", "body"} /\ home = focus /\ opened = 0 /\ pending = {}
    /\ download = "none" /\ told = <<>> /\ listening = FALSE /\ mishaps = {}

(* trapFocus, and what the openers do around it.                           *)
trapFocus(o) ==
    /\ opened < MaxDialogs /\ opened' = opened + 1
    /\ stack' = Append(stack, [id |-> opened', overlay |-> o, restoreTo |-> focus])
    /\ shown' = shown \cup {o} /\ focus' = o
    /\ handler' = [handler EXCEPT ![o] = opened']
    /\ pending' = pending \cup {opened'}
    /\ home' = IF stack = <<>> THEN focus ELSE home
    /\ mishaps' = IF o \in shown THEN mishaps \cup {"reused"} ELSE mishaps
(* A click of the page: nothing of it can be reached under an overlay.     *)
OpenFromPage(o) ==
    /\ o \in {"prompt", "qr", "dns"} /\ shown = {} /\ trapFocus(o)
    /\ UNCHANGED <<download, told, listening>>
showAlert == trapFocus("alert") /\ UNCHANGED <<download, told, listening>>
(* checkForUpdates, once in the life of a page.                            *)
showUpdateModal ==
    /\ download = "none" /\ download' = "offered" /\ trapFocus("update")
    /\ UNCHANGED <<told, listening>>

(* The button of o, or what the code calls in its stead: o is hidden, its  *)
(* handlers are dropped (an update's stay, and do nothing more), and the   *)
(* dialog gives back the focus if it has it or nobody has.                 *)
GivenBack(d, o) == focus \in {o, "body"} /\ d.restoreTo \in {"page"} \cup (shown \ {o})
Released(d) == RemoveAt(stack, CHOOSE i \in DOMAIN stack : stack[i] = d)
Close(o) ==
    /\ o \in shown /\ handler[o] # 0
    /\ LET d == CHOOSE e \in ToSet(stack) : e.id = handler[o] IN
       /\ stack' = Released(d) /\ shown' = shown \ {o}
       /\ handler' = [handler EXCEPT ![o] = 0] /\ pending' = pending \ {d.id}
       /\ focus' = IF GivenBack(d, o) THEN d.restoreTo
                   ELSE IF focus = o THEN "body" ELSE focus
       /\ mishaps' = mishaps
            \cup (IF d # Last(stack) THEN {"overtaken"} ELSE {})
            \cup (IF o = "update" /\ download \in {"running", "verified"} /\ listening
                  THEN {"unheeded"} ELSE {})
    /\ UNCHANGED <<opened, home>>
DownloadKeeps == UNCHANGED <<download, told, listening>>

(* A button under the mouse: of the overlay that lies on top.  An update's *)
(* "later" is hidden while it downloads.                                   *)
LaterHidden == listening \/ download \in {"verified", "installing", "denied"}
InFront == CHOOSE o \in shown : \A p \in shown : Depth(p) <= Depth(o)
ClickClose ==
    /\ shown # {} /\ (InFront = "update" => ~LaterHidden)
    /\ Close(InFront) /\ DownloadKeeps
(* A click beside the buttons: the focus goes nowhere.                     *)
ClickBackdrop ==
    /\ shown # {} /\ focus' = "body" /\ UNCHANGED <<dialogVars, mishaps>> /\ DownloadKeeps
(* onDialogKeydown: Escape clicks the button of the dialog on top, hidden  *)
(* or not, and Tab brings the focus back into it.                          *)
EscapeReaches == stack # <<>> /\ Last(stack).overlay \in shown /\ handler[Last(stack).overlay] # 0
Escape == EscapeReaches /\ Close(Last(stack).overlay) /\ DownloadKeeps
Tab ==
    /\ stack # <<>> /\ Last(stack).overlay \in shown /\ focus' = Last(stack).overlay
    /\ UNCHANGED <<dialogVars, mishaps>> /\ DownloadKeeps
(* The user moves about the page, as long as no dialog has the keyboard.   *)
MoveFocus ==
    /\ stack = <<>> /\ shown = {} /\ focus' \in {"page", "body"} /\ focus' # focus
    /\ home' = focus' /\ UNCHANGED <<stack, shown, handler, opened, pending, mishaps>>
    /\ DownloadKeeps

(* "Update now": without a build to download the release's page opens and  *)
(* the dialog closes; with one, the download starts.                       *)
UpdateNow ==
    /\ shown # {} /\ InFront = "update" /\ download = "offered"
    /\ \/ Close("update") /\ DownloadKeeps
       \/ /\ download' = "running" /\ listening' = TRUE /\ UNCHANGED told
          /\ UNCHANGED <<dialogVars, focus, mishaps>>
(* DownloadAndInstallUpdate, a goroutine; it may be refused before it      *)
(* starts, which the page shows like an error.                             *)
Emit(event) == told' = Append(told, event) /\ UNCHANGED <<dialogVars, focus, mishaps, listening>>
DownloadFails == download = "running" /\ download' = "failed" /\ Emit("error")
DownloadVerified == download = "running" /\ download' = "verified" /\ Emit("complete")
InstallerStarts ==
    /\ download = "verified" /\ download' = "installing"
    /\ UNCHANGED <<dialogVars, focus, mishaps, told, listening>>
InstallerDenied == download = "verified" /\ download' = "denied" /\ Emit("error")

(* The first event ends the listening.  After "complete" the dialog closes *)
(* of itself, 1.5 s later; after an error its "later" is back.             *)
OnUpdateEvent ==
    /\ told # <<>> /\ told' = Tail(told) /\ listening' = FALSE /\ UNCHANGED download
    /\ UNCHANGED <<dialogVars, focus, mishaps>>
CloseWhenComplete ==
    /\ download \in {"verified", "installing", "denied"} /\ ~listening
    /\ "update" \in shown /\ Close("update") /\ DownloadKeeps

Next ==
    \/ \E o \in Overlay : OpenFromPage(o)
    \/ showAlert \/ showUpdateModal \/ ClickClose \/ ClickBackdrop \/ Escape \/ Tab \/ MoveFocus
    \/ UpdateNow \/ DownloadFails \/ DownloadVerified \/ InstallerStarts \/ InstallerDenied
    \/ OnUpdateEvent \/ CloseWhenComplete

Spec == Init /\ [][Next]_vars

(* As long as no overlay was opened twice, every dialog that has not been  *)
(* answered is on the stack, on screen, and holds its own buttons: Escape  *)
(* closes the one on top, and nothing else keeps the keyboard.             *)
EveryDialogCanEnd ==
    "reused" \notin mishaps =>
        /\ {d.id : d \in ToSet(stack)} = pending
        /\ \A d \in ToSet(stack) : d.overlay \in shown /\ handler[d.overlay] = d.id
        /\ shown = {d.overlay : d \in ToSet(stack)}
(* When the last dialog is gone the focus is where it was before the first *)
(* one, unless one was closed below another.                               *)
FocusComesBack ==
    stack = <<>> /\ mishaps \cap {"reused", "overtaken"} = {} => focus = home
(* The same of every dialog, as the comment on the stack has it: whichever *)
(* way dialogs are opened over each other, nobody waits for an answer that *)
(* cannot be given.                                                        *)
NobodyIsStranded == \A d \in ToSet(stack) : d.overlay \in shown
=============================================================================
