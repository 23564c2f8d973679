------------------------------ MODULE QrCamera ------------------------------
(***************************************************************************)
(* The dialog that imports a QR code (renderer.ts): the camera is asked    *)
(* for, plays into a video element, and each frame of it is searched for a *)
(* code until one is found; or a picture is chosen.  The stream, the frame *)
(* requested next and the dialog's release are one variable each, while a  *)
(* click that waits for the camera goes on whatever happened meanwhile.    *)
(*                                                                         *)
(* Which code a picture holds is QRText's; here it is none, a server, a    *)
(* subscription's address, or something else.                              *)
(***************************************************************************)
EXTENDS Naturals, FiniteSets

CONSTANTS MaxStarts,   \* bound: clicks on the camera's button
          MaxFrames,   \* bound: frames searched
          MaxFiles     \* bound: pictures chosen

QrCameraAssumption ==
    MaxStarts \in Nat /\ MaxFrames \in Nat /\ MaxFiles \in Nat

VARIABLES
    modal,          \* the dialog is displayed
    clicks,         \* each click on the camera's button: where it has got to
    qrStream,       \* the click whose stream it is, 0: null
    live,           \* streams whose tracks run: the camera is on
    frames,         \* requested frames that have not come
    qrAnimationId,  \* one of them, or one that has come; 0: null
    requested,      \* frames so far, their names
    files,          \* pictures being read
    chosen,         \* pictures so far
    imports,        \* imports whose list of servers is being saved
    late            \* history: a stream came to a closed dialog, or to one that had another

cameraVars == <<clicks, qrStream, live, frames, qrAnimationId, requested, late>>
vars == <<modal, cameraVars, files, chosen, imports>>

Clicks == 1..MaxStarts
Codes == {"none", "server", "subscription", "other"}

TypeOK ==
    /\ modal \in BOOLEAN /\ late \in BOOLEAN
    /\ clicks \in [Clicks -> {"none", "asking", "playing", "scanning", "done"}]
    /\ qrStream \in {0} \cup Clicks /\ live \in SUBSET Clicks
    /\ requested \in 0..MaxFrames /\ qrAnimationId \in 0..MaxFrames
    /\ frames \in SUBSET (1..MaxFrames) /\ files \in 0..MaxFiles /\ chosen \in 0..MaxFiles
    /\ imports \in 0..(MaxFrames + MaxFiles)

Init ==
    /\ modal = FALSE /\ clicks = [k \in Clicks |-> "none"] /\ qrStream = 0 /\ live = {}
    /\ frames = {} /\ qrAnimationId = 0 /\ requested = 0
    /\ files = 0 /\ chosen = 0 /\ imports = 0 /\ late = FALSE

(* The video is paused, which fails a click that waits for it to play;     *)
(* clicks are left as in c.                                                *)
Paused(c) == [k \in Clicks |-> IF c[k] = "playing" THEN "done" ELSE c[k]]
(* Mutant: the frame requested last is cancelled, the stream left running. *)
stopFramesOnly(c, left) ==
    /\ clicks' = Paused(c) /\ frames' = left \ {qrAnimationId} /\ qrAnimationId' = 0
    /\ UNCHANGED <<live, qrStream, late>>
stopQrCamera(c, left) ==
    /\ clicks' = Paused(c) /\ frames' = left \ {qrAnimationId} /\ qrAnimationId' = 0
    /\ live' = live \ {qrStream} /\ qrStream' = 0 /\ UNCHANGED late
closeQrModal(left) == modal' = FALSE /\ stopQrCamera(clicks, left)

OpenModal ==
    /\ ~modal /\ modal' = TRUE /\ UNCHANGED <<cameraVars, files, chosen, imports>>
Close ==
    /\ modal /\ closeQrModal(frames) /\ UNCHANGED <<requested, files, chosen, imports>>

(* The camera's button; the permission may take as long as the user likes. *)
StartCamera ==
    /\ modal /\ \E k \in Clicks :
          /\ clicks[k] = "none" /\ \A j \in 1..(k - 1) : clicks[j] # "none"
          /\ stopQrCamera([clicks EXCEPT ![k] = "asking"], frames)
    /\ UNCHANGED <<modal, requested, files, chosen, imports>>
(* Setting the video's source fails whoever waits for the old one to play. *)
Granted(k) ==
    /\ clicks[k] = "asking" /\ clicks' = [Paused(clicks) EXCEPT ![k] = "playing"]
    /\ qrStream' = k /\ live' = live \cup {k} /\ late' = (late \/ ~modal \/ qrStream # 0)
    /\ UNCHANGED <<modal, frames, qrAnimationId, requested, files, chosen, imports>>
Denied(k) ==
    /\ clicks[k] = "asking" /\ clicks' = [clicks EXCEPT ![k] = "done"]
    /\ UNCHANGED <<modal, qrStream, live, frames, qrAnimationId, requested, late,
                   files, chosen, imports>>
Request(left) ==
    /\ requested < MaxFrames /\ requested' = requested + 1
    /\ frames' = left \cup {requested'} /\ qrAnimationId' = requested'
Plays(k) ==
    /\ clicks[k] = "playing" /\ clicks' = [clicks EXCEPT ![k] = "scanning"] /\ Request(frames)
    /\ UNCHANGED <<modal, qrStream, live, late, files, chosen, imports>>

(* handleQrImport up to its first await: a server is saved first, for a    *)
(* subscription the dialog closes at once, anything else is an alert.      *)
handleQrImport(code, left) ==
    \/ /\ code = "server" /\ imports' = imports + 1 /\ frames' = left
       /\ UNCHANGED <<modal, clicks, qrStream, live, qrAnimationId, late>>
    \/ code = "subscription" /\ closeQrModal(left) /\ UNCHANGED imports
    \/ /\ code = "other" /\ frames' = left
       /\ UNCHANGED <<modal, clicks, qrStream, live, qrAnimationId, late, imports>>
Saved ==
    /\ imports > 0 /\ imports' = imports - 1 /\ closeQrModal(frames)
    /\ UNCHANGED <<requested, files, chosen>>
(* A frame with a code is the last, unless the user starts again.          *)
scanQrFrame(f) ==
    /\ f \in frames
    /\ \/ \E code \in Codes \ {"none"} : handleQrImport(code, frames \ {f}) /\ UNCHANGED requested
       \/ /\ IF qrStream # 0 THEN Request(frames \ {f})
             ELSE frames' = frames \ {f} /\ UNCHANGED <<requested, qrAnimationId>>
          /\ UNCHANGED <<modal, clicks, qrStream, live, late, imports>>
    /\ UNCHANGED <<files, chosen>>

(* A picture: the camera stops, and what is read from the file is imported *)
(* whether or not the dialog is still there.                               *)
Upload ==
    /\ modal /\ chosen < MaxFiles /\ stopQrCamera(clicks, frames)
    /\ \/ files' = files + 1 /\ chosen' = chosen + 1
       \/ UNCHANGED <<files, chosen>>
    /\ UNCHANGED <<modal, requested, imports>>
FileIsRead ==
    /\ files > 0 /\ files' = files - 1 /\ UNCHANGED <<requested, chosen>>
    /\ \/ \E code \in Codes \ {"none"} : handleQrImport(code, frames)
       \/ UNCHANGED <<modal, clicks, qrStream, live, frames, qrAnimationId, late, imports>>

Next ==
    \/ OpenModal \/ Close \/ StartCamera \/ Saved \/ Upload \/ FileIsRead
    \/ \E k \in Clicks : Granted(k) \/ Denied(k) \/ Plays(k)
    \/ \E f \in frames : scanQrFrame(f)

Spec == Init /\ [][Next]_vars

(* The camera is on only for the dialog, and the dialog can turn off every *)
(* camera it has turned on; unless permission came when the dialog had     *)
(* closed, or when another click had been granted one.                     *)
CameraIsTheDialogs ==
    ~late => live \subseteq {qrStream} /\ (live # {} => modal) /\ Cardinality(frames) <= 1
(* ... and without the exception, which the code does not promise: a       *)
(* permission given late leaves the camera on behind a closed dialog.      *)
ClosedMeansOff == ~modal => live = {}
(* A frame whose code is of no use is the last, with the camera still on.  *)
OnMeansSearching == live # {} /\ qrStream # 0 /\ clicks[qrStream] = "scanning" => frames # {}
=============================================================================
