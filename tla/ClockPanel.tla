------------------------------ MODULE ClockPanel ------------------------------
(***************************************************************************)
(* The panel from which one employee clocks in and out on one day: the     *)
(* camera, the position and the submission (useAttendanceVerification,     *)
(* AttendanceVerificationPanel).                                           *)
(*                                                                         *)
(* The browser answers a request for the camera or the position when the   *)
(* person has allowed it, which may be after the panel has been left; a    *)
(* submission goes on when the panel is left.  Each visit of the page has  *)
(* a panel of its own.  Low accuracy counts as found, the reasons for a    *)
(* refusal are one, and the day is no day of leave.                        *)
(***************************************************************************)
EXTENDS Naturals

CONSTANTS
  None,
  MaxVisits,          \* bound: visits of the page
  MaxShots, MaxAsks   \* bounds: pictures, and requests for the position, in one visit

ASSUME ClockPanelAssumption == MaxVisits \in Nat /\ MaxShots \in Nat /\ MaxAsks \in Nat

VARIABLES
  visit,     \* the number of the visit, the last one when the panel is left
  panel,     \* state of the panel shown, or Left
  lit,       \* camera streams that run
  late,      \* those that were granted to a panel that had been left
  prompts,   \* visits whose request for the camera is not answered
  asks,      \* requests of this visit for the position that are not answered
  timers,    \* running timers of those requests, by their request
  crossed,   \* has one of this visit been made before the last was answered?
  today,     \* the answer of GET /attendance/today, or None: there is none, or the
             \* last fetch failed
  calls,     \* submissions under way
  clocked    \* the server's record of the day

panelVars == <<visit, panel, lit, late, prompts, asks, timers, crossed, today, calls, clocked>>

Left == [camera |-> "left", stream |-> None, photo |-> None, shots |-> 0,
         place |-> "idle", spot |-> None, asked |-> 0, timer |-> 0,
         media |-> None, submitting |-> FALSE]
InitialState == [Left EXCEPT !.camera = "idle"]
Shows == panel.camera # "left"

NotClocked == [in |-> None, out |-> None]

(* A picture, a fix or a stream is known by its visit and its number.      *)
Of(n) == <<visit, n>>

ClockPanelInit ==
  /\ visit = 0 /\ panel = Left
  /\ lit = {} /\ late = {} /\ prompts = {}
  /\ asks = {} /\ timers = {} /\ crossed = FALSE
  /\ today = None /\ calls = {} /\ clocked = NotClocked

deviceVars == <<lit, late, prompts>>
positionVars == <<asks, timers, crossed>>
dayVars == <<today, calls, clocked>>

----------------------------------------------------------------------------
(* The page is opened and left.                                            *)

Open ==
  /\ ~Shows /\ visit < MaxVisits
  /\ visit' = visit + 1 /\ panel' = InitialState
  /\ UNCHANGED <<deviceVars, positionVars, dayVars>>

(* Mutant of StopCamera: the tracks go on.                                 *)
DropStream == UNCHANGED lit

StopCamera == lit' = lit \ {panel.stream}

(* The effects' cleanup.  What the browser still answers for the position  *)
(* changes nothing any more.                                               *)
Unmount ==
  /\ Shows
  /\ StopCamera
  /\ panel' = Left /\ asks' = {} /\ timers' = {} /\ crossed' = FALSE
  /\ UNCHANGED <<visit, late, prompts, dayVars>>

(* A fetch that fails takes the day, the preview and the controls off the  *)
(* page, whatever was fetched before; the hook keeps its state, and its    *)
(* camera.                                                                 *)
FetchToday ==
  /\ Shows /\ today' \in {clocked, None}
  /\ UNCHANGED <<visit, panel, deviceVars, positionVars, calls, clocked>>

Controls == Shows /\ today # None

----------------------------------------------------------------------------
(* The camera.                                                             *)

StartCamera ==
  /\ Controls
  /\ panel.camera \in {"idle", "refused"} /\ panel.shots < MaxShots
  /\ StopCamera
  /\ panel' = [panel EXCEPT !.camera = "requesting", !.stream = None]
  /\ prompts' = prompts \cup {visit}
  /\ UNCHANGED <<visit, late, positionVars, dayVars>>

(* getUserMedia is answered.  The ref of a panel that was left still gets  *)
(* the stream, and nobody stops it.                                        *)
CameraGranted(v) ==
  LET ours == Shows /\ v = visit
      stream == <<v, IF ours THEN panel.shots + 1 ELSE MaxShots + 1>>
  IN
  /\ v \in prompts /\ prompts' = prompts \ {v}
  /\ lit' = lit \cup {stream}
  /\ late' = IF ours THEN late ELSE late \cup {stream}
  /\ panel' = IF ours THEN [panel EXCEPT !.camera = "active", !.stream = stream, !.photo = None]
              ELSE panel
  /\ UNCHANGED <<visit, positionVars, dayVars>>

CameraRefused(v) ==
  /\ v \in prompts /\ prompts' = prompts \ {v}
  /\ panel' = IF Shows /\ v = visit THEN [panel EXCEPT !.camera = "refused"] ELSE panel
  /\ UNCHANGED <<visit, lit, late, positionVars, dayVars>>

(* The picture stays, the stream is released.                              *)
Capture ==
  /\ Controls
  /\ panel.camera = "active" /\ panel.stream # None
  /\ StopCamera
  /\ panel' = [panel EXCEPT !.camera = "captured", !.stream = None,
                            !.photo = Of(panel.shots + 1), !.shots = @ + 1]
  /\ UNCHANGED <<visit, late, prompts, positionVars, dayVars>>

Retake ==
  /\ Controls
  /\ panel.camera = "captured"
  /\ StopCamera
  /\ panel' = [panel EXCEPT !.camera = "idle", !.stream = None, !.photo = None]
  /\ UNCHANGED <<visit, late, prompts, positionVars, dayVars>>

----------------------------------------------------------------------------
(* The position.                                                           *)

(* The button is never disabled; a timer that runs is not stopped, the ref *)
(* only forgets it.                                                        *)
RequestLocation ==
  LET n == panel.asked + 1 IN
  /\ Controls /\ n <= MaxAsks
  /\ panel' = [panel EXCEPT !.place = "requesting", !.asked = n, !.timer = n]
  /\ asks' = asks \cup {n} /\ timers' = timers \cup {n}
  /\ crossed' = (crossed \/ asks # {})
  /\ UNCHANGED <<visit, deviceVars, dayVars>>

PositionAnswered(n, next) ==
  /\ n \in asks /\ asks' = asks \ {n}
  /\ timers' = timers \ {panel.timer}
  /\ panel' = [next EXCEPT !.timer = 0]
  /\ UNCHANGED <<visit, crossed, deviceVars, dayVars>>

LocationFound(n) ==
  PositionAnswered(n, [panel EXCEPT !.place = "found", !.spot = Of(n)])
LocationFails(n) ==
  PositionAnswered(n, [panel EXCEPT !.place = "failed"])

LocationTimesOut(n) ==
  /\ n \in timers /\ timers' = timers \ {n}
  /\ panel' = [panel EXCEPT !.place = "timeout"]
  /\ UNCHANGED <<visit, asks, crossed, deviceVars, dayVars>>

----------------------------------------------------------------------------
(* The submission.                                                         *)

Complete ==
  /\ panel.camera \in {"active", "captured"} /\ panel.photo # None
  /\ panel.place = "found"

ClockedIn(day) == day.in # None /\ day.out = None

(* The button, by what was last fetched; the picture and the fix are those *)
(* of the render, the uploaded picture is kept for the visit.              *)
SubmitClock(kind) ==
  /\ Controls /\ Complete /\ ~panel.submitting
  /\ IF kind = "in" THEN today.in = None ELSE ClockedIn(today)
  /\ panel' = [panel EXCEPT !.submitting = TRUE]
  /\ calls' = calls \cup {[visit |-> visit, kind |-> kind, photo |-> panel.photo,
                           spot |-> panel.spot, media |-> panel.media]}
  /\ UNCHANGED <<visit, deviceVars, positionVars, today, clocked>>

EndCall(c) ==
  /\ calls' = calls \ {c}
  /\ panel' = IF Shows /\ c.visit = visit THEN [panel EXCEPT !.submitting = FALSE] ELSE panel
  /\ UNCHANGED <<visit, deviceVars, positionVars, today>>

UploadMedia(c) ==
  /\ c.media = None
  /\ calls' = (calls \ {c}) \cup {[c EXCEPT !.media = c.photo]}
  /\ panel' = IF Shows /\ c.visit = visit THEN [panel EXCEPT !.media = c.photo] ELSE panel
  /\ UNCHANGED <<visit, deviceVars, positionVars, today, clocked>>

(* clockIn keeps the evidence, clockOut the position alone; the server     *)
(* decides by its own record.                                              *)
Clock(c) ==
  /\ c.media # None
  /\ clocked' =
       CASE c.kind = "in" /\ clocked.in = None ->
              [clocked EXCEPT !.in = [by |-> c.visit, media |-> c.media, capturedAt |-> c.photo,
                                      spot |-> c.spot]]
         [] c.kind = "out" /\ ClockedIn(clocked) ->
              [clocked EXCEPT !.out = [by |-> c.visit, spot |-> c.spot]]
         [] OTHER -> clocked
  /\ EndCall(c)

(* The upload or the call fails before it reaches the server.              *)
SubmitFails(c) == UNCHANGED clocked /\ EndCall(c)

ClockPanelNext ==
  \/ Open \/ Unmount \/ FetchToday \/ StartCamera \/ Capture \/ Retake \/ RequestLocation
  \/ \E v \in prompts : CameraGranted(v) \/ CameraRefused(v)
  \/ \E n \in asks : LocationFound(n) \/ LocationFails(n)
  \/ \E n \in timers : LocationTimesOut(n)
  \/ \E kind \in {"in", "out"} : SubmitClock(kind)
  \/ \E c \in calls : UploadMedia(c) \/ Clock(c) \/ SubmitFails(c)

ClockPanelSpec == ClockPanelInit /\ [][ClockPanelNext]_panelVars

----------------------------------------------------------------------------
(* A camera runs only while the state of the panel that holds it is        *)
(* active, but for one that was granted when its panel had been left; an   *)
(* active panel has a camera that runs.  A failed fetch hides the preview  *)
(* of an active panel.                                                     *)
CameraReleased ==
  /\ lit \ late = IF panel.camera = "active" THEN {panel.stream} ELSE {}
  /\ \A s \in late : Shows /\ s[1] = visit => panel.stream # s

(* Unless requests for the position have crossed, the answered one leaves  *)
(* no timer behind that would undo what was found.                         *)
LocationSettles ==
  ~crossed /\ asks = {} => timers = {} /\ panel.place # "requesting"

(* What the day was clocked in with was captured, and located, in the one  *)
(* visit that sent it, and no picture is named that is older than the one  *)
(* sent: a picture that was taken again after an upload is not sent, only  *)
(* the time at which it was taken is.                                      *)
EvidenceOfVisit ==
  clocked.in # None =>
    /\ clocked.in.media[1] = clocked.in.by /\ clocked.in.capturedAt[1] = clocked.in.by
    /\ clocked.in.spot[1] = clocked.in.by
    /\ clocked.in.media[2] <= clocked.in.capturedAt[2]

(* The devices follow the panel, and the evidence is of one visit.         *)
PanelHolds == CameraReleased /\ LocationSettles /\ EvidenceOfVisit
=============================================================================
