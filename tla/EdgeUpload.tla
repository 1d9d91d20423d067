------------------------------- MODULE EdgeUpload -------------------------------
(***************************************************************************)
(* The node of src/jetcar_edge/edge_upload_node.py: which algorithms the     *)
(* cloud is asked to run, whether frames are uploaded, which frames are held *)
(* back while the car moves, and when the controllers start and stop.        *)
(*                                                                         *)
(* The visual servo is replaced by its contract StopAndLook, which VisualServo *)
(* is shown to implement; the inspection by whether it is active.  Handlers  *)
(* are atomic.  A list of algorithms is the set of its members; results may   *)
(* come late, twice or never.                                               *)
(***************************************************************************)
EXTENDS FiniteSets, Naturals

CONSTANTS
  Similarity,       \* "yolov5-similarity"
  InspectionIds     \* INSPECTION_ALGORITHMS

ASSUME AlgorithmsAssumption == Similarity \notin InspectionIds

Algorithms == InspectionIds \union {Similarity}
Modes == {"off", "similarity", "inspection", "other"}

\* A list that a request may carry, itself perhaps empty, or {} for none.
Maybe(lists) == {{}} \union {{list} : list \in lists}
Masks == Maybe(SUBSET InspectionIds)
Lists == Maybe(SUBSET Algorithms)

VARIABLES
  algorithms,       \* _algorithm_ids
  uploadEnabled,    \* _upload_enabled, with the upload worker started or stopped
  url,              \* the algorithms in the worker's URL
  inflight,         \* _similarity_frame_inflight
  snapshot,         \* _snapshot_requested
  searchActive,     \* the search controller's active
  inspecting,       \* the inspection controller's active
  phase, rolling, seen,  \* the visual servo
  asked             \* history: similarity frames of this look not yet answered

Servo == INSTANCE StopAndLook

aiVars == <<algorithms, uploadEnabled, url>>
servoVars == <<phase, rolling, seen>>
vars == <<aiVars, inflight, snapshot, searchActive, inspecting, servoVars, asked>>

Init ==
  /\ algorithms \in SUBSET Algorithms
  /\ uploadEnabled = FALSE /\ url = algorithms
  /\ inflight = FALSE /\ snapshot = FALSE
  /\ searchActive = FALSE /\ inspecting = FALSE
  /\ Servo!Init
  /\ asked = 0
-----------------------------------------------------------------------------
(* Upload and algorithms                                                      *)

\* Fault: the URL is left to _set_ai_enabled, which returns early when the
\* upload is already enabled.
SetAlgorithmsKeepingUrl(new) ==
  /\ algorithms' = new
  /\ uploadEnabled' = (new # {})
  /\ url' = IF new # {} /\ ~uploadEnabled THEN new ELSE url

\* _set_ai_algorithms and the _set_ai_enabled it calls.
SetAlgorithms(new) ==
  /\ algorithms' = new
  /\ uploadEnabled' = (new # {})
  /\ url' = IF new # {} /\ (new # algorithms \/ ~uploadEnabled) THEN new ELSE url

\* A changed list forgets the frame in flight.
ForgetIf(b) ==
  /\ inflight' = (inflight /\ ~b)
  /\ asked' = IF b THEN 0 ELSE asked

AiEnable(enabled) ==
  /\ uploadEnabled # enabled
  /\ uploadEnabled' = enabled
  /\ url' = IF enabled THEN algorithms ELSE url
  /\ UNCHANGED <<algorithms, inflight, snapshot, searchActive, inspecting, servoVars, asked>>

StartSearch ==
  IF searchActive THEN UNCHANGED <<searchActive, servoVars>>
  ELSE searchActive' = TRUE /\ Servo!Begin

StopSearch ==
  IF searchActive THEN searchActive' = FALSE /\ Servo!End
  ELSE UNCHANGED <<searchActive, servoVars>>

HasInspection(list) == list \intersect InspectionIds # {}

OnAlgorithmIds(new) ==
  /\ SetAlgorithms(new)
  /\ ForgetIf(new # algorithms \/ new = {})
  /\ IF Similarity \in new THEN StartSearch ELSE StopSearch
  /\ inspecting' = HasInspection(new)
  /\ UNCHANGED snapshot

\* The lists a request of the phone may ask for: the one it names, blank or not,
\* else the one its mode stands for, else the one its mask spells, else none or
\* the present one.
Requested(mode, ids, mask) ==
  CASE ids # {}                          -> ids
    [] ids = {} /\ mode = "off"          -> {{}}
    [] ids = {} /\ mode = "similarity"   -> {{Similarity}}
    [] ids = {} /\ mode = "inspection"   -> {InspectionIds}
    [] ids = {} /\ mode = "other" /\ mask # {} -> mask
    [] OTHER                             -> {{}, algorithms}

\* A search that the mode starts and the empty list ends in the same call is not
\* seen from outside.
OnAppControl(mode, ids, mask) == \E new \in Requested(mode, ids, mask) :
  /\ SetAlgorithms(new)
  /\ ForgetIf(new # algorithms)
  /\ \/ new = {} /\ StopSearch
     \/ new # {} /\ mode = "similarity" /\ StartSearch
     \/ new # {} /\ mode # "similarity" /\ Similarity \notin new /\ StopSearch
     \/ mode # "similarity" /\ Similarity \in new /\ UNCHANGED <<searchActive, servoVars>>
  /\ inspecting' = HasInspection(new)
  /\ UNCHANGED snapshot

OnSnapshot ==
  /\ snapshot' = TRUE
  /\ UNCHANGED <<aiVars, inflight, searchActive, inspecting, servoVars, asked>>
-----------------------------------------------------------------------------
(* Frames                                                                     *)

Moving == phase \in {"turn", "drive", "approach", "settle"}

\* _should_upload_for_current_motion_state
MayUpload == Similarity \in algorithms => ~Moving /\ ~(phase = "look" /\ inflight)

\* Fault: a frame in flight is forgotten only when its result comes.
InflightAfterSticky(wanted, queued) ==
  IF queued /\ Similarity \in algorithms THEN TRUE ELSE inflight

\* Fault: a frame that is sent is not noted.
InflightAfterUnmarked(wanted, queued) ==
  inflight /\ ~(wanted /\ Similarity \in algorithms /\ Moving)

InflightAfter(wanted, queued) ==
  IF queued /\ Similarity \in algorithms THEN TRUE
  ELSE inflight /\ ~(wanted /\ Similarity \in algorithms /\ Moving)

\* A camera frame.  "due" says that the upload interval has passed, "encodes"
\* that encoding the image does not fail.
OnImage(due, encodes) ==
  LET wanted == uploadEnabled /\ due
      queued == wanted /\ MayUpload /\ encodes
  IN  /\ inflight' = InflightAfter(wanted, queued)
      /\ snapshot' = FALSE
      /\ asked' = IF phase = "look" /\ queued /\ Similarity \in algorithms
                  THEN asked + 1 ELSE asked
      /\ UNCHANGED <<aiVars, searchActive, inspecting, servoVars>>
-----------------------------------------------------------------------------
(* Results                                                                    *)

\* The target is found: stop_ai, and the end of the search.
Found == SetAlgorithms({}) /\ StopSearch

\* The servo goes on: to a turn, a drive or a pursuit, or it stops before an
\* obstacle, or ignores the result.
Follow ==
  /\ \/ Servo!Turn \/ Servo!Drive \/ Servo!Approach \/ Servo!Track \/ Servo!Block
     \/ UNCHANGED servoVars
  /\ UNCHANGED <<aiVars, searchActive>>

OnSimilarityResult ==
  /\ inflight' = FALSE /\ asked' = 0
  /\ \/ searchActive /\ (Found \/ Follow)
     \/ ~searchActive /\ UNCHANGED <<aiVars, searchActive, servoVars>>
  /\ UNCHANGED <<snapshot, inspecting>>

\* The result that completes the inspection; any other changes nothing here.
OnLastInspectionResult ==
  /\ inspecting /\ inspecting' = FALSE
  /\ SetAlgorithms({})
  /\ ForgetIf(algorithms # {})
  /\ UNCHANGED <<snapshot, searchActive, servoVars>>
-----------------------------------------------------------------------------
\* The timer: a timeout of the servo ends its phase, or gives up a target seen
\* before.  A car that is aligned, has arrived or stands before an obstacle has
\* no other timeout: an obstacle met before any target was seen is left only by
\* a result.
ServoTick ==
  /\ searchActive
  /\ \/ phase = "look" /\ (Servo!Turn \/ Servo!Drive)
     \/ Servo!Settle \/ Servo!Look \/ Servo!GiveUp
  /\ asked' = 0
  /\ UNCHANGED <<aiVars, inflight, snapshot, searchActive, inspecting>>

Next ==
  \/ \E enabled \in BOOLEAN : AiEnable(enabled)
  \/ \E new \in SUBSET Algorithms : OnAlgorithmIds(new)
  \/ \E mode \in Modes, ids \in Lists, mask \in Masks : OnAppControl(mode, ids, mask)
  \/ OnSnapshot
  \/ \E due, encodes \in BOOLEAN : OnImage(due, encodes)
  \/ OnSimilarityResult \/ OnLastInspectionResult
  \/ ServoTick

\* The phases that the timer ends: those of the contract's Progress, and an
\* approach, which only answers renew.  Of a car that is aligned, has arrived or
\* stands before an obstacle nothing is assumed.
Timed == {"look", "turn", "drive", "approach", "settle"}

\* The cloud answers frames: when none may be uploaded any more, answers run out.
AnswersRunOut == []<>MayUpload \/ <>[][~OnSimilarityResult]_vars

\* The timer ends the phases above; in a phase that comes again and again the
\* camera, which is much faster than the car, delivers a frame that is due.
Spec == /\ Init /\ [][Next]_vars
        /\ \A p \in Timed : WF_vars(phase = p /\ ServoTick)
        /\ \A p \in Servo!Phases : SF_vars(phase = p /\ OnImage(TRUE, TRUE))
        /\ AnswersRunOut
-----------------------------------------------------------------------------
(* Properties                                                                 *)

\* Every variable has its type.
TypeOK ==
  /\ algorithms \subseteq Algorithms /\ url \subseteq Algorithms
  /\ uploadEnabled \in BOOLEAN /\ inflight \in BOOLEAN /\ snapshot \in BOOLEAN
  /\ searchActive \in BOOLEAN /\ inspecting \in BOOLEAN
  /\ phase \in Servo!Phases /\ {rolling, seen} \subseteq BOOLEAN
  /\ asked \in Nat

\* While frames are uploaded the cloud runs the algorithms the node has: however
\* enabling, disabling, mode changes and endings of searches follow each other,
\* the URL of the upload worker is never that of an earlier list.
UrlFollowsAlgorithms == uploadEnabled => url = algorithms

\* While the car stands and looks it asks the cloud about one frame at a time:
\* between two frames of a look some answer came, or the list of algorithms
\* changed, or the look timed out.
OneFramePerLook == asked <= 1

\* A search is never shut off from the cloud: whatever answers are lost or late
\* and whatever phase the car is in, frames may be uploaded again, because each
\* phase that holds them back ends and a frame in flight is forgotten while the
\* car moves.
UploadsResume ==
  searchActive /\ uploadEnabled ~> MayUpload \/ ~searchActive \/ ~uploadEnabled

\* README.md:224-225 "Cloud upload still starts only after the phone sends a
\* non-empty algorithm list".
UploadNeedsAlgorithms == uploadEnabled => algorithms # {}

\* README.md:269-273: in a request for "road_inspection" with a mask "TF, FT, and
\* TT enable manhole, road-damage, or both algorithms. FF ... disables upload".
MaskSelectsAlgorithms == [][
  \A list \in SUBSET InspectionIds :
    OnAppControl("inspection", {}, {list}) => algorithms' = list ]_vars

\* README.md:294-296 "Edge then enables yolov5-similarity, uploads camera frames
\* to Cloud, and publishes /cmd_vel from Cloud's center_norm result": a search
\* has its algorithm.
SearchRunsItsAlgorithm == searchActive => Similarity \in algorithms
=============================================================================
