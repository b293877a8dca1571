--------------------------- MODULE CameraPublisher ---------------------------
(* The camera node: it picks a camera by opening the candidates one after the *)
(* other, opens the picked one again and publishes what a timer reads from it.*)
(* The cameras come, go and fall silent at any moment of that.                *)
EXTENDS Integers

CONSTANT Cameras       \* number of candidates /dev/video0, /dev/video1, ...

ASSUME CamerasAssumption == Cameras \in Nat \ {0}

Candidates == 1 .. Cameras

(* What the operating system shows of a camera: not there, there but without *)
(* a frame, or readable.                                                     *)
CameraStates == {"gone", "silent", "ready"}

(* The parameter camera_device: the word auto or a camera named by its path, *)
(* by a number or by the digits of one, possibly with blanks around a text.  *)
CameraParameters == [spelling : {"auto", "path", "digits", "number"}, blanks : BOOLEAN, camera : Candidates]

NormalizeCameraDevice(raw) ==
    CASE raw.spelling = "number" -> raw
      [] raw.spelling = "digits" -> [raw EXCEPT !.spelling = "number", !.blanks = FALSE]
      [] OTHER                   -> [raw EXCEPT !.blanks = FALSE]

VARIABLES
    camera,     \* the state of each camera
    parameter,  \* the parameter the node was started with
    phase,      \* where the node is
    device,     \* the candidate being probed, then the device in use
    held,       \* the cameras with a capture that is not released
    broken,     \* the capture in use lost its camera
    last,       \* what the last timer callback did
    context,    \* rclpy is initialised
    changed     \* history: a camera changed since the node was started

vars == <<camera, parameter, phase, device, held, broken, last, context, changed>>

Phases == {"start", "probe", "read", "open", "running", "failed", "ended"}

TypeOK ==
    /\ camera \in [Candidates -> CameraStates]
    /\ parameter \in CameraParameters
    /\ phase \in Phases
    /\ device \in Candidates
    /\ held \subseteq Candidates
    /\ broken \in BOOLEAN
    /\ last \in {"none", "published", "failed"}
    /\ context \in BOOLEAN
    /\ changed \in BOOLEAN

Init ==
    /\ camera \in [Candidates -> CameraStates]
    /\ parameter \in CameraParameters
    /\ parameter.spelling = "number" => ~parameter.blanks
    /\ phase = "start"
    /\ device = 1
    /\ held = {}
    /\ broken = FALSE
    /\ last = "none"
    /\ context = FALSE
    /\ changed = FALSE

------------------------------------------------------------------------------
(* The node. *)

Probing == NormalizeCameraDevice(parameter).spelling = "auto"

(* rclpy.init and the parameter: a device named in it is not probed. *)
Start ==
    LET normalized == NormalizeCameraDevice(parameter) IN
    /\ phase = "start"
    /\ context' = TRUE
    /\ IF normalized.spelling = "auto" /\ ~normalized.blanks
         THEN phase' = "probe" /\ device' = 1
         ELSE phase' = "open" /\ device' = normalized.camera
    /\ UNCHANGED <<camera, parameter, held, broken, last, changed>>

(* Faulty: that the device can be opened is taken for enough. *)
FaultyReadsFrame == TRUE

ReadsFrame == camera[device] = "ready" /\ ~broken

LastCandidate == device = Cameras

(* Faulty: a candidate that gave no frame stays open. *)
FaultyNextCandidate ==
    /\ IF LastCandidate
         THEN phase' = "failed" /\ UNCHANGED device
         ELSE phase' = "probe" /\ device' = device + 1
    /\ UNCHANGED held

(* The end of one turn of the loop: the capture is released, whatever came   *)
(* of it, and the next candidate is tried; after the last one the node       *)
(* raises out of main, before the block that would shut rclpy down.          *)
NextCandidate ==
    /\ held' = held \ {device}
    /\ IF LastCandidate
         THEN phase' = "failed" /\ UNCHANGED device
         ELSE phase' = "probe" /\ device' = device + 1

(* A turn of the loop that opens the candidate. *)
Probe ==
    /\ phase = "probe"
    /\ IF camera[device] = "gone"
         THEN NextCandidate
         ELSE phase' = "read" /\ held' = held \cup {device} /\ UNCHANGED device
    /\ UNCHANGED <<camera, parameter, broken, last, context, changed>>

(* It reads one frame; the first candidate that gives one is returned. *)
ProbeRead ==
    /\ phase = "read"
    /\ IF ReadsFrame
         THEN phase' = "open" /\ held' = held \ {device} /\ UNCHANGED device
         ELSE NextCandidate
    /\ broken' = FALSE
    /\ UNCHANGED <<camera, parameter, last, context, changed>>

(* The device is opened again, to stay. Only isOpened is asked, no frame is  *)
(* read. A device that cannot be opened makes the construction raise.        *)
OpenDevice ==
    /\ phase = "open"
    /\ IF camera[device] = "gone"
         THEN phase' = "failed" /\ UNCHANGED held
         ELSE phase' = "running" /\ held' = held \cup {device}
    /\ UNCHANGED <<camera, parameter, device, broken, last, context, changed>>

(* The timer: a frame that cannot be read is warned about and nothing else. *)
PublishFrame ==
    /\ phase = "running"
    /\ last' = IF ReadsFrame THEN "published" ELSE "failed"
    /\ UNCHANGED <<camera, parameter, phase, device, held, broken, context, changed>>

(* Ctrl-C in spin: destroy_node releases the capture, rclpy is shut down. *)
Stop ==
    /\ phase = "running"
    /\ phase' = "ended"
    /\ held' = held \ {device}
    /\ context' = FALSE
    /\ UNCHANGED <<camera, parameter, device, broken, last, changed>>

(* Ctrl-C in the construction of the node: only the finally of the loop runs. *)
Interrupt ==
    /\ phase \in {"probe", "read", "open"}
    /\ phase' = "ended"
    /\ held' = held \ {device}
    /\ UNCHANGED <<camera, parameter, device, broken, last, context, changed>>

------------------------------------------------------------------------------
(* The cameras. A capture whose camera went away gives no frame any more,    *)
(* not even when the camera is back.                                         *)
CameraChanges(c, to) ==
    /\ phase \notin {"failed", "ended"}
    /\ camera[c] # to
    /\ camera' = [camera EXCEPT ![c] = to]
    /\ broken' = (broken \/ (c \in held /\ to = "gone"))
    /\ changed' = (changed \/ phase # "start")
    /\ UNCHANGED <<parameter, phase, device, held, last, context>>

Node == Start \/ Probe \/ ProbeRead \/ OpenDevice \/ PublishFrame

Done == phase \in {"failed", "ended"} /\ UNCHANGED vars

Next ==
    \/ Node
    \/ Stop
    \/ Interrupt
    \/ \E c \in Candidates, to \in CameraStates : CameraChanges(c, to)
    \/ Done

Spec == Init /\ [][Next]_vars

------------------------------------------------------------------------------
(* At most one capture is open, the one of the candidate under the probe or  *)
(* of the device in use: no turn of the loop leaves a camera occupied, so    *)
(* the second opening of the chosen one finds it free, and none is occupied  *)
(* once the node is over.                                                    *)
NothingOccupied == held = (IF phase \in {"read", "running"} THEN {device} ELSE {})

Readable(c) == camera[c] = "ready"

(* While no camera changes, auto ends at the first readable candidate and    *)
(* fails only when there is none; a device that is named is the one opened,  *)
(* however it is spelled, and fails only when it is not there.               *)
RightCamera ==
    ~changed =>
       /\ phase \in {"open", "running"} =>
            IF Probing
              THEN Readable(device) /\ \A c \in 1 .. device - 1 : ~Readable(c)
              ELSE device = parameter.camera
       /\ phase = "failed" =>
            IF Probing THEN \A c \in Candidates : ~Readable(c) ELSE camera[parameter.camera] = "gone"
==============================================================================
