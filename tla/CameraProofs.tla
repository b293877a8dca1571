---------------------------- MODULE CameraProofs ----------------------------
(***************************************************************************)
(* The invariants of CameraPublisher for every number of candidates.       *)
(***************************************************************************)
EXTENDS CameraPublisher, TLAPS

(* While nothing changes, the candidates passed over are not readable, and  *)
(* no capture has lost its camera.                                          *)
PassedOver ==
    ~changed =>
        /\ ~broken
        /\ phase \in {"probe", "read"} =>
                Probing /\ \A c \in 1..device - 1 : ~Readable(c)

CameraInvariant == TypeOK /\ NothingOccupied /\ PassedOver /\ RightCamera

(* An explicit device keeps its name; auto stays auto, blanks or not.       *)
LEMMA NormalizedParameter ==
    ASSUME NEW raw \in CameraParameters
    PROVE  LET n == NormalizeCameraDevice(raw) IN
           /\ n.camera = raw.camera
           /\ n.spelling = "auto" => ~n.blanks
BY DEF NormalizeCameraDevice, CameraParameters

LEMMA CameraInit == Init => CameraInvariant
<1> SUFFICES ASSUME Init PROVE CameraInvariant
  OBVIOUS
<1>1. 1 \in Candidates
  BY CamerasAssumption DEF Candidates
<1>2. TypeOK
  BY <1>1 DEF Init, TypeOK, Phases
<1>3. NothingOccupied /\ PassedOver /\ RightCamera
  BY DEF Init, NothingOccupied, PassedOver, RightCamera
<1> QED BY <1>2, <1>3 DEF CameraInvariant

(* A turn of the loop that finds nothing readable.                          *)
LEMMA PassOver ==
    ASSUME CameraInvariant, phase \in {"probe", "read"}, NextCandidate, ~changed => ~Readable(device),
           UNCHANGED <<camera, parameter, last, context, changed>>,
           broken' \in BOOLEAN, ~changed => ~broken'
    PROVE  CameraInvariant'
<1> USE CamerasAssumption DEF Candidates
<1>1. TypeOK'
  BY DEF CameraInvariant, TypeOK, NextCandidate, LastCandidate, Phases
<1>2. NothingOccupied'
  BY DEF CameraInvariant, TypeOK, NothingOccupied, NextCandidate, LastCandidate
<1>3. Probing' = Probing /\ \A c : Readable(c)' = Readable(c)
  BY DEF Probing, Readable
<1>4. ~changed' => \A c \in 1..device : ~Readable(c)
  BY DEF CameraInvariant, PassedOver, TypeOK
<1>5. PassedOver'
  BY <1>3, <1>4 DEF CameraInvariant, PassedOver, TypeOK, NextCandidate, LastCandidate
<1>6. RightCamera'
  BY <1>3, <1>4 DEF CameraInvariant, PassedOver, RightCamera, TypeOK, NextCandidate, LastCandidate
<1> QED BY <1>1, <1>2, <1>5, <1>6 DEF CameraInvariant

LEMMA CameraStep == CameraInvariant /\ [Next]_vars => CameraInvariant'
<1> SUFFICES ASSUME CameraInvariant, [Next]_vars PROVE CameraInvariant'
  OBVIOUS
<1> USE CamerasAssumption DEF Candidates
<1>a. TypeOK /\ NothingOccupied /\ PassedOver /\ RightCamera
  BY DEF CameraInvariant
<1>p. ASSUME UNCHANGED <<camera, parameter>>
      PROVE  Probing' = Probing /\ \A c : Readable(c)' = Readable(c)
  BY <1>p DEF Probing, Readable
<1>1. CASE Start
  <2>1. /\ NormalizeCameraDevice(parameter).camera = parameter.camera
        /\ Probing => ~NormalizeCameraDevice(parameter).blanks
    BY <1>a, NormalizedParameter DEF TypeOK, Probing
  <2>2. TypeOK'
    BY <1>a, <1>1, <2>1 DEF TypeOK, Start, Phases, CameraParameters
  <2>3. NothingOccupied' /\ PassedOver' /\ RightCamera'
    BY <1>a, <1>1, <1>p, <2>1 DEF Start, NothingOccupied, PassedOver, RightCamera, Probing
  <2> QED BY <2>2, <2>3 DEF CameraInvariant
<1>2. CASE Probe
  <2>1. CASE camera[device] = "gone"
    <3>1. NextCandidate /\ UNCHANGED <<camera, parameter, broken, last, context, changed>>
      BY <1>2, <2>1 DEF Probe
    <3>2. phase \in {"probe", "read"} /\ ~Readable(device)
      BY <1>2, <2>1 DEF Probe, Readable
    <3> QED BY <3>1, <3>2, <1>a, PassOver DEF PassedOver, TypeOK
  <2>2. CASE camera[device] # "gone"
    <3>1. TypeOK' /\ NothingOccupied'
      BY <1>a, <1>2, <2>2 DEF TypeOK, NothingOccupied, Probe, Phases
    <3>2. PassedOver' /\ RightCamera'
      BY <1>a, <1>2, <2>2, <1>p DEF PassedOver, RightCamera, Probe
    <3> QED BY <3>1, <3>2 DEF CameraInvariant
  <2> QED BY <2>1, <2>2
<1>3. CASE ProbeRead
  <2>1. CASE ReadsFrame
    <3>1. TypeOK' /\ NothingOccupied'
      BY <1>a, <1>3, <2>1 DEF TypeOK, NothingOccupied, ProbeRead, Phases
    <3>2. PassedOver' /\ RightCamera'
      BY <1>a, <1>3, <2>1, <1>p DEF PassedOver, RightCamera, ProbeRead, ReadsFrame, Readable
    <3> QED BY <3>1, <3>2 DEF CameraInvariant
  <2>2. CASE ~ReadsFrame
    <3>1. NextCandidate /\ UNCHANGED <<camera, parameter, last, context, changed>> /\ broken' = FALSE
      BY <1>3, <2>2 DEF ProbeRead
    <3>2. phase \in {"probe", "read"} /\ (~changed => ~Readable(device))
      BY <1>3, <2>2, <1>a DEF ProbeRead, ReadsFrame, Readable, PassedOver
    <3> QED BY <3>1, <3>2, PassOver
  <2> QED BY <2>1, <2>2
<1>4. CASE OpenDevice
  <2>1. TypeOK' /\ NothingOccupied'
    BY <1>a, <1>4 DEF TypeOK, NothingOccupied, OpenDevice, Phases
  <2>2. PassedOver' /\ RightCamera'
    BY <1>a, <1>4, <1>p DEF PassedOver, RightCamera, OpenDevice, Readable
  <2> QED BY <2>1, <2>2 DEF CameraInvariant
<1>5. CASE PublishFrame
  <2>1. TypeOK' /\ NothingOccupied'
    BY <1>a, <1>5 DEF TypeOK, NothingOccupied, PublishFrame, Phases
  <2>2. PassedOver' /\ RightCamera'
    BY <1>a, <1>5, <1>p DEF PassedOver, RightCamera, PublishFrame
  <2> QED BY <2>1, <2>2 DEF CameraInvariant
<1>6. CASE Stop
  <2>1. TypeOK' /\ NothingOccupied'
    BY <1>a, <1>6 DEF TypeOK, NothingOccupied, Stop, Phases
  <2>2. PassedOver' /\ RightCamera'
    BY <1>a, <1>6 DEF PassedOver, RightCamera, Stop
  <2> QED BY <2>1, <2>2 DEF CameraInvariant
<1>7. CASE Interrupt
  <2>1. TypeOK' /\ NothingOccupied'
    BY <1>a, <1>7 DEF TypeOK, NothingOccupied, Interrupt, Phases
  <2>2. PassedOver' /\ RightCamera'
    BY <1>a, <1>7 DEF PassedOver, RightCamera, Interrupt
  <2> QED BY <2>1, <2>2 DEF CameraInvariant
<1>8. ASSUME NEW c \in Candidates, NEW to \in CameraStates, CameraChanges(c, to)
      PROVE  CameraInvariant'
  <2>1. TypeOK' /\ NothingOccupied'
    BY <1>a, <1>8 DEF TypeOK, NothingOccupied, CameraChanges
  <2>2. ~changed' => phase = "start" /\ ~changed /\ held = {}
    BY <1>a, <1>8 DEF CameraChanges, NothingOccupied
  <2>3. PassedOver' /\ RightCamera'
    BY <1>a, <1>8, <2>2 DEF PassedOver, RightCamera, CameraChanges
  <2> QED BY <2>1, <2>3 DEF CameraInvariant
<1>9. CASE UNCHANGED vars
  <2>1. TypeOK' /\ NothingOccupied' /\ PassedOver' /\ RightCamera'
    BY <1>a, <1>9, <1>p DEF vars, TypeOK, NothingOccupied, PassedOver, RightCamera
  <2> QED BY <2>1 DEF CameraInvariant
<1> QED
  BY <1>1, <1>2, <1>3, <1>4, <1>5, <1>6, <1>7, <1>8, <1>9 DEF Next, Node, Done

THEOREM CameraInvariantHolds == Spec => []CameraInvariant
BY CameraInit, CameraStep, PTL DEF Spec

(* Every reachable state of the camera node is well-typed.                  *)
THEOREM CameraTypeCorrect == Spec => []TypeOK
<1>1. CameraInvariant => TypeOK
  BY DEF CameraInvariant
<1> QED BY <1>1, CameraInvariantHolds, PTL

(* The search leaves no camera occupied (the finally of                     *)
(* resolve_camera_device, destroy_node).                                    *)
THEOREM NothingOccupiedHolds == Spec => []NothingOccupied
<1>1. CameraInvariant => NothingOccupied
  BY DEF CameraInvariant
<1> QED BY <1>1, CameraInvariantHolds, PTL

(* auto ends at the first readable candidate, a device that is named is the *)
(* one opened (resolve_camera_device).                                      *)
THEOREM RightCameraHolds == Spec => []RightCamera
<1>1. CameraInvariant => RightCamera
  BY DEF CameraInvariant
<1> QED BY <1>1, CameraInvariantHolds, PTL
=============================================================================
