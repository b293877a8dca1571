------------------------------ MODULE Vehicle ------------------------------
(***************************************************************************)
(* The vehicle: the controller and the serial node, joined by /cmd_vel.    *)
(* The serial node is the subscriber RemoteController leaves abstract.     *)
(***************************************************************************)
EXTENDS RemoteController, SerialTwistCtl

serialVars == <<node, heard, current, attempt, torn, chassis, faults>>
vehicleVars == <<vars, serialVars>>

VehicleInit == Init /\ SerialInit

OtherVars == <<cameraVars, phase, exchangeVars, learntVars, clockVars,
               lastTwist, armed, commandAge>>

VehicleNext ==
    \/ (Controller \/ Arrivals \/ Tick) /\ UNCHANGED serialVars
    \/ SerialNext /\ UNCHANGED OtherVars

VehicleSafety == VehicleInit /\ [][VehicleNext]_vehicleVars

(* The serial node's executor and its writes go on while the node runs.     *)
VehicleSpec ==
    /\ VehicleSafety
    /\ WF_vehicleVars(Tick /\ UNCHANGED serialVars)
    /\ WF_vehicleVars(EndPulse /\ UNCHANGED serialVars)
    /\ WF_vehicleVars(InferenceFails /\ UNCHANGED serialVars)
    /\ WF_vehicleVars((RejectReply \/ AnswerWithHalt \/ StartPulse) /\ UNCHANGED serialVars)
    /\ SF_vehicleVars(OnWatchdogTimer /\ UNCHANGED serialVars)
    /\ WF_vehicleVars((Subscribe \/ TwistCallback \/ WriteLine) /\ UNCHANGED OtherVars)

-----------------------------------------------------------------------------
(* As long as no write went wrong, the chassis drives the velocity the      *)
(* controller published last, or that velocity is on its way: neither the   *)
(* queue, however full, nor repeated sending loses or reorders the end of a *)
(* motion.  A chassis whose node missed everything so far, because the      *)
(* controller was up earlier, stands still.                                 *)
ChassisFollows ==
    SendAttempts > 0 /\ faults = 0 /\ node \in {"idle", "sending"} =>
        CASE cmdVel # <<>>    -> cmdVel[Len(cmdVel)] = lastTwist
          [] cmdVel = <<>> /\ node = "sending" -> current = lastTwist
          [] cmdVel = <<>> /\ node = "idle"    ->
                chassis = IF heard THEN Line(lastTwist) ELSE Zero

(* However the writes go wrong, if they do so only finitely often the       *)
(* chassis comes to rest again, unless one of the nodes is gone.  The halt  *)
(* that ends a pulse may be lost on the wire; it is the watchdog's halts    *)
(* that follow it which stop the robot.                                     *)
ChassisComesToRest ==
    (chassis # Zero) ~> (chassis = Zero \/ phase = "down" \/ node = "down")
=============================================================================
