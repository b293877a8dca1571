--------------------------- MODULE SerialTwistCtl ---------------------------
(***************************************************************************)
(* The node between /cmd_vel and the chassis: serial_twistctl_node.cpp.    *)
(* For each Twist it formats one text line and writes it SendAttempts      *)
(* times to the serial port.  It looks neither at the number of bytes      *)
(* written nor at the time since the last command, and its timer only      *)
(* logs.                                                                   *)
(*                                                                         *)
(* The chassis firmware is not in the repository.  It is taken to obey     *)
(* every complete line and to ignore a line that is the rest of a torn     *)
(* one followed by another.                                                *)
(***************************************************************************)
EXTENDS CmdVel

CONSTANTS
    SendAttempts,       \* send_attempts
    AngularZScale,      \* angular_z_scale
    MaxFaults           \* bound: writes that go wrong

ASSUME SerialAssumption ==
    SendAttempts \in Int /\ AngularZScale \in Int /\ MaxFaults \in Nat

VARIABLES
    node,        \* "starting", "idle" in the executor, "sending" in
                 \* twist_callback, or "down"
    heard,       \* a twist has come since the node subscribed
    current,     \* the twist being sent, the last one sent when idle
    attempt,     \* i, the attempts made for it
    torn,        \* the last bytes on the wire are an unfinished line
    chassis,     \* the velocity the chassis drives
    faults       \* writes that went wrong so far

SerialInit ==
    /\ node = "starting" /\ heard = FALSE /\ current = Zero /\ attempt = 0
    /\ torn = FALSE /\ chassis = Zero /\ faults = 0

(* formatTwistCommand: %.3f, here of millionths.  (A tie goes up here; in   *)
(* the code it goes where the binary fraction lies.)                        *)
Thousandths(speed) == ((speed + 500) \div 1000) * 1000
Line(twist) == [linear  |-> Thousandths(twist.linear),
                angular |-> Thousandths(twist.angular * AngularZScale)]

(* The constructor comes to its end.  What was published before the node    *)
(* subscribed never reaches it.                                             *)
Subscribe ==
    /\ node = "starting" /\ node' = "idle"
    /\ cmdVel' = <<>>
    /\ UNCHANGED <<heard, current, attempt, torn, chassis, faults>>

(* The log file or the port cannot be opened: the constructor throws and    *)
(* main ends.                                                               *)
StartFails ==
    /\ node = "starting" /\ node' = "down"
    /\ UNCHANGED <<cmdVel, heard, current, attempt, torn, chassis, faults>>

(* The executor hands a twist to twist_callback.                            *)
TwistCallback ==
    /\ node = "idle" /\ cmdVel # <<>>
    /\ current' = Head(cmdVel) /\ cmdVel' = Tail(cmdVel)
    /\ heard' = TRUE
    /\ attempt' = 0
    /\ node' = IF SendAttempts > 0 THEN "sending" ELSE "idle"
    /\ UNCHANGED <<torn, chassis, faults>>

(* Faulty: one round too few.                                               *)
FaultyEndAttempt ==
    /\ attempt' = attempt + 1
    /\ node' = IF attempt + 2 < SendAttempts THEN "sending" ELSE "idle"
    /\ UNCHANGED <<cmdVel, heard, current>>

(* The end of one round of the loop.  The port stays open until the node is *)
(* destroyed, so the loop's isOpen() test does not fail.                    *)
EndAttempt ==
    /\ attempt' = attempt + 1
    /\ node' = IF attempt + 1 < SendAttempts THEN "sending" ELSE "idle"
    /\ UNCHANGED <<cmdVel, heard, current>>

WriteLine ==
    /\ node = "sending"
    /\ chassis' = IF torn THEN chassis ELSE Line(current)
    /\ torn' = FALSE
    /\ UNCHANGED faults
    /\ EndAttempt

(* Serial::write reaches its timeout with none or some of the line written  *)
(* and returns a count nobody reads.                                        *)
WriteTimesOut ==
    /\ node = "sending" /\ faults < MaxFaults
    /\ faults' = faults + 1
    /\ torn' \in {torn, TRUE}
    /\ UNCHANGED chassis
    /\ EndAttempt

(* Serial::write throws; nothing catches it before main, which ends.        *)
WriteThrows ==
    /\ node = "sending" /\ faults < MaxFaults
    /\ faults' = faults + 1
    /\ torn' \in {torn, TRUE}
    /\ node' = "down"
    /\ UNCHANGED <<cmdVel, heard, current, attempt, chassis>>

SerialInterrupt ==
    /\ node # "down" /\ node' = "down"
    /\ UNCHANGED <<cmdVel, heard, current, attempt, torn, chassis, faults>>

SerialNext ==
    \/ Subscribe \/ StartFails
    \/ TwistCallback \/ WriteLine \/ WriteTimesOut \/ WriteThrows \/ SerialInterrupt

SerialTypeOK ==
    /\ node \in {"starting", "idle", "sending", "down"} /\ heard \in BOOLEAN
    /\ current \in Twist /\ chassis \in Twist
    /\ attempt \in 0..Larger(0, SendAttempts) /\ torn \in BOOLEAN /\ faults \in Nat

(* Sending a line several times makes up for writes that went wrong: a torn *)
(* line costs its own attempt and the one that completes it, so that more   *)
(* than twice as many attempts as faults leave the chassis with the         *)
(* velocity sent last.                                                      *)
RepetitionMasksFaults ==
    node = "idle" /\ SendAttempts > 2 * faults => chassis = Line(current)
=============================================================================
