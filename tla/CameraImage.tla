---------------------------- MODULE CameraImage ----------------------------
(***************************************************************************)
(* The way of a camera frame into a request: the message camera_publisher  *)
(* makes of it and what ros2_bridge.py of navida_deploy makes of an image  *)
(* message, its own or another publisher's.  Nothing here has state.  The  *)
(* outcomes are the frame kinds of RemoteController.                       *)
(*                                                                         *)
(* The data of a message is its number of bytes, NotGiven when the field   *)
(* cannot be turned into bytes; a picture is its size and where each pixel *)
(* comes from.                                                             *)
(***************************************************************************)
EXTENDS Integers

CONSTANT NotGiven    \* None, or a field that is not an integer

ASSUME NotGivenAssumption == NotGiven \notin Int

Encodings == {"mono8", "rgb8", "bgr8", "other"}
Image == [height : Int \cup {NotGiven}, width : Int \cup {NotGiven}, step : Int \cup {NotGiven},
          encoding : Encodings, data : Nat \cup {NotGiven}]

(* Faulty: the two dimensions of shape are exchanged.                       *)
FaultyPublished(height, width) ==
    [height |-> width, width |-> height, step |-> height * 3, encoding |-> "bgr8",
     data |-> height * width * 3]

(* _publish_frame: the message for a frame of OpenCV, whose tobytes() has   *)
(* three bytes per pixel, row after row.                                    *)
Published(height, width) ==
    [height |-> height, width |-> width, step |-> width * 3, encoding |-> "bgr8",
     data |-> height * width * 3]

-----------------------------------------------------------------------------
(* _encode_compressed_image.                                                *)
Channels(image) == IF image.encoding = "mono8" THEN 1 ELSE 3
ExpectedStep(image) == image.width * Channels(image)

(* Faulty: whatever step says.                                              *)
FaultyStride(image) == IF image.step = NotGiven THEN ExpectedStep(image) ELSE image.step

(* A step too small for a row is not believed.                              *)
Stride(image) ==
    IF image.step # NotGiven /\ image.step >= ExpectedStep(image) THEN image.step
    ELSE ExpectedStep(image)

(* The image is encoded, if OpenCV is there and can.                        *)
Encodable(image) ==
    /\ NotGiven \notin {image.data, image.height, image.width}
    /\ image.height > 0 /\ image.width > 0
    /\ image.encoding # "other"
    /\ image.data >= image.height * Stride(image)

(* Where reshape finds the bytes of a pixel.                                *)
PixelAt(image, row, column) == row * Stride(image) + column * Channels(image)

(* ros_image_to_observation: a JPEG, the bytes as they are, or none.  The   *)
(* bytes as they are do not pass for a JPEG.                                *)
RosImageToObservation(image, openCV) ==
    IF Encodable(image) /\ openCV THEN "jpeg"
    ELSE IF image.data # NotGiven THEN "invalid" ELSE "empty"

-----------------------------------------------------------------------------
(* Properties.                                                              *)

(* The picture the model is shown is the camera's: every frame of every     *)
(* size becomes a JPEG with the same rows and columns, whose pixels are the *)
(* camera's at the same place.                                              *)
PictureKept(height, width) ==
    LET image == Published(height, width) IN
    /\ RosImageToObservation(image, TRUE) = "jpeg"
    /\ image.height = height /\ image.width = width
    /\ \A row \in 0..(height - 1), column \in 0..(width - 1) :
            PixelAt(image, row, column) = 3 * (row * width + column)

(* Whatever an image message says of itself, no pixel of the picture lies   *)
(* outside of its data, and no byte belongs to two rows.                    *)
PixelsWithinData(image) ==
    Encodable(image) =>
        /\ \A row \in 0..(image.height - 1), column \in 0..(image.width - 1) :
                /\ PixelAt(image, row, column) >= 0
                /\ PixelAt(image, row, column) + Channels(image) <= image.data
        /\ \A row \in 1..(image.height - 1) :
                PixelAt(image, row - 1, image.width - 1) + Channels(image)
                    <= PixelAt(image, row, 0)
=============================================================================
