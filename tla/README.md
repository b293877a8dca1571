# Verification of the VLN vehicle stack

TLA+ models of the programs in this repository that drive a robot with a remote
vision-language model, the TLC configurations that check them, and proofs about
them that TLAPS checks.  The modules are translated from the source; the docs
are only quoted where the code does something else (see *Findings*).

## 1. The system

| Part | State it keeps | Operations | Talks to |
| --- | --- | --- | --- |
| Vehicle controller `navida_vehicle/remote_controller.py` with `navida_deploy/{control,targeting,twist_bridge,frame_history}.py` | step index, time of the last inference, frame history, watchdog | image callback, watchdog timer, start and end of the node | camera topic, HTTP service, `/cmd_vel` |
| Serial node `serial_twistctl_node.cpp`, `twist_command.hpp` | the open port | twist callback with its send loop, logging timer | `/cmd_vel`, serial port |
| Camera publisher `camera_publisher.py` | capture device | search for a camera, opening it, timer callback: read and publish, end of the node | camera topic |
| HTTP client `http_client.py`, `ros2_bridge.py` | none | `post_inference`, image conversion | HTTP service |
| Wire protocol `codec.py`, `validation.py`, `messages.py` | none | encode, decode, validate | both ends of HTTP |
| Inference service `http_service.py` | the backend, one thread per connection | GET, POST | clients, backend |
| Backends `hf_backend.py`, `backend.py`, `chunking.py` | lazily loaded model, processor, detector | `infer`, text parsers | service |
| Serial library (vendored) | descriptor, two mutexes | open, read, write, close | serial node |
| Generic bridge node `ros2_node.py` | none | a frame to commands, or to twists | gateway |
| Point cloud tools `pointcloud_player.py`, `csv_to_pcd.py` | none once a log is read | read a CSV log, show it, write a `.pcd` | |
| Scripts | none | start-up, demo | |

Hard behaviours: everything in the controller runs on one executor thread, so a
blocking HTTP exchange and the sleep of a pulse keep the watchdog out; answers
may be late, wrong, stale or missing; frames the service refuses get into the
history; queues overflow; the node may be interrupted half-way through a pulse;
serial writes may be partial; handler threads of the service share a lazily
loaded model.

### Components, in the order in which the plan takes them

**Vehicle controller.** *State*: `_step_index`, `_last_inference_time_s`,
`_frame_history` (a deque), the watchdog's last command time, and, implicitly,
where its only thread is.  *Operations*: `_on_image` (rate limit, request,
answer or exception, command, pulse, history), `_on_watchdog_timer`,
`_publish_velocity_pulse`, the end of `main`.  *Interaction*: takes frames from
a topic queue, blocks in one HTTP exchange per frame, publishes velocities.
*Hard*: one thread for everything, blocking calls, wrong and stale answers,
frames that are refused, full queues, interruption half-way.  *Correct if*: the
robot is commanded to stand still unless an accepted answer has just moved it,
one answer moves it once and briefly, no velocity leaves the limits, the frames
sent are in order, one bad frame does not lock it up, and it never falls silent
for good.

**Pure control code** (`control.py`, `targeting.py`, `twist_bridge.py`,
`frame_history.py`): no state; response to commands, clamp, visual servo.
*Correct if* it respects the limits, steers towards the target, and the single
command the controller uses is the first of the list.

**Serial chassis node.** *State*: the port.  *Operations*: `twist_callback`
with its loop of `send_attempts` writes.  *Hard*: partial writes, exceptions
nobody catches, a queue that drops the oldest commands.  *Correct if* the
chassis ends up with the velocity commanded last although writes go wrong.

**Wire protocol.** No state; encode, decode, validate on both sides.  *Hard*:
two sides with separate checks, defaults for old peers.  *Correct if* what one
side may send the other accepts and reads back unchanged, and what is accepted
can be executed.

**Inference service.** *State*: one thread per connection, one shared backend.
*Operations*: `do_GET`, `do_POST` with its refusals, error mapping and writes.
*Hard*: threads that share lazily loaded attributes without a lock, clients
that leave, a second reply after a failed first, computations that hang.
*Correct if* no thread uses a half-loaded model, each client gets one reply and
its own answer, and calls end.

**Model backends.** *State*: model, processor, detector (lazily loaded).
*Operations*: `infer`, `load`, the parsers of the generated text,
`chunk_atomic_actions`, the choice among detections.  *Hard*: three parsers in
turn over overlapping text, numbers at their limits, detections without boxes.
*Correct if* every text becomes an answer the service may send and what drives
is the model's answer, or the one JSON object of its text, never other words of
its reasoning.

**HTTP client and the deployment it makes.** *State*: one connection per
request, on both ends.  *Operations*: `post_inference` from `urlopen` to the end
of its `with` statement.  *Hard*: a request may be lost, an answer may come
after the timeout, the next attempt at the step carries the same session and
step while the service still computes the answer to the last one, the service
may be restarted in between.  *Correct if* the controller acts only on the
answer to the very frame it is asking about, uses each answer it gets, and
sends nothing the service refuses.  The last does not hold: nothing in the
client bounds the length of a body (see *Findings*), and what is stated is that
the length is the only reason left.

**Camera publisher.** *State*: the captures that are open, the device chosen.
*Operations*: the search over the candidates, the second opening of the chosen
one, the timer, Ctrl-C.  *Hard*: cameras that come, go or fall silent between
the probe and the opening; a probe that fails half-way.  *Correct if* no camera
stays occupied and the right one is chosen.

**Point cloud tools.** Two separate loops over the rows of a log with their own
conventions for the limit.  *Correct if* they agree about what is in a log.

**Launch, serial library, scripts**: see *Not modelled*.

## 2. The modules

```
Motion ─┬─ Control ──────────┬─ RemoteController ──┬─ TimedController
        └─ CmdVel ───────────┤     │ implements    ├─ Vehicle (with SerialTwistCtl)
             └ SerialTwistCtl│   SafeMotion        └─ Deployment (with InferenceService)
Protocol ──┬─ InferenceService                          │ implements both
   Lists ──┴─ ActionText ──┐
CameraImage, PointCloud ───┴─ Messages (with Control)
CameraPublisher
```

| Module | Models | Its state or operators in the code |
| --- | --- | --- |
| `Motion` | shared by the rest | Python's and C++'s `min`, `max`, comparisons with NaN; `Twist`; `deque(maxlen)` and KEEP_LAST queues |
| `CmdVel` | the topic between the two nodes | `cmdVel`, the queue of its one subscriber |
| `Control` | the pure control code and the functions of the bridge node | one operator per function: `ActionChunkToVelocityCommand`, `ClampVelocityCommand`, `ResponseToVelocityCommands`, `TargetCommand`, `VelocityCommandToPulse`, `ProcessFrame`, ... |
| `RemoteController` | the controller node | a variable per attribute; `phase` is where the thread is inside `_on_image`.  A callback that blocks is one action up to the blocking call and one per way it returns: `BeginInference`, then `InferenceFails`, `RejectReply`, `AnswerWithHalt` or `StartPulse`, then `EndPulse`.  `SkipImage` and `RefuseRequest` are the callbacks that do not block |
| `SafeMotion` | the abstract promise to `/cmd_vel` | `twist`, `accepted`, `up`, mapped to `lastTwist`, `stepIndex`, `phase # "down"` |
| `TimedController` | the controller and the camera's timer on a quick machine | adds when time may pass, the HTTP timeout of each socket operation (`NextOperation` starts it anew), and the age of each frame |
| `SerialTwistCtl` | the serial node | `Subscribe` and `StartFails` end the constructor, `TwistCallback` is the callback's start, `WriteLine`, `WriteTimesOut`, `WriteThrows` are the ways one `write` ends |
| `Vehicle` | the launch file's wiring | the two nodes, coming up in either order, with the topic queue between them: `TwistCallback` is the `TakeTwist` that `RemoteController` leaves abstract |
| `Protocol` | `codec.py`, `validation.py`, `messages.py`, the outcomes of `post_inference` | one operator per function; a function that may raise is the first error of the checks it makes, in their order |
| `InferenceService` | `http_service.py` and the loading in `hf_backend.py` | `phase[c]` is where the thread of connection `c` is; each store and each load of a shared attribute is a step; `Stop` and `Start` end the process and bring up the next one |
| `Deployment` | the vehicle and the service over HTTP | the service is an instance of `InferenceService`; the request about frame *i* has connection *i* to itself.  `Ask` is `urlopen` with or without a connection, `HearReply` is what `RemoteController` leaves open as `ServerReplies`, `HangUp` closes the connection when `post_inference` is left |
| `CameraPublisher` | the camera node | `phase` is where `main` is; each call of OpenCV is a step, `CameraChanges` is the world in between |
| `ActionText` | the pure part of `hf_backend.py` (pictures of the prompt, parsers, detections) and `chunking.py` | one operator per function |
| `CameraImage` | `_publish_frame` of the camera publisher, image conversion of `ros2_bridge.py` | an image message is five independent numbers; its outcome is the frame kind of `RemoteController` |
| `PointCloud` | the loops of the point cloud tools | one operator per function |
| `Lists` | lists as comprehensions and `extend` build them, for `ActionText`, `PointCloud` and `Messages` | a recursive function over the positions each |
| `Messages` | | the kinds of message the pure operators are given (`WellTyped`), what must come of each, and the reference definitions they are compared with |
| `MC...` | | values for TLC |
| `...Proofs` | | theorems |

Three abstractions matter to a reader.  Text is a member of a small set told
apart as the checks do (something in it, blank, of the wrong type).  Images are
a size and whether they look like a JPEG, which takes two bytes at the start and
two others at the end, so that no JPEG is shorter than four bytes.  Numbers are integers in a grid that
makes the code's `round(..., 6)` exact, with `NaN` as a value of its own where
JSON may carry it; an infinity acts like a number beyond every limit, and other
floating-point rounding is left out.  A generated text is what its braces hold
before and after the answer element opens, and the phrases before and in it.

Definitions called `Faulty...` are variants of the definition that follows them
with a plausible bug.  Nothing uses them but the check that a property would
notice the bug.

## 3. The runs

| Run | Question | Bounds |
| --- | --- | --- |
| `messages` | What one side sends the other takes unchanged; what is accepted can be executed; the parsers, merging, first command and visual servo against reference definitions | messages that differ in at most 3 members from a good one (`MaxChanges`), lists of up to 5 actions, 2 images, 2 phrases, 2 detections, 3 rows of a log; frames of up to 6 by 6 pixels |
| `controller_safety` | Which velocity may be on the topic when; order and recovery of the frames; what may set the robot in motion | 5 frames, queues of 2, history of 2, eight kinds of answer, one with a NaN |
| `timed_controller` | How long a motion and a silence may last, and how old the picture is that a motion is about | the defaults' proportions: pulse 4 ticks, watchdog 5, rate limit 5, camera 3; HTTP timeout 4 instead of 200, two socket operations (`MaxOperations`); one read of the camera may fail |
| `vehicle` | What the chassis drives, with faults on the wire; callbacks return, the topic never falls silent for good, the chassis comes to rest; `SafeMotion` is implemented with its liveness | 2 frames, 3 attempts, 2 faults |
| `service` | Two threads, every refusal, failure, kind of answer and departure, restarts; every call ends, nobody waits for a hanging computation | 2 connections |
| `deployment` | Whose answer the controller acts on, whether it is used, and what a request may be refused for | 3 frames and a connection for each, history and queue of 1; the last frame is within the limit of a picture, but too long together with its history |
| `camera` | Which camera is chosen and which are occupied while they change | 3 candidates, every state of each at every moment, every spelling of the parameter |
| `finding_...` | see *Findings* | |

*Why the bounds are enough.*  A history of two and queues of two overflow, drop
and wrap within five frames, and the invariants relate at most a frame to its
neighbours in the history; the proofs lift the bound for all the safety
properties of the controller.  `AgeCap` (where a clock saturates) is above every
threshold that is compared with it.  Two faults against three attempts leave the
case where repetition is *not* enough (`SendAttempts > 2 * faults` fails) and only
the watchdog's halts stop the chassis, and with one fault the case where it is;
the theorem lifts both numbers.  Two threads are enough for every race about an
attribute that is only ever stored non-`None`, and the proofs hold for any
number.  Three frames are enough for what `deployment` asks: one request whose
computation is orphaned by a timeout, a lost connection or a restart, a second
attempt at the same step, and a third with a history that is too long; the proofs
hold for any number of frames and connections.  Two socket operations of an
exchange are the least that tell its length from the timeout; the theorems hold
for any number of them.
Three candidates are one before, one at and one after the camera chosen.
Three changed members are what the checks combine at most; `ValuesAreMessages`
says that every input of the run is one that the theorems speak about.  The systems of the
runs that are behaviours can really stop (the node may be interrupted, the
process ended, each connection carries one call, the camera has a bounded
number of frames), so deadlock is not checked there; the liveness properties
say what must not get stuck.  `camera` checks it, with the end of the node as
an action of its own; the states of `messages` are inputs, and it stops when
all changes are made.

Type invariants are checked in `controller_safety`; for the service, the serial
node and the camera they are part of what is proved (section 4).

*Fairness, and why the code justifies it.*  Controller: time passes; `sleep`
returns; `urlopen` returns or raises because its timeout bounds every socket
operation and a reply is finite; what it returned is handled; and the executor serves a timer that is
due *again and again* (strong fairness, because image callbacks may run in
between: a `SingleThreadedExecutor` visits the ready timers in each round).
Nothing is assumed of the camera, and of the service only that it does not send
one reply for ever: a reply that trickles, each part within the timeout, would
keep the thread in `response.read`.  The serial node's
constructor comes to its end, its executor and its writes go on.  The service:
the operating system runs every thread, a client that stays sends the body it
announced, a computation that does not hang ends; a hang is an action of its own
(`Hang`) without fairness.  In `TimedController` time stands still while the
camera's timer is due or the thread has something to do other than to sleep or
to wait: only under that assumption can durations be stated.

*What the properties say.*

- `HaltedOutsidePulse`, `TwistBounded`, `MotionNeedsAFreshAnswer`: the robot is
  commanded zero unless the thread is inside a pulse or gone; each velocity is
  within the limits of action chunks or within those of visual servo, whatever
  the answer holds; it moves on an accepted answer to the current step only, and uses
  the step up, so that an answer that comes after a timeout moves nothing.
- `HistoryOldestToNewest`, `HistoryRecovers`: the frames of a request are in
  camera order, before its own; a bad frame gets at most `HistorySize` good ones
  refused, because refused frames are remembered too and push it out.
- `ChassisFollows`: a full topic queue loses old commands, never the newest, and
  so the chassis ends where the controller is, or stands still if its node came
  up after everything was said.
- `CallbackReturns`, `NeverSilentForGood`, `ChassisComesToRest`: no callback
  blocks for good, the watchdog comes round, and a halt lost on the wire is made
  up for.
- `MotionIsBrief`, `SilenceBounded`: a motion lasts a step's duration whatever
  the `repeat` of the answer; silence may last as long as an HTTP exchange.  The
  exchange has no timeout of its own: `urlopen`'s is that of a socket operation,
  so that the bound is their number times the timeout, and there is none if a
  server sends its reply in ever smaller parts.
- `MotionIsRecent`: after a long exchange the subscription still holds frames
  from before; the queue forgets the oldest, so that the picture a motion answers
  to is older than the exchange by the queue's depth in camera periods at most,
  plus one for each failed read.  The exchange counts with all its operations.
- `RepetitionMasksFaults`: the firmware is not in the repository; it is taken to
  obey complete lines and to ignore one that is the rest of a torn line followed
  by another.
- `AnswersThisFrame`: session and step cannot tell the answer to this attempt
  from a late one to an earlier attempt at the step; one connection per request
  does.  `AnswerIsUsed`: the client's correlation check never fails with this
  service.  `OnlyLengthIsRefused`: the client's checks are as strict as the
  service's, also for older frames sent along, except for the length of the body,
  which it does not check at all; a body that is too long is refused with
  `IMAGE_TOO_LARGE` and 413, one that is not is accepted.
- `MessagesSurvive`: a request or response that may be sent arrives as it is, and
  so does the reason a request is refused for.  `AcceptedAreExecutable`: what
  `post_inference` returns can be executed and answers its request, whatever the
  server sent; only a response without a version may lack metadata.
- `PicturesKept`, `AcceptedAreShown`: the picture on its way from the camera to
  the prompt: every pixel in its place, no byte from outside of the message, the
  current picture last and the history in order.
- `PlayerShowsTheFile`: the two tools make the same of a log.
- `NothingOccupied`, `RightCamera`: see the camera publisher above.
- `UnreadableTargetHalts`: a target record whose place is missing or that `float()`
  refuses halts the robot; otherwise it turns towards the place, if at all.  This
  joins the backend's parser with the vehicle's visual servo.  `float()` does read
  `NaN`, which JSON may carry; `max(0.0, min(1.0, center_x))` makes it the right
  edge, and the property says so.
- `TextsAreAnswers`, `AnswerOrJsonDrives`, `ClosestSteps`, `MergingKeepsCommands`,
  `ReadableBoxes`: from generated text and detections to an answer.  The first
  parser looks for one JSON object in the whole text, so that JSON in the
  reasoning drives the robot, whatever the answer element says;
  `AnswerOrJsonDrives` says that it is the only part of the reasoning that does,
  and that braces on both sides of the answer leave its phrases.  An infinite
  `repeat` or `"actions": null` do raise inside the parser (`JsonRaises`), and
  an `<answer>` that names no official action (say, only *straight*) does make
  the last parser look at the whole text; the properties exclude exactly these.
- `FirstCommandIsCommandsZero`, `SteersTowardsTarget`: the pure control code; a
  target at NaN counts as one at the right edge.
- `UsesLoadedModel`, `WarmCallsNeverLoad`: racing first requests may load the
  model several times, but never use half of it, and loading ends for good.
- `ExactlyOneReply`, `DeliveredAnswersMatch`, `EveryCallEnds`,
  `HealthWhileHanging`: what a client of the service sees.

## 4. The proofs

TLAPS checks these for every value of the constants.

*`RemoteControllerProofs`.*  `TypeOK` alone is not inductive: which of `request`
and `reply` is there depends on `phase`.  `Typing` is `TypeOK` with that
(`Exchange`).  On top of it stand three independent invariants:
`MotionInvariant` (the last velocity is zero outside a pulse and bounded; the
topic's queue ends with it, which `VehicleProofs` needs), `HistoryOrder` (identities of the
frames in history, request and queue grow in that order and none exceeds the
number published) and `Recovery` (the number of refusals so far is no more than
the good frames that stand behind the newest bad one).  `MotionNeedsAFreshAnswer`
and the step simulation of `SafeMotion`
(`ImplementsSafeMotionSafety`: every step is a step of the abstract
specification or a stutter) follow from the first.  `TwistBounded` rests on what
clamping and visual servo return, also when the answer carries NaN (`Clamp`
keeps its limit then) and for negative limits: `ChunkCommandBounded`,
`TargetCommandBounded`.

*`TimedControllerProofs`.*  `TimedImplementsController` hides the clocks: each step
is one of `RemoteController` or a stutter, so that its invariants can be used.
None of the bounds is inductive, because the age of the last command says
nothing without the place the thread is at.  `Durations` gives both: idle, the age
is at most the watchdog's timeout, and one more while the timer is due; waiting,
it is that and what the exchange has used up, the whole timeout for each operation
it has behind it; in a pulse, age and what is left
of the sleep add up to the pulse.  `QueueAges` bounds the age of each frame in the
queue by the periods of the frames behind it and of the reads that failed, and
`PictureAges` carries the bound of the oldest one through the callback.
`MotionIsBrief`, `SilenceBounded` and `MotionIsRecent` follow, for every period,
timeout, duration (zero and negative ones too) and depth.

*`ProtocolProofs`.*  The checks of a function are a list and its outcome is the
first error; the lemmas `FirstErrorIsOne` and `AllOkConcat` turn "no error" into
"every check passes", for lists of any length.  With them the two round trips
and the facts about accepted responses are proved by going through the checks
of both sides (`RequestFromDictAccepts` and `ValidateResponseAccepts` say what
is accepted, exactly).  `RefusalArrivesHolds`: the verdict of a refused request
is one of a fixed set, and each of these passes the client's reading of the
error body.  The library's theorems about induction take an operator and cannot
be instantiated, but its well-founded order on numbers gives `Descent`: a set of
numbers in which each has a smaller one is empty.  A recursive function that
had a wrong value somewhere would have a wrong value before it; that is how
`BodySizeBounded` bounds the sum over a history and how everything about lists is
proved below.

*`InferenceServiceProofs`.*  `ServiceInvariant` adds to `TypeOK`, for each
connection, what its phase implies about its call, its reply and what it
received (`Exchange`) and about the backend's attributes and what it took from
them (`Loading`).  The point of `Loading`: an attribute, once stored, is never
`None` again, so the two unlocked reads after the check are safe however stores
of other threads fall between them.  All four safety properties follow from it,
for any number of connections.

*`MessagesProofs`.*  All thirteen properties of the run `messages`, as
`WellTyped => P`: for messages of any length, with any numbers in them.

- *Lists.*  `FilteredEnumerates`: a comprehension returns the kept positions in
  increasing order; `ConcatenatedIsList`.  Both say once what a recursive function
  of `Lists` computes, by descent; `StepsExist` is that a function can be built
  step by step at all.
- *Texts.*  What each of the three parsers returns is numbered and within the
  limits (`JsonChunksNumbered`, `OfficialChunksNumbered`,
  `AtomicChunksNumbered`), and a response with such chunks passes
  `validate_response` (`AnswerAccepted`): `EveryTextIsAnswerHolds`, from which
  `TextsAreAnswers`.
- *Merging.*  `ChunkAtomicActions` counts how long an action has been repeated.
  Where a chunk ends, the count is its repeat, the actions under it are equal
  (`RunsOfEqual`), and the runs follow each other without a gap (`RunsFollow`).
- *Commands.*  A position in the list of commands belongs to the chunk whose
  running total first reaches it; it exists (`OwnerFound`) and is one
  (`OwnerIsOne`), because totals of positive numbers grow.  Both forms of
  the list, the one of `Control` and the one with `extend`, are compared through it.
- *Detections.*  `max` with a key returns the first of the largest scores, which
  exists (`FirstLargest`), and a score with a box is above every one without.
- *Pictures.*  The bounds of `PixelsWithinData` rest on `ProductMonotone`, because
  rows times stride is beyond linear arithmetic.  `ClosestStepsHolds` rests on
  `RoundedQuotientIsNearest`, also on ties and for negative numbers.
- *Points.*  Each loop is shown to take the first so many of the rows that can
  be kept (`LoopTakesFirst`), whatever its limit does.

`SteersTowardsTargetHolds` and `UnreadableTargetHaltsHolds` assume that
`TargetTurnGain` and `TargetMaxAngularZ` are not negative.  The controller does not
check that of its parameters, and with one of them negative it does turn away;
no other theorem assumes it.

*`CameraProofs`.*  `NothingOccupied` and `RightCamera` for every number of
candidates: `CameraInvariant` adds `PassedOver`, that while nothing has changed
the candidates before the one under the probe cannot be read.

*`DeploymentProofs`.*  Refinement twice over.  `ControllerImplemented`: hide the
service, and each step is one of `RemoteController` or a stutter.
`ServiceImplemented`: hide the controller, and each step is one of
`InferenceService`, so that the service's theorems can be cited in the
deployment.  On these stands `Joined`, the invariant that ties a connection to its
request: connections belong to frames older than those that wait
(`ConnectionsBelowFrames`), the one in use carries the call made of the current
request or does not exist (`CarriesRequest`), and a live one is the current one
(`OneConnection`).  `AnswersThisFrame` then follows from the order of the frames'
identities, `AnswerIsUsed` from the service's `DeliveredAnswersMatch`.
`OnlyLengthIsRefused` puts three things together: what the controller lets
through (`Sendable`) is a request the codec accepts, read back the same
(`RequestSurvivesHolds`); frames of the history, which the controller sends again
later, pass the same checks (`FileIsValid`); and the headers leave the length as
the only thing the service can refuse (`HeaderRefusesLength`).

*`VehicleProofs`.*  `Repetition` counts the attempts of a twist that has not got
through: each was a fault or was spoiled by the torn line an earlier fault had
left, so attempts (and one more while a torn line is on the wire) are at most
twice the faults.  `Following` says where the velocity published last is while
no write has failed.  Together with the controller's own invariants, which
survive the subscription that empties the topic, they are inductive.

`SafeMotion` is implemented three times over: by the controller alone
(`ImplementsSafeMotionSafety`, action by action in `SafeMotionStep`), with the serial
node taking twists and emptying the topic (`VehicleImplementsSafeMotion`) and with
the service answering (`DeploymentImplementsSafeMotion`).

*Assumptions.*  `ControlAssumption`, `SentinelAssumption`, `ControllerAssumption`,
`ProtocolAssumption`, `ImageAssumption`, `MarkerAssumption`, `TextAssumption`,
`NotGivenAssumption`, `ServiceAssumption`, `SerialAssumption`, `TimeAssumption` and
`CamerasAssumption` say that parameters are numbers of the kind the node
declares and that sentinels are not data; `NameAssumption` and
`ControlAssumptions` of `Messages` are the same for the request it asks about and
its two instances of `Control`.  TLC evaluates each of them.  No assumption
bounds a parameter from below unless the code does (a limit, the history size,
the step duration or the number of attempts may be negative or zero).
`BodiesAssumption` and `ServiceAssumptions` fit the parameters of the controller
and of the service together; `DeploymentAssumption` says in addition that each
picture by itself is a JPEG within `max_image_bytes`.  How that limit, the number
of pictures and `max_request_body_bytes` relate is left open: with the defaults,
17 pictures of 10 MiB against a body of 32 MiB, they do not fit together.

*Only model-checked*: everything temporal under fairness (`CallbackReturns`,
`NeverSilentForGood`, `ChassisComesToRest`, `EveryCallEnds`, `HealthWhileHanging`
and the liveness part of `ImplementsSafeMotion`), which the prover does not
handle.  Every other property of a passing run is a theorem.

## 5. Findings

Each has a run in which TLC shows the code doing what the document denies.

- `finding_stop`: the controller never reads `response.stop`, and executes a
  chunk or a target command of a response with `stop` true
  (`docs/interface_v1.md:77`).
- `finding_speed_limit`: visual servo commands bypass `max_linear_x`
  (`navida_jetson.launch.py:56`).
- `finding_watchdog`: the watchdog cannot publish while the image callback is in
  `urlopen`, so zero may come 20 s late instead of 0.5 s
  (`navida_jetson.launch.py:58`).
- `finding_backend_error`: a backend that raises is reported as
  `INTERNAL_ERROR`, not `BACKEND_ERROR` (`docs/interface_v1.md:137`).

- `finding_interrupt`: Ctrl-C inside the sleep of a pulse leaves the non-zero
  velocity as the last word on `/cmd_vel`, where `README.md:94` promises an
  explicit zero (the properties above exempt a node that is gone).

Met on the way, without a run of their own.  The properties of the passing runs
say what the code does in the first four cases, and cannot be stated without
these exceptions:

- the timeout given to `urlopen` bounds a socket operation, not the exchange, so
  that `inference_timeout_s` ("HTTP timeout for one remote inference request",
  `navida_jetson.launch.py:59`) is no bound on how long a callback blocks
  (`SilenceBounded`, `MotionIsRecent`);
- a target at `NaN` turns the robot to the right, where `README.md:131` has it
  turn toward the target (`SteersTowardsTarget`,
  `UnreadableTargetHalts`);
- JSON in the model's reasoning drives the robot instead of the answer
  (`AnswerOrJsonDrives`);
- a body that is too long is refused with `IMAGE_TOO_LARGE` although every image
  is within its limit, which is what `docs/interface_v1.md:133` gives the code for,
  and with a full history of large pictures so is every request after it
  (`OnlyLengthIsRefused`).

Also: a negative `step_index` is refused with 400 where
`docs/interface_v1.md:153` lists 422; nothing ever sends `BACKEND_TIMEOUT`
(`docs/interface_v1.md:138`); the camera node is constructed before the `try` of
its `main`, so that a start that fails leaves rclpy initialised; the launch file
gives `cmd_vel_topic` to the controller only, while the serial node subscribes to
`/cmd_vel`; the bridge node reads
neither `stop` nor the target of a response.

## 6. Not modelled

- Inference itself, the wording of the prompt, the label the detector is asked
  for (`target_label_from_request`) and JPEG decoding: outside what a model
  checker can say anything about.  `infer` may return any answer, raise or hang.
- Texts that JSON or UTF-8 cannot carry (lone surrogates): `Texts` are encodable.
- The `OverflowError` of `float()` on an integer of hundreds of digits, which the
  parsers do not catch: it ends like any other exception of `infer`.
- Malformed error bodies of servers other than this one are in `HttpError`, but no
  property is about them; the controller treats every exception alike.
- An exception between `cv2.VideoCapture(...)` and the check of what it returned:
  `OpenDevice` is one step.
- Capture settings and backends of OpenCV, colours, the compression of a picture.
- HTTP below a request and its response: connections do not come about, break,
  time out or carry a body, which are actions of the two ends.
- The vendored serial library: only how `write` and the constructor can end.
- The serial node's log file and the logging timer: they change nothing that is
  sent.
- The launch file beyond its wiring: it starts the nodes, in either order, and
  starts none of them again.
- Showing a cloud again and again, the byte layout of `PointCloud2` and `.pcd`.
- `server.py`, `client.py`, the mock server, argument parsing and demo scripts:
  they only put the modelled parts together.

## 7. Plan

Done, in this order because the robot's motion matters most: Motion, Control,
RemoteController with its proofs and SafeMotion; TimedController; SerialTwistCtl
and Vehicle with proofs; Protocol with its proofs; InferenceService with its
proofs; ActionText and CameraImage; Deployment with its two refinements;
CameraPublisher with proofs; PointCloud.  Then the proofs that were missing: the
durations of TimedController, `OnlyLengthIsRefused`, and the properties of Messages.

Next:

1. What `ChassisFollows` becomes with failed writes: how long a halt may be lost,
   as a bound in attempts.
2. `MotionIsRecent` on the whole deployment: the age of the picture behind a motion
   by the composition of `TimedController` with `Deployment`.
3. `SerialPort`: `write` and `close` of the serial library with their timeouts
   and the two mutexes, and `SerialTwistCtl`'s `write` shown to be its
   abstraction (the library is vendored, so this comes last).
