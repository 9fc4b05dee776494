# PlatypusOne in TLA+

PlatypusOne runs on an Arduino UNO Q: a Linux side written in C++20 (HAL, services, apps, tools), an STM32
co-processor, an optional Tab5 display client on a serial cable, a V4L2 webcam and a DRM/KMS panel. Most of its code
is sequential and well tested by `tests/`. What tests hardly reach is what happens between its threads, processes,
devices and files, and that is what this project models: every module below is translated from the source it names,
model-checked by TLC on small instances, and the results that matter most are proved for every instance by TLAPS.

Source paths are relative to `src/`. `PROJECT.json` lists the components, the runs, the mutants that show each
property can fail, the source lines every definition stands for, the hazards and the theorems.

| module | models | state space / proof |
| --- | --- | --- |
| `DisplaySink` | what `hal::IDisplay` promises its caller | abstract specification |
| `PresentationLink` | `LinkedDisplay`, `SerialTransport`, the Tab5 client | `link_*` runs; implements `DisplaySink` |
| `PresentationLink_proofs` | | 5 theorems, one that it implements `DisplaySink` |
| `McuBridge` | `SerialMcuBridge` and `mcu_bridge.ino` | `mcu_*` runs |
| `McuBridge_proofs` | | 5 theorems |
| `ObservationStore` | `CaptureService` and the processes that use it | `store*` runs |
| `ObservationStore_proofs` | | 5 theorems |
| `Shell` | `EventQueue`, the loop of `apps/launcher/src/main.cpp`, the apps' input | `shell*` runs |
| `Shell_proofs` | | 3 theorems |
| `V4l2Camera`, `KioskLayout`, `Kiosk`, `MCKiosk` | the Scout kiosk, its camera and its layout | run `kiosk` |
| `Kiosk_proofs` | | 6 theorems |
| `KmsHelpers`, `Renderer`, `DrmDisplay`, `MCDisplay` | the local display, its touch input, the renderer | run `display` |
| `DrmDisplay_proofs` | | 11 theorems |
| `Observation`, `ScoutAnalyzer`, `Fastener`, `Scout`, `MCScout` | from a frame to the observation card | run `scout` |
| `Observation_proofs` (with `ScoutAnalyzer`), `Scout_proofs` | | 8 and 6 theorems |

## 1. Inventory

### Presentation link (modelled)

`platform/display/src/linked/*`, `platform/display/include/platypus/hal/IDisplay.hpp`,
`firmware/tab5_display_client`.

- *State.* Host: `nextFrameId_`, `lastAck_`, `running_`, `writeMutex_`, the receive thread. Client: `openFrameId`,
  `frameOpen`, the decoder, the panel.
- *Operations.* `connect`, `present`, `presentRegion`, `setBacklight`, the destructor; `receiveLoop`,
  `handleMessage`; the client's `loop()` with `handleMessage` and `pumpTouch`.
- *Interaction.* Two host threads share one byte stream; the client answers on the other direction; input events
  call handlers of the composition root from the receive thread.
- *Hard.* Torn writes, an ack that comes after its timeout, both directions full, an unplugged cable, a restarted
  host, a wrapped frame id, messages handled while the destructor waits.
- *Correct when* `present()` returns success only for what the panel shows, calls return whatever the client does,
  and nothing calls a handler after the destructor.

### MCU bridge (modelled)

`platform/hardware/src/unoq/SerialMcuBridge.*`, `firmware/mcu_bridge/mcu_bridge.ino`.

- *State.* `fd_`, `running_`, `replies_` (one slot per topic), `subscribers_`, `writeMutex_`, the reader thread.
- *Operations.* `open`, `close`, `request` (`digitalRead`, `analogRead`), `send` (`pinMode`, `digitalWrite`,
  `pwmWrite`, `publish`), `subscribe`, `readLoop`; the firmware's `loop()`.
- *Hard.* Several callers on one reply topic, replies that are lost or late, a short `write()`, `close()` against
  every other call, a device that goes away.
- *Correct when* a reply belongs to a request that is under way and is returned once, frames are not mixed, a call
  returns, and no handler runs after `close()`.

### Evidence capture (modelled)

`services/observation/src/CaptureService.cpp`, used by `tools/engineering_scout_capture` and `tools/scout_kiosk`.

- *State.* The directory of observations, each with an image and `observation.json`.
- *Operations.* `nextObservationId`, `capture` (test, camera, validate, `create_directories`, image, record, clean-up).
- *Hard.* Two processes with the same id, a kill between any two steps, writes that fail, a clean-up that fails or is
  killed between two files.
- *Correct when* complete evidence is never overwritten, a complete record has its image, a success is one's own directory and a
  failure leaves nothing.

### Input queue, app framework and shell loop (modelled)

`services/appfw/src/*`, `apps/launcher/src/main.cpp`, `apps/launcher/src/LauncherApp.cpp`, `apps/settings`; of
`apps/engineering_scout` the input only.

- *State.* `events_`, `droppedCount_`, the active app, `selectedIndex_`, `exitRequested_`, `pendingLaunch`, `g_running`.
- *Operations.* `postEvent`, `dispatchPending`, `onTouch`, `onButton`, `onFrame`, the switch, SIGINT/SIGTERM.
- *Hard.* Drivers that post faster than the loop pops, a full queue, events that outlive the app they were meant for.
- *Correct when* accepted events are delivered once and in order, the loop still draws, and leaving an app leads home.

### Scout kiosk, its camera and its layout (partly modelled)

`tools/scout_kiosk/main.cpp`, `platform/camera/src/v4l2/V4l2Camera.cpp`.

- *State.* The atomics `screen`, `captureRequested`, `dismissRequested` and `g_running`; `missedFrames`, `lastRgb`,
  `camW`/`camH`; of the camera the descriptor, the mode and the ring of mapped buffers.
- *Operations.* `findCamera`, `acquireCamera`, the loop, `captureOnce`, the touch and button handlers, the signal
  handler; `V4l2Camera::open`, `dequeueFrame`, `close`; `computeLayout`.
- *Interaction.* The display's input thread runs the handlers while `main()` moves between the screens; the webcam
  comes and goes; `captureOnce` writes evidence.
- *Hard.* A tap made on a screen that is gone when its flag is read, a second webcam of another size, a driver that
  grants another mode than was asked for, a ring that loses a buffer with every failed QBUF, a signal while no camera is
  there.
- *Correct when* a tap acts on what it was made on, frames come again, and the program ends with its thread joined.

### Local display, touch input and renderer (partly modelled)

`platform/display/src/drm/DrmDisplay.cpp`, `KmsHelpers.hpp`, `services/renderer/src/Renderer.cpp`.

- *State.* The card, the dumb buffer, framebuffer and mapping; `savedCrtc_`, `selection_`, `wakeFd_`, the input thread
  with its contact and last position; `framebuffer_` and `dirtyRect_`.
- *Operations.* `open` with every driver call, `close`, `presentRegion`, `inputLoop`; the drawing calls and `present`.
- *Hard.* An `open` that fails in the middle, a display server that holds or takes the CRTC, contact, position and sync
  as separate events, a kernel buffer that overflows, a thread asleep in `poll`, a present that shows a part.
- *Correct when* `close` undoes what was taken and the console's panel does not go dark, the program knows the finger,
  and what was drawn is shown in the end.

### Observation record, measurement, classification, card (partly modelled)

`services/observation/src/Observation.cpp`, `Json.cpp`, `services/vision/src/ScoutAnalyzer.cpp`,
`services/ai/src/FastenerClassifier.cpp`, `apps/engineering_scout/src/EngineeringScoutApp.cpp`.

- *State.* The records on disk (as in the evidence capture); the app's `record_`, `thumbnail_`, `needsRedraw_`.
- *Operations.* `analyzeFrame`, `appendEvidence`, `classify`, `appendClassification`, `validate`, `toJson`, `fromJson`;
  `loadNewest`, `drawObservationCard`.
- *Interaction.* The kiosk measures, records and may be killed; the app, another process, lists and reads meanwhile.
- *Hard.* Uneven light, filters whose order matters, holes, sizes between two entries of a table, a record written by one program and
  refused by another, a record that is half written when it is listed.
- *Correct when* what is measured is what lies on the paper, what is written is what is read, and the card is that of the
  last capture.

### Not modelled

- Settings store and project store (`services/filesystem/src/*`): single-threaded file handling. The interesting case
  of the settings, a kill or a short write around a rename, is a hazard in `PROJECT.json` without a property.
- Camera characterisation (`tools/camera_characterize/camchar/*.py`), panel installer, kiosk mode switch and bring-up
  scripts: offline programs and shell scripts that are run by hand.
- The single-pass tools (`scout_validation`, `scout_measure`, `ui_preview`, `display_probe`, the calibration sheet), the
  boards (`UnoQBoard`, `HostSimBoard`: they hand out devices), the Win32 simulator window (a development aid), the LED
  matrix animation, the PCB generators, and the interfaces without an implementation (audio, sensors, geometry). They
  have no state that outlives a call, or no interaction.
- The byte-level decoders of the two framing codecs; their effect, whole frames or none, is part of the link modules.

## 2. Plan

1. `DisplaySink`, `PresentationLink` with its proofs (done): the one place where two threads, a cable and a second
   program have to agree on what the operator sees.
2. `McuBridge` with its proofs (done).
3. `ObservationStore` with its proofs (done).
4. `Shell` (done), which stands for the input side of every display.
5. `Kiosk` over `V4l2Camera` and `KioskLayout` (done).
6. `DrmDisplay` over `Renderer` and `KmsHelpers` (done): the other display, its touch input, and the renderer above it.
7. `Scout` over `ObservationStore`, `ScoutAnalyzer`, `Fastener` and `Observation` (done): what the records say.
8. Proofs about `Shell`, `Kiosk` and `DrmDisplay` (done).
9. Proofs that `PresentationLink` implements `DisplaySink`, about the touch input and the renderer, and about the kiosk's
   layout (done).
10. Proofs about `Observation` and `Scout` (done): what is written is what is read, and the card is that of the newest.
11. Proof of `RecordSound` of `Scout` (done): the shape of every record the analysis builds, and that the size found
    by `Nearest` is the nearest of its table.
12. Proofs about the loops: the flood fill, the labels and the holes, the choice of the subject, `SubjectSound`; the threshold and
    the breaks of lines, `AlgorithmsRight`; the choice of mode and output, Bresenham's line, `HelpersRight` (done).
13. `SettingsStore`, with the same file model as `ObservationStore`, and the two framing decoders.

Recursion is written as recursive functions and folds, never as RECURSIVE operators, so that theorems can be proved about
every module.

## 3. How the modules correspond to the code

### PresentationLink

The UI thread's place in `connect()`, `presentRegion()`, `setBacklight()` or the destructor is `ui`; the receive
thread's is `rx`. A step is what happens between two points where another thread, the transport or the client can
intervene:

- `sendFrame()` is two steps, "take `writeMutex_`" (`UiLock`, `RxLock`) and the write itself (`Written` or
  `NotWritten`), because the mutex is held while `SerialTransport::write` waits up to 100 ms for space. A write that
  fails either left nothing or a *torn* message.
- The wire carries messages, not bytes. A torn message makes the client's decoder swallow at least the message after
  it (`ClientLoses`); how many more is left open, since it depends on payload bytes that look like a sync byte.
- `present` of the whole panel is `presentRegion` with all rows. Columns are left out: every tile is as wide as its
  region. `RowsPerTile` stands for `(maxPayload_ - 12) / rowBytes`.
- Pixels are the number of the present they belong to (`stamp`), so `panel[r]` says which present row `r` shows.
- Encoder and button messages are handled like touch and stand under one kind of input.
- The receive loop tests `running_` only between two reads, and one read may return several messages: `RxMessage`
  stays enabled after the destructor cleared `running_`, until the loop chooses to exit.
- `Restart` is the host process killed anywhere and started again.

### McuBridge

A request is its number. Its pin is not modelled because the host never compares it: `request()` returns what it
finds in the slot of its reply topic. `Erased` is the erase before the send, `TakeReply` the `wait_for` predicate and
the erase after it, `TimesOut` its failure; whether the timeout is due is not modelled, so it may expire at any time
the predicate is false. `Write` is one `write()` of the loop in `send()`, so a frame may go out whole or in two
parts. `Close` is `running_ = false; ::close(fd_); fd_ = -1` and `Join` the rest. The reader stores a message, then runs
its handler; `running_` is read between reads only. The firmware swallows what follows a first part whose rest
never came (`Decodes`), and noise removes frames at either end. The history variables `got` (request, the request its
reply answers, when the reader stored it) and `handled` exist for the properties.

### ObservationStore

Every process is a program counter in `capture()`. `TryNextId` is one `exists()` of `nextObservationId()`;
`CheckConfig` the argument test and the `exists()` of `capture()`; `AcquireFrame` the camera, the analysis and the
validation, none of which writes; `MakeDirectory` is `create_directories()`, which says who made the directory; then
`WriteImage`, `OpenRecord` (the file is there, and empty), `WriteRecord` and `Abort`. The last is `remove_all`, one file a
step (`Unlink`) in whatever order the directory lists them, and at last the directory; it may stop at any file, and its
error is ignored. `Killed` may end a process at any step, also between two of those: what it wrote or removed so far
stays. So a partial record may be left without its image, and `RecordHasImage` is about complete records; one that is
not complete is refused by `fromJson` (`Scout`). `WriteRecord`'s third disjunct is the flush in the stream's destructor: with
libstdc++ a write of less than 1 KiB stays in the buffer, so `good()` is true before anything reached the disk; images
are longer and are written through, so their errors are seen.

### Shell

Accepted events carry a number modulo `Modulus`, so that the drivers may post for ever in a finite model; the modulus
exceeds the queue's capacity, so numbers in the queue are distinct. `Tick` takes the number of events
`dispatchPending()` will pop, `Dispatch` is one of them with the handler of the active app, `Frame` is `onFrame()`, and
`Switch` the branch on `pendingLaunch` with `onStop`/`onStart`. What the apps draw is left out.

### Kiosk, V4l2Camera, KioskLayout

`main()` is a program counter; every access to one of the three atomics is a step, because the handlers run in the
display's input thread. A handler is two steps: `Tap` reads the screen and chooses the flag, `SetCapture` or `SetDismiss`
sets it. The camera's buffers are counted: with the driver, filled, or lost. A frame is the mode it was taken in, which is
what `drawImage` depends on. The driver grants the mode that `open` asks for or any other of the webcam; frames have the mode
granted, and `camMode` (`camW`, `camH`) is the one asked for. `Rgb` is `yuyvToRgb`, which makes no picture of too few bytes. `acquireCamera` is `Acquire`, `AcquireWaits` and `AcquireStops`. The scene is left to `Scout`:
`CaptureOnce` ends in a card, in an explanation or without a frame. `drmDisplay->close()` and the camera's are
`CloseAll`. `Layout` is `computeLayout` in integers.

The ghosts `handlerOld`, `captureOld` and `dismissOld` say that the screen has changed since the tap was made. `carried`
makes an exception: when the camera is lost with a tap pending, nothing clears the flags, and the tap acts after the camera
has come back. No text of the repository says that it must not.

### DrmDisplay, Renderer, KmsHelpers

`open()` is one action per driver call that may fail, `close()` one per thing it releases, in the code's order. `master` is
the kernel's DRM master, which a display server may be before or after; `crtc` is what the panel scans out. The
input thread takes whole packets (the events up to a SYN_REPORT), in which the kernel leaves out what did not change; an
overflow replaces what waits by one packet that may lack parts. The SETCRTC of `close()` (`RestoreCrtc`) may be refused,
which the code does not look at; `before` then says that nothing is known to be shown any more, and the framebuffer is removed
from under the panel. `doubt` names what the thread has not been told since the
device was opened or overflowed: the code takes no initial value from the kernel (the value in EVIOCGABS's answer is
ignored) and skips SYN_DROPPED, so `InputFaithful` claims nothing while there is doubt.

`Read` is one `read()` of all that waits; its packets are then handled one at a time (`Handle`), while the
finger moves on. A wake is seen only between two batches, as in the code, where `poll()` comes after the last event.

A framebuffer is abstracted to the set of pixels on which it differs from the panel; drawing may make a pixel stale or give it
the panel's colour again. `setPixel` marks a pixel only when its colour changes, `fillRect` marks its whole
rectangle; `Around` is the smallest rectangle around the points a call marks one by one. `PresentFails` may have shown any part of the rectangle, as `DisplaySink` allows.

### Scout, Observation, ScoutAnalyzer, Fastener

`Scout` extends `ObservationStore`: its steps are those of `capture()`, and `MeasureFrame` adds what the record says to
`AcquireFrame`. The directory's entry tells which capture's record is in the file and whether it is whole; `Document` is then
`toJson` of that record, a tree of tagged values. `KeysOnce`
is the parser's refusal of an object that has a key twice, for documents nested up to four deep, as those of `toJson` are. `ListRecords` is `loadNewest()` up to the end of the directory
iteration and `ReadNewest` the rest, so that another process may write between the two.

Lengths in pixels are in fifths and those in millimetres in hundredths, which makes the six directions of the sweep and the
tables exact. `Flood` grows a set for components, whose pixels have no order. For
holes the order tells, since the first dark neighbour that is met gets the hole: `Drain` is the code's stack, `Pop` a round of its
loop and `Look` what it does at a neighbour. Loops are functions of the round; `Drain` has one round for each pixel that may still
be visited, and `Drained` proves that its stack is empty then.

`FlattenIllumination` has the code's steps: samples, the brighter 80 percent of them, five fits each of which rejects what
lies well below the last, and the division. What the least squares give for a set of samples is `LeastSquares`, an operator
constant: the surface in hundredths of a level, or nothing for degenerate equations. The proofs leave it open, so they hold
for the code's cubic to a hundredth of a level; the run fits a plane exactly (`MCPlane`, Cramer's rule on the normal
equations). `Legible`, which says what lies on the paper, looks at the frame after this step, as the threshold does.

The loop of `OtsuThreshold` goes through the levels that occur; those without a pixel change nothing in the code's. Its
variances are fractions, compared exactly (`MoreThan`), where the code has doubles. `Place` is what a word does in `wrap`.

## 4. The runs

| run | question | result |
| --- | --- | --- |
| `link_safety` | torn writes, late acks, unplugged device, input: is success shown? does the link implement `DisplaySink`? | holds |
| `link_live` | does `present()` return and the destructor join, if the client stops reading, answers badly, pings, or the host restarts? is there no handler after the destructor? | holds |
| `link_torn` | the same as `link_safety` with a client that pings | violated: finding 1 |
| `mcu_bridge` | two callers, close and reopen, an unplugged device, split, lost and late frames | holds |
| `mcu_late` | is the reply returned the one to this request? | violated: finding 2 |
| `store` | two processes, one fault (kill, also within a clean-up, failed clean-up, failed flush), every id contested | holds |
| `store_flush` | does success mean a complete observation? | violated: finding 3 |
| `shell` | posts for ever into a queue of two: order, delivery, drawing | holds |
| `shell_home` | does leaving an app lead to the launcher? | violated: finding 4 |
| `kiosk` | two webcams exchanged, drivers that grant another mode, driver faults, three taps, a signal: do taps act on what they were made on, do frames come again, does it stop? | holds |
| `display` | every failure of `open`, a display server, drawing with failed presents, a fast finger, `close` | holds |
| `scout` | fourteen scenes measured, recorded, killed, listed and shown; the algorithms on every small input | holds |

`CHECK_DEADLOCK FALSE` stands in the configurations of systems that may stop: a closed link or bridge, a process that
captured all it may, a shell or kiosk that was signalled. `display` and `scout` are checked for deadlock.

### Bounds, and why they are enough

- `link_safety`: a panel of 3 rows with 2-row tiles is the smallest on which a region takes two tiles and the last is
  cut; two presents show a late ack or late tile of one meeting the next; a buffer of two messages makes every write
  after the second wait, fail or tear. `MaxId = 2` lets the id wrap after the last present; a third present would let a
  late ack of the first be taken for its own, which takes 65535 presents within one ack timeout in the code.
- `link_live`: one-row panel, one present, one Ping, one input, two host lives, buffers of one message, so that both
  directions fill at once.
- `mcu_bridge`: two callers on one reply topic with two calls, one unsolicited message, two opens, buffers of two
  (a frame in two parts needs two places).
- `store`: two processes, four captures, two ids and the overflow id, one fault.
- `kiosk`: two webcams of different size, one with a node that cannot be used and several modes of which the driver may grant
  any; a ring of two buffers, so that two faults lose it all; a loss after two missed frames (25 in the code); three taps,
  enough for a card to be made and dismissed with one more tap in flight at every change. (Two taps on a card of which the
  second comes late, and a next card, take a fourth; for any number of taps there is `TapsAreFresh`.) The layout is evaluated for 23 sizes: twelve displays, upright and lying.
- `display`: a panel of 3 x 2 pixels, an axis of five raw values with readings beyond its end, two packets in the kernel,
  three sets of connectors. Renderer and input thread share no state, so `OneHalf` leaves out states in which the finger is
  in use while something is drawn: a run draws with a finger at rest, or touches a program that shows its first picture and
  found a dark panel or a console. Once `close()` begins the renderer is gone and nothing is left out.
- `scout`: one capturing process with two captures and one fault, frames of 12 x 8 pixels with a smallest blob of 3 pixels
  (64 in the code). Frames from 8 pixels (16 in the code) are flattened, with a sample at every second pixel (fourth), a
  surface of three terms (ten) and paper at level 8 (235). In three scenes a lamp stands at one side, in the others the left
  half is in the shade. Under the lamp the paper goes from level 9 to 31 and objects on its bright side are nearly as light as
  paper on the other, so that the threshold of the frame as it comes would join the paper with what lies on it. The scenes are: a rod; a rod with a clipped object, dust and a smaller part; a rod too thin for any
  size; a ring between two sizes; a part that is too small; neither compact nor a rod; two squares; a square without a
  bore; no square; nothing; three under the lamp; and a format that cannot be analysed. Components and holes are compared on every 4 x 3
  image (`Pictures`), the threshold on every row of five pixels with four levels (`Grays`), the line breaks on every text of
  up to five words of four lengths (`Phrases`). The references are written apart from the code's steps, at the end of
  `ScoutAnalyzer`: regions grow by `Beside`, not by the neighbours of the flood fill, and a threshold is judged by squared
  differences within its classes, not by the variance between them.
- `shell`: capacity 2, numbers modulo 4, one refused event (`droppedCount_` matters to nothing else), two apps.

The theorems below remove these bounds for the safety properties they state.

### Fairness

- Link: weak fairness of the UI thread's steps inside a call and of the receive thread's steps. Nothing is assumed of
  the client, the cable or the user of the display. `select()` with a limit makes every write end, which is the guard
  `WriteGivesUp`; without it (mutant `NeverGivesUp`) `PresentReturns` fails.
- Bridge: weak fairness of each caller inside a call, of the reader thread and of the firmware's `loop()`. The last is
  needed because `send()` has no time limit: a device that never drains its buffer blocks the caller in `write()`.
  `McuLoop` may still drop a request, and noise may drop a reply.
- Shell: weak fairness of the UI loop. Drivers and the user need not do anything.
- Kiosk: weak fairness of `main()`, of a handler that has begun, and of a streaming webcam with a buffer to fill. Plugging,
  taps, driver errors and signals need not happen, and errors are finitely many (`MaxFaults`). `Recovers` assumes that
  from some time on a usable webcam is there and no signal came.
- Display: weak fairness of the steps of `close()` and of the input thread.

Fairness of a thread is what the operating system's scheduler gives a thread that can run.

### Findings

1. **A torn Pong lets `present()` succeed over rows that were not shown** (`link_torn`). The receive thread writes its
   Pong between two messages of a frame and drops the write's status; a Pong that times out half way makes the client
   swallow the next tile, and the client, which ignores `tileCount`, acks with "displayed". The Tab5 client sends no
   Ping today; the protocol and the host provide for it.
2. **A late reply answers the wrong request** (`mcu_late`). `request()` returns what is in the topic's slot; the pin in
   the payload is not compared. With `Fresh` and `ReplyOnce` proved, this is the only mix-up left: a reply that
   arrives after its own request gave up and after the next one erased the slot.
3. **A capture can return success over a truncated record** (`store_flush`). The record's stream is tested before it is
   flushed and closed.
4. **An app cannot return to the launcher** (`shell_home`). The request to go home is the empty id, which is also the
   loop's sign for "no request".

Three more places where the code does not do what a comment says have no run of their own:

- *Holes.* The comment of `countHoles` promises "the first adjacent foreground label in scan order"
  (`ScoutAnalyzer.cpp:305-306`); the code takes the blob on the left of the hole's first pixel, though the one above comes
  first. `FirstBeside` is the comment, and `CommentsDiffer`, an assumption of `MCScout` that TLC evaluates, says that it fails
  on a picture of 4 x 3 pixels. `LabelsRight` is what does hold: a hole is that of some blob beside it, and a hole of
  one blob alone is that blob's.
- *Lines.* The comment of `wrap` promises lines "of maxChars monospace cells; the last line is ellipsized when the text does not
  fit" (`EngineeringScoutApp.cpp:44-45`). A word longer than a line makes a line that is too long (`LinesFit` fails), and words
  dropped behind a line of three cells or fewer leave no dots (`DotsTell` fails); both are in `CommentsDiffer`. `WrapRight` is
  what does hold.
- *Preview.* "Another aspect is scaled into the same preview rect" (`tools/scout_kiosk/main.cpp:477-478`). `camW` and `camH` are
  those of the mode asked for (lines 502-503), the frames have the one the driver granted
  (`V4l2Camera.cpp:150-152`), and `drawImage` draws nothing of a picture whose size does not fit: where a driver grants another size
  the preview stays blank. In the model `lastRgb` and `camMode` then differ. `PreviewMatches` is what does hold: the picture is
  of the webcam that is open, in the mode its driver granted.

## 5. What is proved

All theorems hold for every value of the constants that meets the modules' assumptions (`LinkAssumption`,
`BridgeAssumption`, `StoreAssumption`, `ShellAssumption`, `CameraAssumption`, `KioskAssumption`, `RendererAssumption`,
`DrmAssumption`, `OutputLists`, `DrawsAssumption`, `AnalyzerAssumption`, `LightAssumption`, `OneProcess`, `Named`, `Samples`, `Measurements`, `Scenes`). They fix the constants' types, that buffers, rings and
panels are not empty, that an axis has a length, and that the events in a full queue have different numbers. `OneProcess` is
the one that is about use: one process records, as the kiosk does. With two, the record with the highest id need not
be the one that was begun last, and the card is that of the highest id. `Named` is about what the library computes: an id or
a time is not the empty text. `OutputLists` and `Measurements` say what the driver and the camera hand over: lists of outputs
with their modes, and frames of bytes. `Scenes` says of a picture what lies in it (see `SubjectSound` below). `Samples` says of what
the algorithms are compared on no more than what it is: dark pixels on a grid, bytes, words with lengths.

Some theorems are about loops over data. A recursive function is, by its definition, some function that satisfies its
equation; that there is one has to be shown first. `Loop` does that for a loop that counts, by the least round that has
no value, and `Counted` says that what holds before such a loop and is kept by each round holds after the last. Both are
proved from the least element of a set of natural numbers, without the induction theorems of the library, which take an
operator that the provers here cannot instantiate. `Every` is the same for finite sets, and with it `SumOne` says of the
library's sum that it may be taken in any order.

### PresentationLink_proofs

- `TypeCorrect` and `TilesStayInside` follow from `TypeInv`, that is `TypeOK` with what the UI thread knows of the frame
  it sends (`FrameOK`: the loop row is inside the region before each tile and at its end after the last) and `TilesFit`
  (every tile under way lies in the panel). `NoProtocolError` alone is not inductive: the client's refusal depends on
  tiles in flight.
- `SuccessMeansShown` is proved from `OneSession`: no Pings, one host life, no more presents than ids. Each is needed. A
  Ping breaks it (finding 1). A restarted host starts its ids at 1 again while the client keeps the frame it had open:
  if the new host's FrameBegin is lost in a torn write, tiles that bear the old id are still shown. A wrapped id lets
  a late ack pass for a new one. The invariant, `ShownInv`, follows the messages of the running frame along the queue:
  they are its end, each starts at the row where the one before it stopped (`ChainOK`); a client that has the frame
  open is in step and has shown every row before the head of the queue (`OpenOK`); no ack exists before the End is sent
  (`FreshOK`); an ack means that nothing of the frame is left to come and all its rows are shown (`DoneOK`). `IdsOK`
  says that ids name presents.
- `NoHandlerAfterClose` (`QuietAfterClose`) follows from `ClosedInv`: the destructor closes only after the receive thread
  has exited. It needs none of `OneSession`, since handlers run in that thread only.
- `LinkImplementsSink` is the refinement of `DisplaySink`, step by step, from `OneSession` as well: a call maps to `Call`, a
  tile that is handled to `Show`, the ack to `Succeed`, and every other step to `Fail` or a stutter. `Show` may bring up
  only what is newer than the last success and not older than what its rows show. Hence `SinkInv` adds to `ShownInv` that
  every tile under way is such a one (`FloorOK`) and that tiles travel in the order of their presents (`TileOrder`), without
  which handling one would break the first for the next.

### McuBridge_proofs

`BridgeInv` is `TypeOK` with

- `NoReader`: a closed bridge has no reader at work, which gives `NoHandlerAfterClose`;
- `FreshSlots`: the slot of a topic with a request under way is empty or was filled after the request began, which
  gives `RepliesAreFresh`;
- `OwnRest`: a caller that wrote the first part of its frame holds the mutex, and that part is the last in the
  buffer or already gone, which gives `FramesAreNotMixed`;
- `TokenInv`: the number of a request is in one place at a time: with its caller until the frame is complete, then in the
  buffer to the firmware, in the reply on its way, in a slot, and at last with the caller that took it. `ReplyOnce` is
  its last part. It needs `OwnRest`, since a frame counts as sent when its last part is written.

### ObservationStore_proofs

`StoreInv` is `TypeOK` with `OwnNumber` (captures are numbered apart), `OneWriter` (a directory has one writer, because
`create_directories` tells who made it) and `OwnEntry` (the writer finds what it left there). `TypeOK` is not inductive
alone: that files lie in directories needs `OwnEntry`. That a clean-up may stop between two files does not harm
`RecordsHaveImages`: `OwnEntry` says that a capture that cleans up has no complete record, so none can lose its image.
`RecordsHaveImages`, `SuccessLeavesOwn`, `NothingHalfRecorded` and
`EvidenceIsKept` follow; the last is an action property, from `OneWriter` and `OwnEntry`: what a step changes belongs to
a process that is still writing it, so it is not complete.

### Shell_proofs

`ShellInv` is `TypeOK` with `InOrder` and `Counted`: while `dispatchPending()` runs there is an event for each that it
counted, because only it pops. `NeverPopsEmpty` is what `Counted` says. `InOrder` is about numbers modulo `Modulus`; the
lemmas `BehindIs`, `AfterIs` and `BehindMoves` say how they move when an event is accepted (the number of the next event
and the end of the queue move together) and when one is popped (the head moves alone).

### Kiosk_proofs

`KioskInv` is `TypeOK` with `ViewOK` (what is kept of the camera has the mode its driver granted, which gives
`PreviewIsOfThisCamera`), `Asked` (every capture has a tap of its own), `JoinedBeforeReturn` and `TapsOK`. The last is what
makes `FreshTaps` inductive. The loop reads a flag long after the tap that set it, and nothing in the code ties a flag to the
screen it was set on; taps stay fresh because the input thread handles one at a time. While the handler of a tap on
a card is late, no tap on CAPTURE can be handled, so nothing is measured and no new card appears under it; while that of a
tap on CAPTURE is late, no tap on the card can be, so the card stays (`OneTapAtATime`). With `Fresh`, the flags that
are set belong to what is shown. All of it is claimed only until a tap is carried over a lost camera (`carried`).
`FirstIn`, which finds the mode `findCamera` takes, is the least element of a set of numbers.

`EveryLayoutUsable` is about `computeLayout` alone: for every display of at least 205 x 80 pixels, or 44 x 173 when it is higher
than wide (`Enough`), and every picture but a strip more than 16 times as long as thick (`Shape`), all is on the display, the
preview is not empty and clear of the panel, and the button is large enough for a finger. `LayoutAlwaysFits` applies it to
the displays of a run, whose constant `Displays` is not otherwise restricted. The rounding is in `Scaled`: a picture that
is too wide after it was scaled to the height is not too high after it was scaled to the width.

### DrmDisplay_proofs

`DisplayInv` is `HeldOK` with `Shown`. `HeldOK` says what the process may hold at each step: each step of `open()` has what
the ones before it took; a failure leads to `close()` with any part of it; each step of `close()` leaves less; and without
the card nothing is held, which is why `close()` may stop there (`NothingStays`). `Shown` says that once our framebuffer
is scanned out, the saved CRTC and the selection are those to put back, until it has been put back, and only then is the
framebuffer removed (`PanelStaysLit`). If the driver did not tell what was shown, or refuses to show it again in
`close()`, the panel goes dark with the framebuffer, and the theorem claims nothing (`before = "none"`); the code has
nothing to restore, or does not look. The constraint `OneHalf` of the run plays no part in the proofs.

- `FingerIsKnown` (`InputFaithful`). What the thread knows and what the finger does differ by the packets under way, those
  in the thread's hands before those in the kernel. `InputInv` says that the last of them that tells the contact
  tells that of the finger, if nothing was dropped after it, and that the thread is right when none tells it and there is no
  doubt (`ContactOK`); the same of the axis (`PlaceOK`); and that the program was told what the thread last saw
  (`LoopGood`).
- `NothingUnshown` (`DirtyCovers`). `RenderOK` is inductive: the dirty rectangle is on the screen and covers all that is stale.
  The lemmas say that merging and `Around` cover what they are given and that clipping keeps what is on the screen.
- `TypesHold` (`TypeOK`), from `DisplayInv`, `InputInv`, `RenderOK` and `ScanOK`: what is scanned out is in memory.
- `AxisScaled` and `RegionClamped`: `scaleAxis` stays on the panel, reaches both its ends and keeps the order of the readings;
  `clampRegion` gives the pixels of the region that are on the panel.
- `OutputIsRight` and `ModeIsRight`: `chooseConnector` and `chooseMode` choose what their comments say from every list.
  The loop over the modes keeps `BestOf`: so far it has found nothing with an area, or the first preferred mode, or,
  none being preferred, one that beats all others (`Beats`: by area, then by rate, then by being named before).
- `LinesAreLines`: `drawLine` ends for every two points, and draws both, one point for each step along the longer side
  and no gap. The invariant of its loop is `Walked`, about a walk of `M` steps along the longer side and `m` along the other:
  after `i` rounds there were `i` steps along the longer side, `l` along the other, and the error term is
  `M - m - i * m + l * M`, between `-m / 2` and `3 M / 2 - m`. From the bounds follows that each round takes a step
  along the longer side, that the shorter is never overshot, and that what is left of it is never more than what is left of
  the longer (`StepInTime`); so both ends are met in the same round. `LineAt` puts it on the plane, for all eight octants.
- `HelpersAreRight` (`HelpersRight`) is these together: the run compares the same statements on small inputs.

### Observation_proofs

`Records(T, N)` are all records over any texts `T` and numbers `N`. `WrittenIsAccepted`: whatever is in a record, `fromJson` accepts
what `toJson` writes of it. `ReadAsWritten`: it reads the same record, provided each key of `source` is there once;
`toJson` writes only the first of several, and `validate` reports them. An object is treated as the set of its members
(`Object`): `When` adds at most one, `Together` joins two objects that share no key, and `FindIn` says that `Find` finds exactly the
members that are there. `Deep1` to `Deep4` say of a value that objects within it, that many levels down, have no key
twice, which gives `KeysOnce`. `Picked` and `Ranked` say that `Pick` takes the entries at given positions in their order.

The module also holds the proofs about `ScoutAnalyzer`:

- `FloodIs`: the flood fill finds the least part of its region that holds its start and that no step leaves (`Reach`). If it
  were wrong for some set, it would be wrong for the larger set of its next round, which leaves fewer pixels.
- `ComponentsLabelled`: for every grid, however large, and every set of dark pixels, the labels of `labelComponents` are the
  connected parts of what is dark, each once, in the order of their first pixels. `Labelled` is the invariant of
  the scan: before pixel `n` exactly the parts that begin before `n` have a label. That a part seeded from one of its pixels is
  the part, whichever pixel it is, needs that the neighbourhood is symmetric (`PartFrom`).
- `HolesCounted`: for every grid and every set of dark pixels, `countHoles` finds each region of background that does not
  reach the edge (`Bores`) once, and nothing else, and the pixel it tells of is dark and beside the region. `Drained` follows the
  stack of `drain()`: what is off the stack has had its four neighbours looked at (`Handled`), a pixel is on the stack once, and
  a round takes one off, so that the loop ends; what was visited is then closed under neighbours, hence the region.
  The pixel above the first of a region is dark (`BoreHasRim`), so that no hole is without an owner. `Bored` is the
  invariant of the scan over the pixels.
- `HolesOfBlob`: a blob is given at least the holes that have only it beside them, and at most those it lies beside. Of
  a region between two blobs that touch at a corner the code picks one by the order of its stack.
- `FlattenType`: whatever surface is fitted, the light is evened out in place and every pixel is a byte again, so that
  what follows holds of the flattened frame.
- `MeasuresTheSubject`: for every frame as a camera sends it, `analyzeFrame` measures two of the parts that are dark once the
  light is evened out (`PairOf`), whatever surface was fitted to it: each
  wholly in the frame and large enough; the reference passes for a square and any other that does is less than half its size;
  the subject is the largest of the rest and not too small; and it refuses a frame only if there is no such pair.

- `LabelsAreRight`: labels and holes agree with their reference (`LabelsRight`), whose regions grow from a pixel by one step at a
  time (`RegionIs`: a step that adds nothing is the last, and there are no more steps than pixels). The holes of all blobs add up
  to the number of enclosed regions, because each region has one owner and each owner one blob (`SumSizes`).
- `ThresholdIsRight`: for every frame of bytes, no bound between the levels leaves smaller squared differences within the two
  classes than the one `otsuThreshold` returns, and dark and light pixels are both there unless the frame is uniform. The
  loop keeps the first of the greatest variances between the classes (`Sharpest`, by cross-multiplied fractions); `SpreadIs` turns
  the differences within a class into sums of levels and of their squares, and `WithinBetween` says that what is within the
  classes and what is between them make up the whole, whatever the bound, so that the greatest of one is the least of the
  other.

### Scout_proofs

`ScoutInv` is `StoreInv` with

- `DraftsOK`: every record drafted so far is well formed over the texts and numbers of the scenes (`Sound`), and a directory
  belongs to a capture that has one. It follows the record through `BaseRecord`, `AppendEvidence` and `AppendClassification`,
  whatever the analysis says;
- `IdsInOrder`: the directories have the first ids, in the order of their captures; a capture that looks for an id is
  beyond all of them. It needs `OneProcess`, and that only `Abort` of the last capture takes a directory away;
- `AppOK`: while nothing has changed since the app listed the directory, it listed the newest and holds what is in its file.

`CardShowsNewest` (`CardIsNewest`) follows with `ReadAsWritten`: the card is drawn of the record that was drafted.
`DraftsRoundTrip` says that what is written is what is read, for every draft.

`RecordsAreSound` (`RecordSound`) follows from `DraftsWell`: every draft has no violation, claims the right size and leaves open
what it does not claim. It is inductive beside `ScoutInv`, since `MeasureFrame` is the only step that drafts (`EnrichWell`):

- `MatchFits`: the loop of `bestMatch` (`best` in `Nearest`) ends in the nearest entry of its table. The tables have seven
  entries, so `BestSoFar` unrolls the loop and needs no induction. A match is within 15 percent, and its
  confidence is between 0 and 100; so is that of a class (`ClassifyIs`), because a rod is at least 2.5 times as long as wide.
- `Shapes`: a measured record has the seven observed and three derived claims, and nothing inferred, a class, or a class and a
  size. In each the ids of the claims differ and name what is there (`MeasuredGood`), so that `validate` finds nothing
  (`NothingViolated`); and the names that are open and those that are claimed share nothing (`ShapesSettled`).
- `RightSize`: the size claimed is that of the width among the derived claims, in the table of the class claimed.

`SubjectsAreSound` (`SubjectSound`) follows from `MeasuresTheSubject`: what is measured is what lies on the paper. The two differ
by what a picture shows. A scene is `Legible` when, once its light is evened out, its objects are in one piece each and end
where the dark ends, what else
is dark is shade that runs off the frame, and what passes for a square (a box nearly as high as wide, nearly filled) is one.
The blobs that are kept of a legible scene are the objects that lie wholly in it. For other pictures (a round washer that
passes for a square, two parts that touch) the code measures something that does not lie there, and
`MeasuresTheSubject` says what.

The assumptions used are evaluated in the run: one process records (`OneProcess`); ids and times are not empty as texts
(`Named`); samples are samples (`Samples`); frames are bytes and the reference side is a number (`Measurements`), not `nan` (section 6); and the scenes
are legible (`Scenes`).

`LinesOfText` says of `wrap`, for every text, width and number of lines, what `WrapRight` states. `Written` is the invariant of its
loop: the lines that are finished and the one in the making have the words so far, in order, or the lines are as many as
allowed and a word was dropped (`PlaceIs`). `AlgorithmsAreRight` (`AlgorithmsRight`) is this with `LabelsAreRight` and
`ThresholdIsRight`, for any samples; `MCScout` compares the same statements on small ones.

### Only model-checked

- Liveness under fairness, which the prover cannot reach: `PresentReturns`, `CloseReturns` (link and display),
  `CallsReturn`, `FramesGoOn`, `Delivered`, `Recovers`, `Stops`.

Of the properties that the runs find to hold, every invariant and every action property is also stated by a theorem.

## 6. Known limits of the models

- Bytes: checksums and resynchronisation are modelled by their effect (frames vanish); a corrupted frame that passes its
  checksum is left out.
- `fd_` of the bridge is written by `close()` while others read it. The model lets every thread see either value at its
  next step; that the number is reused by another `open()` is left out.
- `close()` of the bridge relies on the driver to wake a blocked `read()`. `ReaderExits` need not follow `Close`, and no
  property says that `close()` returns.
- Clocks: a timeout may expire whenever what it waits for is not there.
- No reconnection: `docs/protocols/presentation.md` section 8 promises that a `LinkedDisplay` whose cable was unplugged
  reconnects in the background. The code leaves its receive loop on a read error, keeps `running_` true, and
  `connect()` answers `Busy`. There is no step to model; the runs show `present()` failing from then on.
- Scout: numbers are integers. A reference side given as `nan` passes the comparisons of `analyzeFrame` and is written as
  `null`, which `fromJson` refuses; the model has no such number. A record that `fromJson` accepts may hold a text where
  the card expects a number (`std::get` then throws); the programs of the repository write none.
- Scout: one process captures. With two, or with ids given by hand, the highest id need not be the last capture, and the
  card is that of the highest id.
- Kiosk: `--fake`, `--offscreen` and the texts on the screens are left out, as is the camera's stream thread, which no
  program of the repository starts. Frames carry no time: after a pause the ring still holds frames from before it.
- Scout: that the fitted surface is that of the paper is not proved; whether a scene is legible under its light is a matter of
  the scene (`Scenes`), which TLC evaluates for those of the run. A uniform frame is not left as it is, as the comment of
  `flattenIllumination` says, but scaled to level 235, which moves the threshold with it.
- Display: buttons and the backlight are left out, and one axis stands for two. A touch device that is unplugged
  makes `poll()` return at once for ever; the model has no time to waste.
- A power failure that loses data the operating system had accepted is left out: `Killed` ends a process, not the board.
