# A verification project for easymedia

easymedia is a C++ library of media *flows* for Rockchip boards: cameras,
microphones and files feed flows that encode, decode, filter, display, store or
serve the data. This directory holds TLA+ models of its core, the TLC
configurations that check them, and proofs checked by TLAPS. `src/...:n` below
is line n of a file of the repository.

## 1. Inventory

| Part | State | Operations | Talks to |
|---|---|---|---|
| `Flow` and `FlowCoroutine` (`flow.cc`) | `enable`, `quit`, `down_flow_num`; per input slot a queue, a condition lock and a mode for a full queue; per output slot a list of down flows | `InstallSlotMap`, `SendInput`, `RunOnce`/`WhileRun`, `SetOutput`, `AddDownFlow`, `RemoveDownFlow`, `SetDisable`, `StopAllThread` | each other: a flow calls `SendInput` of the flows below it, in its own thread or, for SYNC inputs, in the caller's |
| Source flows (`flow/source_stream_flow.cc`, `flow/file_flow.cc`) | a reading thread, `loop`, the stream | constructor, `ReadThreadRun`, `Control`, destructor | a `Stream` above, `Flow::SendInput` of themselves |
| RTSP server (`live555/server/*`) | a list of buffers with a mutex, a pipe, `connecting`, the sessions | `PushNewVideo`, `Source::Push`, `Source::Pop`, `readFromList`, `startStream`, `deleteStream`, the SDP negotiation | pushed to by the coroutine of `RtspServerFlow`, popped from by the live555 event loop |
| Encoder flow and MPP encoder (`flow/video_encoder_flow.cc`, `encoder.cc`, `rkmpp/mpp_*encoder.cc`) | extra data, the list of requested changes, the configuration, the MPP context and who refers to it | constructor, `encode`, `RequestChange`, `PeekChange`, `CheckConfigChange`, `Process` | MPP |
| Decoder flow and MPP decoder (`flow/decoder_flow.cc`, `rkmpp/mpp_decoder.cc`) | packets and frames inside MPP, a limited group of buffers | `do_decode`, `SendInput`, `FetchOutput`, `Process` | MPP; the output flow below |
| DRM display (`stream/display/drm_disp`, `flow/output_stream_flow.cc`) | ids of crtc, encoder, connector, plane; rectangles; the image shown | `Open`, `IoCtrl`, `Write` | the kernel |
| V4L2 capture (`stream/camera`) | which buffers driver, stream and pipeline hold, `started` | `Open`, `Read`, `IoCtrl`, release of a buffer, `Close` | the kernel, the reader's thread, any thread that drops a buffer |
| Filter flow, RGA, RKNN (`flow/filter_flow.cc`, `rkrga`, `rknn`), buffers (`buffer.cc`) | the filter, its output image | constructor, `do_filters`, `Process`, allocation | vendor libraries |
| ALSA, muxers and demuxers, reflector, tables of names | none that outlives a call or that threads share | wrappers and parsers | libraries |

What is hard here is the concurrency of the flow graph. Every flow may have
threads of its own; locks are small, several tests are made without them, waits
are not loops, lists of down flows change while they are served, and
destructors have to stop and join threads that may be anywhere. The RTSP server
adds a hand-over between two threads in which a pipe and a list can disagree.
Buffers of the camera, of MPP and of the screen belong to limited pools and come
back when the last reference to them goes, in whatever thread. And opening a
device is a long sequence of steps each of which may fail.
The hazards of `PROJECT.json` list each such place at its line.

What makes each part correct:

* inputs of a flow: order per sender, the bound of the queue, what each full
  mode may lose, an assertion that hangs on who notifies when, a tear-down
  after which nobody is inside, senders and waiters that get on;
* source flows: no gap for a down flow that stays, at most one frame after
  removal, no lost wake-up, a destructor that ends;
* the RTSP source: the pipe announces every buffer, the list is bounded, what is
  handed on can be decoded, neither thread blocks the other for ever;
* encoder: extra data precede the first packet, outputs can be matched, changes
  are applied in order and once, the configuration is what MPP accepted, the
  context lives as long as its packets;
* decoder and display: frames are shown in the order decoded, the one on the
  screen is held, the thread of the decoder gets its packets in; ids chosen fit
  together, rectangles agree with the driver's;
* camera: every buffer has one owner, whoever holds it last can give it back,
  the ring never runs dry for good, a pipeline can be taken down.

## 2. Modules

| Module | What it is |
|---|---|
| `Channel` | abstract specification: what the asynchronous inputs of a flow promise, one bounded FIFO per slot, without threads or locks |
| `FlowInput` | the code of these inputs (`flow.cc`, ASYNCCOMMON): producers, the coroutine's thread and the destroying thread, one step per access to shared memory |
| `FlowInputProofs`, `FlowOrderProofs` | theorems about `FlowInput` for every value of the constants: locks, bounds and the refinement; the order and the contents of the queues |
| `SourceFlow` | a source flow of either kind, its reading thread, its down flow list, its destructor |
| `RtspSource` | the list, the pipe and the sessions of the RTSP server |
| `MppEncoder` | the MPP encoder: construction, changes, one frame |
| `EncoderFlow` | its two clients: the encoder flow and an application that calls it itself; composes `MppEncoder` |
| `EncoderProofs` | what holds of the encoder and its two clients for every rate, mask and number of frames, requests and failures |
| `DrmIds` | how a DRM stream narrows the ids of a board down, as operators on a board and the id arrays |
| `DrmDisplay` | the stream: `Open` step by step, `IoCtrl`, `Write`; uses `DrmIds` |
| `DrmBoards` | two boards and the request without wishes |
| `MppDecoder` | the MPP decoder, asynchronous and synchronous |
| `DecodeDisplay` | decoder flow above an output flow above a display; composes `MppDecoder` and `DrmDisplay` |
| `DecodeDisplayProofs` | what holds of the decoder, the two flows and the display for every board, mode and number of packets, calls and failures |
| `SourceProofs` | what holds of a source flow of either kind for every number of down flows, frames, repetitions and calls |
| `RtspProofs`, `RtspStreamProofs` | what holds of the list, the pipe and the sessions for every limit, group and number of clients; what is handed on, and how long the list gets |
| `CaptureProofs` | what holds of the camera pipeline for every set of parameters, every number of granted buffers and any failures |
| `FlowGraph` | how flows are put together, as operators on a flow: slot maps, wiring |
| `Filters` | RGA and RKNN as outcomes of a call; allocation |
| `V4L2Capture` | the capture stream and its ring of buffers |
| `CaptureGraph` | camera, filter flow and a flow of the application; composes `V4L2Capture`, `FlowGraph` and `Filters` |
| `MC...` | values for constants that a `.cfg` cannot write |

The four pipelines share the queue of a flow's input. `FlowInput` has it with every
access to shared memory; in `EncoderFlow`, `DecodeDisplay` and `CaptureGraph` a
call of `SendInput` or a fetch is one step, which is what the refinement of
`Channel` justifies.

### FlowInput

| In the model | In the code |
|---|---|
| `SendInput` | `Flow::SendInput`, the unlocked test of `enable` (`flow.cc:570`) |
| `ProducerLock`, `Push`, `PushDropFront`, `DropCurrent` | `ASyncSendInputCommonBehavior` and the two non-blocking full behaviours (`flow.cc:620-659`) |
| `Block`, `Peek`, `PushAfterRoom`, `BlockAgain`, `GiveUp` | `ASyncFullBlockingBehavior`: sleep with the lock, unlock, read `size()` without it, lock (`flow.cc:636-650`) |
| `While`, `WorkerLock`, `FetchNothing`, `Wait`, `FetchDisabled`, `Fetch`, `FetchAborts`, `Process` | `WhileRun`, `RunOnce`, `ASyncFetchInputCommon` (`flow.cc:149-227`) |
| `StopStart`, `StopLock`, `StopSlot`, `StopJoin` | destructor and `StopAllThread` (`flow.cc:306-317`) |
| `SetDisable`, `Detach` | `flow.h:97`, `RemoveDownFlow` of the upstream flow |
| `owner`, `Notified`, `SpuriousWakeup` | `ConditionLockMutex` (`lock.cc:51-60`) |

A critical section is one step; taking the lock is a step of its own, so a
thread can be kept out. `Spurious` lets `wait()` return for no reason, which
`std::condition_variable_any` may. `TornSizeRead` lets the unlocked `size()`
return anything while another thread holds the lock: it is a data race, and its
outcome is a choice. A buffer is its producer and a number; a null buffer sent
by `SendNullBufferDown` is a buffer like any other for the queue.
`accepted` and `delivered` are history. Each slot has its own capacity, mode and
`fetch_block`, as in the code.

### SourceFlow

`kind` says which of the two flows it is and never changes. `ReaderStart` is the
wait for the first down flow, `ReaderLoop`, `ReaderEof`, `ReaderRead`,
`ReaderReadsNull`, `ReaderNoMemory` and `ReaderFails` are the loop of
`ReadThreadRun`, `ReaderSend` to `ReaderSentDown` the SYNC run of the coroutine
in the same thread: `SendInput`, `process` with `SetOutput`, the copy of the
down flow list, one step for each flow served. `AddFlow`/`CountAdded` and
`RemoveFlow`/`CountRemoved` are the two critical sections of `AddDownFlow` and
`RemoveDownFlow`. `Destroy` to `DestroyJoin` are the two destructors. The
application may remove flows that are not attached, which the code counts all
the same; `proper` records that it has not done so.

### RtspSource

`PushFrame`, `PushExtra` and `Write` are `PushNewVideo` and `Source::Push` of the
pushing thread, `Reduced` is `h264_packet_reduction`; `Setup`, `Play` and
`Teardown` are what the subsession does for a client, and `ReadPipe`,
`PopBuffer`, `PopNothing` are `readFromList`. `pushing` is the time in `write()`
with the mutex held. The live555 library is outside the repository: one source
serves all clients, is created by the first SETUP and closed when the last
client leaves, as the overrides in `h264_server_media_subsession.cc` and
`reuseFirstSource` there expect.

### MppEncoder and EncoderFlow

| In the model | In the code |
|---|---|
| `stage`, `ParseParams` to `InitMjpeg` | constructor of the flow, `MPPEncoder::Init`, `MPPFinalEncoder::InitConfig`: each call may fail once |
| `CalcMppBps` | the function, with integer division; limits scaled |
| `RequestChange`, `Peeked`, `TakeChange`, `Apply` | `VideoEncoder::RequestChange`, `PeekChange`, the beginning of `MPPEncoder::Process`, `CheckConfigChange` |
| `NotPrepared`, `NotAccepted`, `NotReturned`, `LostInside`, `Encoded` | what can become of one frame in `Process` |
| `ctx`, `WithPacket`, `Drop` | `MPPContext` and its references: the encoder's and one per packet, or per output that got none |
| `Install`, `Extras` | the end of the flow's constructor: extra data on slot 0, null buffers on slot 1 |
| `While` to `SendDown1` | the coroutine with `encode` and `SendBufferDownFromDeque` |
| `Wire`, `SetDisable`, `Stop`, `Destruct`, `Release` | the other threads |
| `Request`, `CallProcess`, `ReturnProcess`, `Discard` | an application that encodes itself, as `mpp_enc_test` does |

`RequestChange` cannot be reached through the flow, which is why there are two
clients. `StaleChange` lets `PeekChange` read the value of any change, since it
reads it after the element is gone. `NoPacket` is a `Process` that returns 0 although MPP gave
no packet; the flow then sends `Bare`, a buffer without content that refers to the
context all the same (`KeepsContext`).

### DrmIds, DrmDisplay, MppDecoder and DecodeDisplay

A board is a record of connectors, encoders, crtcs and planes in the driver's order,
an id array the sequence of its first `count` elements, and `ok` says whether a
function returned true, false, or looked up an id that is 0 (an assertion, or
without assertions a null pointer). `DrmIds` keeps the defects of `drm_utils.cc`:
`RemoveElementExcept` keeps the first id, `EncodersByCrtcs` writes the wrong count,
`FirstUnion` copies bytes, `FilterModes` skips an element, the last entries of two
tables are never found. `opening` is how far `Open` has come; `blind` is a stream
whose `Open` returned `false`, that is 0. `plane` is the driver's side.

`MppDecoder` has what MPP holds (`mpp_in`, `mpp_out`, `awaits`) as variables of an
external part: packets are decoded in order as long as the group has a free
buffer, and a frame uses one until the program drops it (`Held`). `good` is the
history of frames decoded without error. `Results` says what MPP makes of a packet: a
frame, nothing of an empty one (`EmptyPackets`), and for the last one (`EosPackets`) a
flag, on its frame or on an empty frame behind it. `FetchOutput` gives a frame with the flag
back to MPP and returns an empty image (a finding). The synchronous `Process` returns
0 for an empty packet at once, and the output goes down without a picture. `Fetch`, `Send`, `Output`, `ProcessSync`,
`SendNullDown`, `SendDown` are `do_decode` and the send-down functions, one step
per call to MPP and per buffer sent; `FetchBuffer` and `SendBuffer` are the
coroutine of the output flow, which with a rate has an ATOMIC input. Construction
comes first, in the order of an application that needs both.

### FlowGraph, Filters, V4L2Capture and CaptureGraph

`FlowGraph` treats a flow as a record. `Installed` is `InstallSlotMap`, `CanInstall`
its refusals, `Aborts` its assertion, `Place` against `Input` and `Output` the slots
that are sorted while their settings are not. `Filters` names the call that fails.

`V4L2Capture` opens a device step by step (`OpenNew` to `QueueBuffer`, and
`DeleteUnopened` after a failure), for MMAP, DMABUF and USERPTR memory. A buffer's
index is in `queue` (queued), in `filled`, or lent; `buffer_vec` says which resources
its memory has, `ctx` is the shared context, which closes the device with its last
reference. `CaptureGraph` holds frames in the variables that hold references in
the code: `rbuf` (the reader's local), `source_out` and `filter_out` (an output's
`cached_buffer`), `fin` (`in_vector`), the inputs' queues. At the end of every step
`Release` puts back what nobody refers to any more, as the destructor of the last
`shared_ptr` does: that is part of the step, in whatever thread; of several frames that
go together any may be put back first. `OpenStream` is the creation of the stream in the
source's constructor and comes first, `NewSource` what the constructor does then; a
driver may grant fewer buffers than asked for, and none. Merged into one step
are: `process` and the send-down of the source, and those of the filter; neither
touches state that another thread can see in between except `enable`.
`Create` includes the match of the data types that the filter flow's constructor asks
the reflector for: both end it in the same way. Full queues of the filter and of the
sink drop a frame (`SetupsAssumption`). Assertions are those of a debug build; a failed
one, or a null pointer used, sets `crashed` and ends the behaviour.

## 3. Runs

| Run | Bounds | Shows |
|---|---|---|
| `FlowInput_modes` | 3 producers, 2 to a BLOCKING slot of size 1, 1 to a DROPFRONT slot of size 2, 3 sends each | safety under spurious wakeups, and that `Channel` is implemented |
| `FlowInput_live` | 1 producer per slot, BLOCKING and blocking fetch, DROPCURRENT and non-blocking fetch, torn reads | liveness; the exact bound with one producer; the assertion |
| `FlowInput_stop` | 1 producer, 1 slot | the destructor can hang (finding) |
| `SourceFlow_both` | 2 down flows, 3 additions, 2 frames, a file read twice | safety and liveness of both source flows |
| `SourceFlow_file_hang` | 1 frame | the destructor of a `file_read` flow can hang (finding) |
| `RtspSource_session` | 2 clients, 2 sources, 3 starts, 7 frames and 1 extra data, limit 3, groups of 2 | the list and the pipe across sessions |
| `RtspSource_null` | 1 client, 2 sources | a null buffer is dereferenced (finding) |
| `RtspSource_embrace` | 1 client, a pipe of 2 | pusher and server wait for each other (finding) |
| `EncoderFlow_clients` | 3 frames, 3 rounds, 2 attachments or detachments, 2 changes, 2 units of extra data, 1 failure; an input of 2 | what goes down and what is lost, how changes and the context end up |
| `DecodeDisplay_pipe` | 2 boards, 5 requests, 5 packets, the first of them null, the last empty, two with the end-of-file flag, MPP takes 1 packet and has 2 buffers, queues of 1, 1 change of parameters, 1 failure of MPP, 1 of DRM, 1 `IoCtrl` | order, what is held, ids and rectangles, and that the decoder gets on |
| `DrmDisplay_reserve` | 1 board, a request for the second connector | the first is kept (finding) |
| `CaptureGraph_camera` | 5 pipelines and 17 broken setups, rings of 2 and 3 of which a driver may grant one less than 3, and one of 4 of which it grants none, queues of 1, 1 failure, 1 `S_STREAM_OFF` by the application | ownership of buffers, release in any order, no dry ring, tear-down |

Why the bounds are enough. A queue overruns when two producers pass the unlocked
test for one place, so two producers and size 1 show it, and three sends let a
producer be blocked, released and blocked again while the other slot fills and
evicts. Two slots are needed for a fetch that is interrupted between them. Two
down flows, added and removed three times, show a list that changes in the middle
of being served on either side of the flow served. In `RtspSource_session` the
limit (3) lies below the number of buffers (8), so reductions happen with and
without an I frame in the list; the pipe holds all of them, which keeps the
blocking write, the subject of `RtspSource_embrace`, out of the picture;
`ListBound` is 6 there, less than 8. It is attained, and the limit (60 in the code)
is not: a reduction erases up to the last I frame, so it and the P frames behind it
stay, and every start adds up to a group to them.

In `EncoderFlow_clients` three rounds let a failure fall before, between and after
successful ones, with an output that has something cached at that time, and a
receiver that is attached early, late or leaves in between; the rates are one within
and one beyond the scaled limit. In `DecodeDisplay_pipe` two buffers are the least
with which a screen leaves one to decode into, so the group is exhausted whenever a
frame waits anywhere; five packets, a null one and an empty one among them, make the queue of every stage
full at once; four of them have content, so that a group that nothing comes back to leaves one
packet inside MPP and one outside. The limits 1 to 3 that the constructor calls invalid are used all the same; the
scaled 2 stands for a small valid one. The requests name nothing, ids that are not
the first, a format the tables miss, a rate and a size, a plane type with planes to
skip. In `CaptureGraph_camera` rings of two are the default and the least the code
asserts; together with queues of one element every frame can be lent at the same
time. Each thread model, each hold mode and each kind of memory occurs in a
pipeline, and each check of the constructors fails in one of the broken setups. One
failure may hit any call of a behaviour; two independent ones are not covered.

Deadlock is not checked, because each of these models may stop: producers have
sent what the bound allows, the flow has been destroyed, a stream has ended or could
not be opened. That nothing stops too early is what the liveness properties say.

Fairness. A thread that can run does so (weak fairness of each thread's steps),
`process()` and `Read()` return. Taking a mutex has strong fairness in
`FlowInput`: the blocking loop holds `cond_mtx` for 5 ms, gives it up to look at the
size and takes it again, and nothing in the code guarantees that the other
thread gets it in between; that a thread that keeps trying gets a mutex that is
free again and again is an assumption about the mutex. Nobody is obliged to send, to add a
flow, to detach or to destroy. In `RtspSource` a readable pipe is served as long
as somebody plays. In `DecodeDisplay` both coroutines go on and MPP decodes what it
can; no failure is forced. In `CaptureGraph` a destructor that has begun is not
abandoned, the threads of reader, filter and sink go on, and a device that is on
fills the buffers it has been given.

Some properties need a word. `Processed` speaks of slots whose neighbours do not
block: a slot with `fetch_block` makes the coroutine wait for it and starves the
others for as long as nothing comes. `Progress` of `DecodeDisplay` leaves out the
time in which MPP waits to be told of a change of parameters while it is full, which
only a fetch could end, and blind streams; both are findings. `Progress` of
`CaptureGraph` asks for a ring larger than what stays lent while nothing moves; the
cases with two buffers it leaves out are a finding. `ContextOutlivesPackets` leaves
out an encoder whose `mpp_init` failed (a finding). `DecodedInOrder` asks for all
frames only above a BLOCKING input, and on the asynchronous way not for one that carries
the end-of-file flag (a finding). `ReaderStarts` and `SleeperIsWoken` speak of an
application that removes attached flows only.

Every property also has a mutant: an operator next to a definition of the model,
its comment begins with "Mutant of", that changes this definition as a plausible
bug would. With the mutant in its place TLC finds the property violated.

## 4. Findings

Shown by a run:

* `StopEnds`: the coroutine tests `quit` without the lock, then waits without
  testing it (`flow.cc:176`, `217`); a stop in between is missed and the join hangs.
* `DestroyEnds`: `FileReadFlow` waits without looking at `loop`
  (`flow/file_flow.cc:119`), so a notify that comes first is lost.
  `SourceStreamFlow` tests `IsEnable()` and is right (`StreamDestroyEnds`).
* `NoNullDereference`: reductions leave ints in the pipe; a source created later
  pops null and dereferences it (`live555_media_input.cc:317`).
* `PushReturns`: `write()` to a full pipe with the mutex the reader needs
  (`live555_media_input.cc:241`).
* `ReservedIsKept`: `remove_element_except` keeps the first id instead of the one
  asked for (`drm_utils.cc:245`).

Met while modelling, and kept by the models: what they do is in the actions, and
properties except them where they must.

* A spurious wakeup fails `assert(!v.empty())` (`flow.cc:217-223`): set
  `Spurious = TRUE` in `FlowInput_live.cfg` and TLC finds `FetchAssert` violated. The
  theorem below says that spurious wakeups are the only way.
* `~SourceStreamFlow` calls the stream's `IoCtrl` while the other thread may be in
  `Read` (`source_stream_flow.cc:86`); `stream.h:91` asks for the same thread.
* Flow graph: `InstallSlotMap` ignores a coroutine that could not start, moves inputs
  that must not be moved, sorts slots without their settings; INHERIT_FORM_INPUT uses
  null inputs (`flow.cc:507`, `475`, `729`).
* DRM: four more defects of `drm_utils.cc` (`270`, `334`, `359`, `558`) and an `Open` that
  returns `false` for failure (`drm_output_stream.cc:194`).
* Decoder: `do_decode` never fetches while it cannot send; limits called invalid are
  used; a failed poll leaves a task behind; a frame that carries the end-of-file flag loses
  its picture (`decoder_flow.cc:98`, `mpp_decoder.cc:73`, `404`, `517`).
* Encoder: a context destroyed twice after a failed `mpp_init`; `PeekChange` reads an
  element it has popped; an output without a packet keeps the context (`mpp_encoder.cc:66`,
  `encoder.cc:52`, `mpp_encoder.cc:246`).
* Camera: two buffers are too few for a filter that holds its input; a stream that was
  switched off stays off (`v4l2_capture_stream.cc:86`, `v4l2_stream.cc:136`).
* `alloc_ion_memory` does not notice a failed `mmap` (`buffer.cc:129`); ALSA playback
  repeats the beginning of a buffer after a partial write
  (`alsa_playback_stream.cc:84`; not modelled).

Smaller things a maintainer may want to know, all kept by the models: an application
that removes flows that are not attached can make `down_flow_num` zero while a flow is
attached, and the reader sleeps (see `ReaderStarts`); a file whose length is a
multiple of the read size is followed by one empty buffer, because `Eof` is only
true after a short read; `Process` of the encoder returns 0 for a null frame at once, so
the flow sends an empty buffer; a refused change
costs the frame, and of a mask with several changes only the first is applied; after a
failed output poll the encoder returns each packet one frame late; the buffer of motion
data is never filled; a disabled flow with a non-empty queue makes its coroutine
send nulls without a pause; ATOMIC and SYNC outputs keep only the last of several
decoded frames; an opened USERPTR stream has no buffer to capture into.

## 5. Proofs

### The inputs of a flow

`FlowInputProofs` and `FlowOrderProofs`, for any finite set of producers, any number of slots,
any capacity, mode and `fetch_block` per slot and any number of sends, from the assumptions
that `FlowInput` names. `Invariance` is `Spec => []IInv`, and `IInv` is the
conjunction of

* `TypeOK`;
* `LockInv`: a thread owns `cond_mtx` exactly at the labels of its critical
  sections; without it two threads could be in one at the same time;
* `ModeInv`: only BLOCKING reaches the labels of the sleeping loop;
* `WakeInv`: a wait that a notify ended finds a buffer or a disabled flow. It is
  inductive because one thread takes buffers and evictions add one in the same
  step; `FetchAssert` is its consequence;
* `BoundInv`: each producer that passed the unlocked test counts as an element
  of the queue. `QueueBound` alone is not inductive: a step that adds a buffer
  needs to know how many others are about to;
* `SendInv`: what is being sent is newer than what was accepted, and in BLOCKING
  mode the next number;
* `StopInv`: references go first, then `enable` and `quit`, then the thread.

| Theorem | States |
|---|---|
| `TypeCorrect` | `[]TypeOK` |
| `FetchAssertHolds` | without spurious wakeups `[]FetchAssert` |
| `QueueBoundHolds` | without torn reads `[]QueueBound` |
| `SafeToDestroyHolds` | `[]SafeToDestroy` |
| `Refinement` | without torn reads `Spec => Implements`: every step is a step of `Channel` or a stutter |
| `InOrderHolds`, `LosslessHolds`, `NewestKeptHolds` | `[]InOrder`, `[]Lossless`, `[]NewestKept` |
| `WholeInputsHolds`, `OneProducerBoundHolds` | `[]WholeInputs`, `[]OneProducerBound` |

The last five follow from a second invariant, `DataInvariance` (`Spec => []DataInv`):
on top of `IInv`, `DataInv` says what is in `in_vector` while a fetch is under way
(`FetchInv`), that what a producer is sending is the number after its last accepted
one wherever nothing is lost (`NextInv`), that a slot with one producer has room
whenever this producer has seen room (`OneInv`), and that a slot nobody sends to is
empty (`EmptyInv`); with these, `InOrder`, `Lossless` and `NewestKept` are inductive
together. A push, an eviction and a fetch are each treated once, as an operation on the
queue, and every action of the module is one of them or leaves the data alone.

The two conditions are real ones: with spurious wakeups the assertion fails, and
with torn reads a BLOCKING slot with several producers has no bound.

### The encoder

`EncoderProofs`, for any rates and limits of rates, any set of non-empty masks, any
length of the input queue and any number of frames, requests, rounds, attachments and
failures. `Invariance` is `Spec => [](IInv /\ RateWithinLimits)`; `IInv` is the conjunction of

* `TypeInv`: types, and `InUse`: only a configured encoder is used, and it goes when the
  coroutine has been joined;
* `ChangesInv`: what `config` and `driver` are before, while and after they are
  configured. `ChangesKept` is about a configured encoder only and not inductive: the
  step that configures it needs to know that nothing but the rate was set before. The
  numbers in `change_list` are between those applied and the last request;
* `CtxInv`: `ctx.refs` is the number of references that exist: the encoder's (`Owner`), that
  of a packet between `Process` and `SetOutput` (`InHand`), those of the queue and those of
  what the receiver has not released. An output that `Process` left without a packet
  counts like a packet (`KeepsContext`). What is in a queue is counted with `Cardinality`,
  so a few lemmas (`HeldConcat`, `UnreleasedConcat`, `UnreleasedNext`) say how the count
  changes when sequences are joined and released;
* `PairInv`: the queues of the two slots match, buffer by buffer, between two calls of
  `SetOutput` and of `SendDown`. When the flow is disabled between the two calls of
  `SetOutput` they differ for ever, but `ret` is then false and so is that of every later
  round: only null buffers go down, one to each slot. This argument is the invariant.

| Theorem | States |
|---|---|
| `TypeCorrect` | `[]TypeOK` |
| `ConfigurationKept` | `[]ChangesKept` |
| `RatesAgree` | `[]RateWithinLimits`: integer division and both limits included |
| `ContextKept` | `[]ContextOutlivesPackets` |
| `SlotsPaired` | `[]Paired` |
| `DeliveredInOrder` | `[]Delivered` |

`DeliveredInOrder` follows from a second invariant, `SendInvariant` (`Spec => []SendInv`), on
top of the first. `SendInv` is about the client that is a flow:

* `OrderInv`: a packet is sent down, queued, returned, inside MPP, in the coroutine's hand
  or still in the input, in this order of their numbers (`Chain`). It says of each place
  that its packets are in order and older than those of the places before it; without
  the places in between, the order of what was received is not inductive;
* `CallsInv`: a receiver that is there from the start has seen only null buffers, one
  for each round, and the extra data wait in front of the cache (`Unsent`), or it has
  got them after some null buffers, and nothing of them is left (`Sent`). A round in
  which nothing goes down leaves as many buffers as before; one in which something does
  empties the cache (`Room`).

`Delivered` is stated by positions (`ExtrasAfter`), which says the same as the
subsequences one would take out with `SelectSeq` and can be reasoned about.

### The decoder and the display

`DecodeDisplayProofs`, for any sizes of the queues, any modes of the output's input and any
number of packets, calls and failures. `Invariance` is `Spec => []IInv`, and
`IInv` the conjunction of

* `DrmInv`: the rectangles agree, which is inductive only with what holds before: `Open`
  learns late (`Agree`) whether the plane scales, and from then on both rectangles have
  to be alike, so until then (`Narrowing` names the states) they must be what the
  request left; `IoCtrl` is refused before the stream is open. A plane shows a frame only when the stream is
  open, and then the one of `disp_buffer`; a commit that fails changes neither. The ids
  are always a record with one of three results, whatever the board: one lemma for
  each operator that narrows them (`NarrowIds`, `ReserveIds`, `ConditionIds`, ...);
* `PipeInv`: each queue is within its limit, `ret` of `do_decode` says that an image has
  been queued, and the index of the image to send next lies within the queue.

| Theorem | States |
|---|---|
| `TypeCorrect` | `[]TypeOK` |
| `RectanglesAgree` | `[]RectsAgree` |
| `ShownIsHeld` | `[]ScannedOutIsHeld` |

Two more invariants are about what passes through.

`OrderInv` (`OrderInvariance`): packets are in the input, in the coroutine's hand, inside MPP or
decoded, frames in MPP's output, in the list of outputs, in the queue of the output
flow, in the hand of its thread or written, in this order (`PacketChain`,
`FrameChain`). An ATOMIC input keeps its frame after it was fetched, so there two neighbours may
share one; above a BLOCKING input no frame is missing, except one whose picture went
with the end-of-file flag (`Flagged`), which is what makes
`DecodedInOrder` more than a statement about the frames that arrive. It is stated for
all frames on their way (`OnTheWay`), so that it is inductive together with the order
of the packets.

`FitInv` (`FitInvariance`) is about `Open`: the connectors and the planes that are left satisfy each wish
from the step that looks at it on (`FitConnectors`, `FitPlanes`), the arrays hold ids of the board, or 0
where a count is too large (`Within`), and nothing is chosen before `Agree`. The defects of
`drm_utils.cc` make `Open` fail or look up an id 0, keep too few ids or ids that were
not asked for by number; none of them lets an id through that does not
fit the wishes looked at, and this is what `ChosenFit` says. It needs an assumption about the driver,
`BoardsAssumption`: ids are not 0, a connector has at least one encoder (asserted in
`drm_utils.cc:326`, `422` and `492`) and the one it uses is one of those. Removing ids from an array is
`Among`, a recursive function; `AmongOnes` proves what it leaves by taking the least
prefix that contradicts it, since the natural numbers are well-founded. `Compatible` does not say
that the ids asked for by number were kept, which is false (`ReservedIsKept`).

| Theorem | States |
|---|---|
| `FramesInOrder` | `[]DecodedInOrder` |
| `ChosenFit` | `[]Compatible` |

### Source flows

`SourceProofs`, for either kind of flow, any set of down flows and any number of
frames, repetitions and calls. `IInv` is the conjunction of

* `TypeOK` and `ReadInv`: before the end of a round (`End`) there is something left to read,
  so nothing is read beyond the last; `Rounds` does the multiplication;
* `CountInv`: `down_flow_num` and what the call under way will do to it;
* `ThreadInv`: a copy of the list exists only while it is served, and
  the flow is disabled while its thread runs only once it is being destroyed;
* `SleepInv`: `down_flow_num` is not less than the number of flows attached as long as the
  application removes attached ones only; a reader sleeps only while it is zero, and on a
  disabled source_stream flow only before the destructor notifies. `SleeperIsWoken`
  follows; alone it is not inductive, since a removal may leave one flow of two;
* `ListInv`: a flow is at most once in the list and in the copy of it (`AddFlow` looks
  first, `Without` leaves the rest); a removed one that got its late frame is not in the
  copy any more;
* `StepInv`: every flow that stayed attached has got all frames but the one under
  way, if it is still to get that one (`Pending`), or the flow was disabled by its destructor and
  sends nothing more (`Deaf`). `NoGap` and `AllFrames` are both read off this.

| Theorem | States |
|---|---|
| `TypeCorrect` | `[]TypeOK` |
| `AtMostOneLate` | `[]OneLateFrame` |
| `SleepersAreWoken` | `[]SleeperIsWoken` |
| `AllFramesSent` | `[]AllFrames` |
| `NoGaps` | `NoGap`, an action property |

### The RTSP source

`RtspProofs` and `RtspStreamProofs`, for any limit and pipe, any length of a group and any
number of clients, sources, starts, frames and extra data. The operators of the
module pick the first and the last I frame with `Min` and `Max`: `LeastElement` and
`GreatestElement` show that there is one, from the well-foundedness of the natural
numbers, and `ReducedErases` that `Reduced` is either its argument or that without what
lies from its first frame up to the last I frame.

* `IInv` is `TypeInv`, `SessionInv` (connected = somebody plays, source = somebody has a
  stream), `Announced` and `FirstInv`. `FirstSourceSafe` says that the first source never
  sees a null buffer before an I frame. It is not inductive: `FirstInv` adds why,
  that until then either there is an I frame in the list, the last of which a reduction
  keeps and which is popped before the list can be empty, or no reduction has
  found one, and then there are exactly as many ints as buffers.
* `StreamInv`, for the first start: in the list a P frame comes after the frame it refers
  to (`Linked`), what is left can be handed on after what was handed on last (`Follows`),
  and from every frame the list leads to the newest one (`Reaches`), so that the next
  P frame pushed is linked too. A reduction takes all frames before the last I frame,
  which is why erasing in the middle does no harm. From the second start on it is false:
  what `Stop` left in the list is followed by P frames that refer to frames nobody
  pushed.
* `CountInv`: extra data in the list, and P frames behind the last I frame (`Recent`), are
  at most those sent, a group less one per start (`Groups`) and one; while somebody
  plays the current start has added `since_intra` at most.

| Theorem | States |
|---|---|
| `TypeCorrect` | `[]TypeOK` |
| `BuffersAnnounced` | `[]Announced` |
| `FirstSourceIsSafe` | `[]FirstSourceSafe` |
| `HandedOnDecodable` | `Decodable`, an action property: `StreamInv` says that it holds of the next step |
| `ListBounded` | `[]ListBound` |

### The camera pipeline

`CaptureProofs`, for any set of parameters of the camera, the filter and the sink that
`SetupsAssumption` and `CountsAssumption` type, any number of buffers the driver grants, and any
number of failing calls. `CaptureInvariant` is `Spec => []IInv`; `IInv` is the conjunction of

* `DevInv`, about the stream and the ring. `OpenInv`: at each step of `Open` which
  buffers have memory and which are queued, so that nothing is lent before the stream
  is open. `Apart`: an index is at one place only, in `queue`, in `filled`, lent or
  lost. `Backed`: a buffer that a frame or the driver refers to has its memory and an
  open device; when the stream has gone, its part of each buffer that is not lent has
  gone too. `NoneMissing`: until the stream is switched off every buffer is at one of
  these places;
* `GraphInv`, about the flows. `GraphTypes`; `Shape`: which of the flows have been made
  and that the filter, once there, has the input its thread uses; `Threads`: the reader
  exists while the source does, holds a frame only between `Read` and the send-down, and
  before the filter is there waits for a down flow or has been told to stop.

The two depend on each other: that a frame is put back exactly when the last
reference goes needs to know which variables can hold one at the labels of the two
threads, and that no thread uses a stream that has gone needs the order in which the
application takes the pipeline down. The end of every step, `Release`, is treated
once, for any set of frames that is let go, whichever of them the driver gets first
(`QBUF` is free to choose the order), whether the stream is there or has gone and whether the
call fails; every action adds only what it does before.

| Theorem | States |
|---|---|
| `CaptureTypes` | `[]TypeOK` |
| `CaptureOneOwner` | `[]OneOwner` |
| `CaptureSafeRelease` | `[]SafeRelease` |

### What is only model-checked

Every safety invariant and every action property of the passing runs is a theorem. Left
to TLC are the liveness properties (`Processed`, `SendReturns`, `ReaderStarts`, `StreamDestroyEnds` and the
two called `Progress`), what the five runs that expect a violation find, and what the display does beyond
`Compatible`: which of the fitting ids is chosen first, and the mode that `ChooseMode` picks.

The reason is the prover: liveness under fairness and ENABLED are out of its reach, and
the induction theorems of its library cannot be applied, so that what a fold computes
(`FilterModes`, `EncodersOfConnectors`) has no theorem; the modules use no RECURSIVE operators.

## 6. Not modelled

* ALSA playback and capture: every call opens a device or loops over one library
  call in the caller's thread; nothing is kept between calls that another could see.
* Muxers, demuxers, ogg, vorbis and ffmpeg: sequential wrappers of libraries the
  repository does not contain, which no flow runs.
* The factories' registration before `main`, tables of names, parsing of parameters:
  no state changes while flows run. Where a table or a default decides what a flow
  does, the flow's module has it.
* The kernel's side of V4L2 and DRM, MPP, RGA and RKNN are external parts: they do what
  the code relies on, in any order it allows, and may fail.
* RTSP: the SDP negotiation (`getAuxSDPLine` runs live555's event loop inside itself,
  and what answers it is live555's), several servers that share `kSessionIdList`, and
  audio, which `rtsp_server.cc` switches off.
* A filter or a flow below it whose input waits when it is full (BLOCKING), and a SYNC or
  ASYNCATOMIC input below a filter, which `SetupsAssumption` of `CaptureGraph` excludes: the thread
  would wait, or run the flow below, in the middle of a step. BLOCKING inputs are in `FlowInput`
  and `DecodeDisplay`.
* `FileWriteFlow`; a file flow's construction; SYNC inputs fed by several threads, which
  no pipeline of the repository has; filters with several inputs and the retagging of a
  shared `ImageInfo` in `filter_flow.cc:164-178`; OSD regions and most parameter values
  of the encoder; the plane image information of the display.

What a next step would be: several filters in a row above one camera, to find the
least ring for a given graph; two pipelines on one screen.
