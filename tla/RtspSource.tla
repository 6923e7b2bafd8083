------------------------------ MODULE RtspSource ------------------------------
(***************************************************************************)
(* How video gets from the pipeline into the RTSP server: the coroutine of *)
(* RtspServerFlow calls Live555MediaInput::PushNewVideo, the server thread *)
(* (the live555 event loop) serves the clients' sessions and pops frames   *)
(* in VideoFramedSource::readFromList.  The two share a list of buffers    *)
(* under a mutex and a pipe: one int is written per buffer pushed and one  *)
(* is read before each Pop, which lets the event loop wait for buffers.    *)
(* When the list is long the push first throws away old frames             *)
(* (h264_packet_reduction); the pipe is not told.                          *)
(*                                                                         *)
(* A buffer is [kind, id]: extra data (SPS, PPS), an I frame or a P frame; *)
(* id numbers the frames of the encoder, extra data has id 0.              *)
(*                                                                         *)
(* The session handling of live555 is outside this repository.  What is    *)
(* used of it: one source serves all clients (reuse the first source), it  *)
(* is created by the first SETUP, asks for frames from the first PLAY on,  *)
(* and is closed when the last client is gone.                             *)
(***************************************************************************)
EXTENDS Naturals, Sequences, FiniteSetsExt

CONSTANTS
    Clients,
    MAX_CACHE_NUMBER,   \* 60 in the code
    PipeSize,           \* how many ints the pipe holds
    Gop,                \* the encoder sends an I frame every Gop frames at least
    MaxFrames,          \* bound: frames of the encoder
    MaxExtras,          \* bound: extra data buffers of the encoder
    MaxSources,         \* bound: VideoFramedSources created
    MaxStarts           \* bound: calls of Live555MediaInput::Start

ASSUME CacheAssumption == MAX_CACHE_NUMBER \in Nat \ {0}
ASSUME PipeAssumption == PipeSize \in Nat \ {0}
ASSUME BoundsAssumption == /\ MaxFrames \in Nat /\ MaxExtras \in Nat
                           /\ MaxSources \in Nat /\ MaxStarts \in Nat
                           /\ Gop \in Nat \ {0}

Kinds == {"extra", "intra", "pred"}
NoFrame == [kind |-> "extra", id |-> 0]

VARIABLES
    frames,         \* frames the encoder has sent so far
    extras,         \* extra data it has sent so far
    since_intra,    \* frames since and including its last I frame
    connecting,     \* Live555MediaInput::connecting
    cached_buffers, \* Source::cached_buffers
    pipe,           \* ints in the pipe
    pushing,        \* the pushing thread is in write(), holding mtx
    users,          \* clients with a stream, SETUP to TEARDOWN
    kSessionIdList, \* clients that play
    source,         \* the VideoFramedSource exists
    sources,        \* how many have existed
    asking,         \* and has been asked for frames
    got_iframe,     \* VideoFramedSource::got_iframe
    popping,        \* the server thread has read an int and not yet popped
    crashed,        \* a null buffer was dereferenced
    shown,          \* history: the last frame the source handed on
    starts          \* history: calls of Live555MediaInput::Start

encoderVars == <<frames, extras, since_intra>>
queueVars == <<cached_buffers, pipe>>
sessionVars == <<connecting, users, kSessionIdList, source, sources, asking,
                 starts>>
readVars == <<got_iframe, popping, crashed, shown>>
vars == <<encoderVars, queueVars, pushing, sessionVars, readVars>>

Init ==
    /\ frames = 0
    /\ extras = 0
    /\ since_intra = Gop
    /\ connecting = FALSE
    /\ cached_buffers = << >>
    /\ pipe = 0
    /\ pushing = FALSE
    /\ users = {}
    /\ kSessionIdList = {}
    /\ source = FALSE
    /\ sources = 0
    /\ asking = FALSE
    /\ got_iframe = FALSE
    /\ popping = FALSE
    /\ crashed = FALSE
    /\ shown = NoFrame
    /\ starts = 0

-----------------------------------------------------------------------------
(* The pushing thread.                                                     *)

\* Mutant of Reduced: the first I frame is kept instead of the last.
ReducedToFirst(list) ==
    LET intras == {i \in DOMAIN list : list[i].kind = "intra"}
        others == {i \in DOMAIN list : list[i].kind # "extra"}
    IN  IF Len(list) < MAX_CACHE_NUMBER \/ intras = {}
        THEN list
        ELSE SubSeq(list, 1, Min(others) - 1) \o SubSeq(list, Min(intras), Len(list))

\* Mutant of Reduced: the I frame is erased too.
ReducedPastIntra(list) ==
    LET intras == {i \in DOMAIN list : list[i].kind = "intra"}
        others == {i \in DOMAIN list : list[i].kind # "extra"}
    IN  IF Len(list) < MAX_CACHE_NUMBER \/ intras = {}
        THEN list
        ELSE SubSeq(list, 1, Min(others) - 1) \o SubSeq(list, Max(intras) + 1, Len(list))

\* Mutant of Reduced: common_reduction, which is the one for audio.
ReducedByHalf(list) ==
    IF Len(list) > MAX_CACHE_NUMBER
    THEN SubSeq(list, MAX_CACHE_NUMBER \div 2 + 1, Len(list))
    ELSE list

\* h264_packet_reduction: when the list is long, erase from the first buffer
\* that is not extra data up to, and without, the last I frame.
Reduced(list) ==
    LET intras == {i \in DOMAIN list : list[i].kind = "intra"}
        others == {i \in DOMAIN list : list[i].kind # "extra"}
    IN  IF Len(list) < MAX_CACHE_NUMBER \/ intras = {}
        THEN list
        ELSE SubSeq(list, 1, Min(others) - 1) \o SubSeq(list, Max(intras), Len(list))

\* Mutant of Push: write only when the list was empty.
PushWakesOnce(buffer) ==
    /\ cached_buffers' = Append(Reduced(cached_buffers), buffer)
    /\ pushing' = (cached_buffers = << >>)
    /\ UNCHANGED <<pipe, sessionVars, readVars>>

\* Source::Push up to the write: lock, reduce, append.
Push(buffer) ==
    /\ cached_buffers' = Append(Reduced(cached_buffers), buffer)
    /\ pushing' = TRUE
    /\ UNCHANGED <<pipe, sessionVars, readVars>>

\* PushNewVideo: frames that nobody plays are dropped, extra data is kept.
PushFrame(kind) ==
    /\ ~pushing /\ ~crashed
    /\ frames < MaxFrames
    /\ kind = "pred" => since_intra < Gop
    /\ frames' = frames + 1
    /\ since_intra' = IF kind = "intra" THEN 1 ELSE since_intra + 1
    /\ UNCHANGED extras
    /\ IF connecting
       THEN Push([kind |-> kind, id |-> frames + 1])
       ELSE UNCHANGED <<queueVars, pushing, sessionVars, readVars>>

PushExtra ==
    /\ ~pushing /\ ~crashed
    /\ extras < MaxExtras
    /\ extras' = extras + 1
    /\ UNCHANGED <<frames, since_intra>>
    /\ Push([kind |-> "extra", id |-> 0])

\* write() to the pipe, which waits, with the mutex, while the pipe is full.
Write ==
    /\ pushing /\ ~crashed
    /\ pipe < PipeSize
    /\ pipe' = pipe + 1
    /\ pushing' = FALSE
    /\ UNCHANGED <<encoderVars, cached_buffers, sessionVars, readVars>>

-----------------------------------------------------------------------------
(* The server thread: sessions.                                            *)

Idle == ~popping /\ ~crashed

\* createNewStreamSource for the first client.
Setup(c) ==
    /\ Idle
    /\ c \notin users
    /\ source \/ sources < MaxSources
    /\ users' = users \cup {c}
    /\ source' = TRUE
    /\ sources' = IF source THEN sources ELSE sources + 1
    /\ got_iframe' = (source /\ got_iframe)
    /\ shown' = IF source THEN shown ELSE NoFrame
    /\ UNCHANGED <<encoderVars, queueVars, pushing, connecting, kSessionIdList,
                   asking, starts, popping, crashed>>

\* startStream.
Play(c) ==
    /\ Idle
    /\ c \in users
    /\ kSessionIdList = {} => starts < MaxStarts
    /\ connecting' = (connecting \/ kSessionIdList = {})
    /\ kSessionIdList' = kSessionIdList \cup {c}
    /\ asking' = TRUE
    /\ starts' = IF kSessionIdList = {} THEN starts + 1 ELSE starts
    /\ UNCHANGED <<encoderVars, queueVars, pushing, users, source, sources,
                   readVars>>

\* Mutant of Teardown: the session stays in kSessionIdList.
TeardownForgets(c) ==
    /\ Idle
    /\ c \in users
    /\ users' = users \ {c}
    /\ source' = (users' # {})
    /\ asking' = (asking /\ users' # {})
    /\ UNCHANGED <<encoderVars, queueVars, pushing, connecting, kSessionIdList,
                   sources, starts, readVars>>

\* deleteStream; the source is closed with its last user.
Teardown(c) ==
    /\ Idle
    /\ c \in users
    /\ users' = users \ {c}
    /\ kSessionIdList' = kSessionIdList \ {c}
    /\ connecting' = (connecting /\ kSessionIdList' # {})
    /\ source' = (users' # {})
    /\ asking' = (asking /\ users' # {})
    /\ UNCHANGED <<encoderVars, queueVars, pushing, sources, starts, readVars>>

-----------------------------------------------------------------------------
(* The server thread: VideoFramedSource::readFromList.                     *)

ReadPipe ==
    /\ Idle
    /\ asking
    /\ pipe > 0
    /\ pipe' = pipe - 1
    /\ popping' = TRUE
    /\ UNCHANGED <<encoderVars, cached_buffers, pushing, sessionVars, got_iframe,
                   crashed, shown>>

\* Pop takes the mutex.
Popping == popping /\ ~pushing /\ popping' = FALSE

\* Skip everything up to the first I frame, except extra data.
PopBuffer == LET buffer == Head(cached_buffers) IN
    /\ Popping
    /\ cached_buffers # << >>
    /\ cached_buffers' = Tail(cached_buffers)
    /\ got_iframe' = (got_iframe \/ buffer.kind = "intra")
    /\ shown' = IF got_iframe' /\ buffer.kind # "extra" THEN buffer ELSE shown
    /\ UNCHANGED <<encoderVars, pipe, pushing, sessionVars, crashed>>

\* Pop returns null: an empty frame, or a null pointer that is dereferenced.
PopNothing ==
    /\ Popping
    /\ cached_buffers = << >>
    /\ crashed' = ~got_iframe
    /\ UNCHANGED <<encoderVars, queueVars, pushing, sessionVars, got_iframe,
                   shown>>

-----------------------------------------------------------------------------

Encoder == \/ \E kind \in {"intra", "pred"} : PushFrame(kind)
           \/ PushExtra

Next == \/ Encoder
        \/ Write
        \/ \E c \in Clients : Setup(c) \/ Play(c) \/ Teardown(c)
        \/ ReadPipe
        \/ PopBuffer \/ PopNothing

Spec == Init /\ [][Next]_vars

\* The pushing thread writes when there is room, the event loop serves a
\* readable pipe as long as somebody plays.
FairSpec == Spec /\ WF_vars(Write) /\ WF_vars(PopBuffer \/ PopNothing)
                 /\ WF_vars(ReadPipe)

-----------------------------------------------------------------------------
(* Properties.                                                             *)

Buffer == [kind : Kinds, id : 0 .. MaxFrames]
AsNat(b) == IF b THEN 1 ELSE 0

\* The type of the state.
TypeOK ==
    /\ frames \in 0 .. MaxFrames
    /\ extras \in 0 .. MaxExtras
    /\ since_intra \in 1 .. Gop
    /\ cached_buffers \in Seq(Buffer)
    /\ pipe \in 0 .. PipeSize
    /\ users \subseteq Clients
    /\ kSessionIdList \subseteq users
    /\ sources \in 0 .. MaxSources
    /\ starts \in 0 .. MaxStarts
    /\ {connecting, pushing, source, asking, got_iframe, popping, crashed}
         \subseteq BOOLEAN
    /\ shown \in Buffer

\* Every buffer in the list is announced in the pipe, so none is forgotten in
\* it while the event loop waits; only reductions leave more ints than buffers.
Announced == Len(cached_buffers) <= pipe + AsNat(pushing) + AsNat(popping)

\* The list is not bounded by MAX_CACHE_NUMBER, but by what a reduction leaves:
\* extra data, the last I frame, and up to one group without its I frame for
\* each time the input was started since.
ListBound ==
    LET left == extras + starts * (Gop - 1) + 2
    IN  Len(cached_buffers) <= Max({MAX_CACHE_NUMBER, left})

\* A source that is the first one never finds the list empty before it has
\* seen an I frame: Pop's null, then dereferenced (live555_media_input.cc:317),
\* needs the ints that reductions left in the pipe and a second source.
FirstSourceSafe == crashed => sources > 1

\* readFromList checks the buffer (`if (buffer)`, live555_media_input.cc:321)
\* for null, so a null buffer ought to end as an empty frame.
NoNullDereference == ~crashed

\* As long as the input has not been stopped and started again, a P frame is
\* handed on only right after the frame it refers to: reductions lose frames,
\* but only in front of an I frame.
Decodable ==
    [][starts' <= 1 /\ shown' # shown /\ shown'.kind = "pred" =>
         shown'.id = shown.id + 1]_vars

\* "Live555's EventTrigger is poor for multithread, use fds"
\* (live555_media_input.hh:72): the two threads hand over by a pipe, so a push
\* comes back as long as somebody plays.
PushReturns == pushing ~> ~pushing \/ ~asking \/ crashed
=============================================================================
