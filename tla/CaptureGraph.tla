---------------------------- MODULE CaptureGraph ----------------------------
(***************************************************************************)
(* A camera pipeline: a source_stream flow that reads a V4L2 capture       *)
(* stream in a thread of its own, a filter flow in one of the three thread *)
(* models, and a flow of the application that takes what comes. Frames are *)
(* not copied between them: a frame is the driver's buffer (its index) and *)
(* goes back to the driver when nobody refers to it any more. References   *)
(* are the variables that hold frames here; with hold_input an output      *)
(* refers to the frame it was made from, too.                              *)
(***************************************************************************)
EXTENDS V4L2Capture, FlowGraph

VARIABLES
  app,       \* where the application is
  graph,     \* the flows, as FlowGraph has them
  loop, on, fon,  \* SourceStreamFlow::loop; enable (and ~quit) of source and filter
  rpc, rbuf,\* the reader: where it is, its frame, the result of process
  source_out,     \* cached_buffer of the source's output
  fpc, fin, \* the filter's coroutine, its in_vector, the result of process
  cached_buffer, cached_buffers, \* the filter's input
  filter_out,     \* cached_buffer, or the only element of cached_buffers, of its output
  sink_inputs, sink_in, \* the last flow's queue and what it is working on
  stops,     \* how often the application has switched the stream off
  crashed    \* an assert failed, or a null pointer was used

appVars    == <<app, graph>>
sourceVars == <<loop, on, rpc, rbuf, source_out>>
filterVars == <<fon, fpc, fin, cached_buffer, cached_buffers, filter_out>>
sinkVars   == <<sink_inputs, sink_in>>
graphVars  == <<appVars, sourceVars, filterVars, sinkVars, stops, crashed>>
vars       == <<capVars, graphVars>>

\* An application names its parts, and gives a slot map of its own a cache
\* number for each slot that has a queue.
SlotMapOK(m) ==
  /\ m.in \in Seq(Nat)
  /\ m.model = "ASYNCCOMMON" => \A k \in 1..Len(m.in) : m.cache[k] \in Int

\* Of the applications those are modelled whose flow at the end has a thread and
\* queues (NONE cannot be started), and whose full queues drop something: a sender
\* that has to wait (BLOCKING) is the subject of FlowInput and DecodeDisplay.
HasDroppingQueue(m) ==
  m.model \in {"ASYNCCOMMON", "NONE"} /\ m.mode \in {"DROPFRONT", "DROPCURRENT"}

ASSUME SetupsAssumption ==
  \A s \in Setups :
    /\ s.stops \in Nat
    /\ s.filter.parts \in Nat /\ s.filter.cache \subseteq Int /\ s.filter.mode # "BLOCKING"
    /\ Len(s.sink) \in 1..2
    /\ \A k \in 1..Len(s.sink) : SlotMapOK(s.sink[k]) /\ HasDroppingQueue(s.sink[k])

Null == 0    \* a null pointer where a frame could be
Out(kind, frame) == [kind |-> kind, frame |-> frame]  \* frame: the one it refers to
NoOut == Out("null", Null)

Frames ==
  ({rbuf, source_out, fin, cached_buffer, filter_out.frame, sink_in.frame}
    \cup ToSet(cached_buffers) \cup {o.frame : o \in ToSet(sink_inputs)}) \ {Null}

\* The end of each step: what is not referred to any more is put back.
PutBack(fails) == Put(Frames \ Frames', Frames', fails) /\ UNCHANGED openVars
Release == (PutBack(FALSE) /\ NoFault) \/ (PutBack(TRUE) /\ Fault)

source == graph.source
filter == graph.filter
sink   == graph.sink
fmodel == filter.v_input[0].model
hold   == filter.downflowmap[0].hold
At(a)  == app = a /\ ~crashed
Attached(f) == f.downflowmap[0].flows # {}

Init ==
  /\ CaptureInit
  /\ app = "source"
  /\ graph = [source |-> NewFlow, filter |-> NewFlow, sink |-> NewFlow]
  /\ loop = FALSE /\ on = TRUE /\ fon = TRUE
  /\ rpc = "none" /\ rbuf = Null /\ source_out = Null
  /\ fpc = "none" /\ fin = Null
  /\ cached_buffer = Null /\ cached_buffers = <<>> /\ filter_out = NoOut
  /\ sink_inputs = <<>> /\ sink_in = NoOut
  /\ stops = 0 /\ crashed = FALSE

(***************************************************************************)
(* The application puts the pipeline together.                             *)
(***************************************************************************)
OpenStream ==    \* the source's constructor creates the stream ...
  /\ At("source") /\ ParseWrapFlowParams(setup.source) /\ Open
  /\ UNCHANGED graphVars

NewSource ==     \* ... and then itself and its thread
  /\ At("source")
  /\ \/ /\ step = "open"
        /\ graph' = [graph EXCEPT !.source = SetAsSource(@)]
        /\ loop' = TRUE /\ rpc' = "wait" /\ app' = "filter"
     \/ /\ ParseWrapFlowParams(setup.source) => step = "failed" /\ ~vec
        /\ app' = "end" /\ UNCHANGED <<graph, loop, rpc>>
  /\ UNCHANGED <<capVars, on, rbuf, source_out, filterVars, sinkVars, stops, crashed>>

\* The coroutine is started before the filter is asked whether it is
\* asynchronous; the ones there are say that they are not. That there is no
\* filter of this name, or none for these data types, is a failure of Create.
NewFilter ==
  /\ At("filter")
  /\ \E fault \in {"none", "init"} :
       LET sm == FilterMap(setup.filter)
       IN /\ IF fault = "none" THEN NoFault ELSE Fault
          /\ IF /\ ParseWrapFlowParams(setup.filter) /\ Create(setup.filter, fault)
                /\ CanInstall(filter, sm)
                /\ setup.filter.parts = 1 \/ ParseImageInfoFromMap(setup.filter)
             THEN /\ graph' = [graph EXCEPT !.filter = Installed(@, sm)]
                  /\ fpc' = IF sm.model = "SYNC" THEN "idle" ELSE "fetch"
                  /\ app' = "sink"
             ELSE app' = "stop" /\ UNCHANGED <<graph, fpc>>
  /\ UNCHANGED <<openVars, devVars, sourceVars, fon, fin, cached_buffer, cached_buffers,
                 filter_out, sinkVars, stops, crashed>>

\* A flow of the application's own may be given any slot map, and more of them.
NewSink ==
  /\ At("sink")
  /\ LET maps == setup.sink
         first == Installed(NewFlow, maps[1])
     IN IF ~CanInstall(NewFlow, maps[1]) THEN app' = "stop" /\ UNCHANGED <<graph, crashed>>
        ELSE IF Len(maps) = 1 \/ ~CanInstall(first, maps[2])
        THEN graph' = [graph EXCEPT !.sink = first] /\ app' = "wire" /\ UNCHANGED crashed
        ELSE /\ graph' = [graph EXCEPT !.sink = Installed(first, maps[2])]
             /\ crashed' = Aborts(first, maps[2]) /\ app' = "wire"
  /\ UNCHANGED <<capVars, sourceVars, filterVars, sinkVars, stops>>

\* Source to filter first or last; the source starts when it has a down flow.
Wake == rpc' = IF rpc = "asleep" THEN "loop" ELSE rpc

WireSource ==
  /\ At("wire") /\ ~Attached(source) /\ CanAddDownFlow(source, 0)
  /\ graph' = [graph EXCEPT !.source = AddDownFlow(@, "filter", 0, 0)]
  /\ Wake
  /\ UNCHANGED <<capVars, app, loop, on, rbuf, source_out, filterVars, sinkVars, stops,
                 crashed>>

WireFilter ==
  /\ At("wire") /\ ~Attached(filter) /\ CanAddDownFlow(filter, 0)
  /\ graph' = [graph EXCEPT !.filter = AddDownFlow(@, "sink", 0, setup.slot)]
  /\ UNCHANGED <<capVars, app, sourceVars, filterVars, sinkVars, stops, crashed>>

\* RemoveDownFlow: the filter stays, and nothing is sent to it any more.
Unwire ==
  /\ At("wire") /\ Attached(source) /\ Attached(filter)
  /\ app' = "unwired"
  /\ graph' = [graph EXCEPT !.source = RemoveDownFlow(@, "filter")]
  /\ Wake
  /\ UNCHANGED <<capVars, loop, on, rbuf, source_out, filterVars, sinkVars, stops, crashed>>

ControlStreamOff ==    \* Control(S_STREAM_OFF)
  /\ At("wire") /\ stops < setup.stops /\ stops' = stops + 1
  /\ StreamOff
  /\ UNCHANGED <<appVars, sourceVars, filterVars, sinkVars, crashed>>

(***************************************************************************)
(* ~SourceStreamFlow; then the filter and the sink go as well.             *)
(***************************************************************************)
Stop ==          \* loop = false, StopAllThread
  /\ \E a \in {"wire", "unwired", "stop"} : At(a)
  /\ loop' = FALSE /\ on' = FALSE /\ app' = "off"
  /\ UNCHANGED <<capVars, graph, rpc, rbuf, source_out, filterVars, sinkVars, stops, crashed>>

StopStream ==
  /\ At("off") /\ app' = "notify"
  /\ StreamOff
  /\ UNCHANGED <<graph, sourceVars, filterVars, sinkVars, stops, crashed>>

NotifyReader ==
  /\ At("notify") /\ app' = "join"
  /\ Wake
  /\ UNCHANGED <<capVars, graph, loop, on, rbuf, source_out, filterVars, sinkVars, stops,
                 crashed>>

DeleteStream ==  \* join, and the stream is reset
  /\ At("join") /\ rpc = "ended"
  /\ app' = "members"
  /\ CloseStream(Frames)
  /\ UNCHANGED <<graph, sourceVars, filterVars, sinkVars, stops, crashed>>

DeleteSource ==  \* the members, an output that is cached among them
  /\ At("members") /\ app' = "filterstop"
  /\ source_out' = Null
  /\ UNCHANGED <<graph, loop, on, rpc, rbuf, filterVars, sinkVars, stops, crashed>>
  /\ Release

StopFilter ==    \* ~FilterFlow
  /\ At("filterstop") /\ app' = "filterjoin"
  /\ fon' = FALSE
  /\ UNCHANGED <<capVars, graph, sourceVars, fpc, fin, cached_buffer, cached_buffers,
                 filter_out, sinkVars, stops, crashed>>

DeleteFilter ==
  /\ At("filterjoin") /\ fpc \in {"none", "idle", "ended"}
  /\ app' = "sinkstop"
  /\ cached_buffer' = Null /\ cached_buffers' = <<>> /\ filter_out' = NoOut
  /\ UNCHANGED <<graph, sourceVars, fon, fpc, fin, sinkVars, stops, crashed>>
  /\ Release

DeleteSink ==
  /\ At("sinkstop") /\ sink_in = NoOut
  /\ app' = "end" /\ sink_inputs' = <<>>
  /\ UNCHANGED <<graph, sourceVars, filterVars, sink_in, stops, crashed>>
  /\ Release

(***************************************************************************)
(* The reader's thread.                                                    *)
(***************************************************************************)
ReaderOnly == ~crashed /\ UNCHANGED <<appVars, loop, on, stops>>

ReadWait ==      \* one wait for a down flow, or for the end
  /\ rpc = "wait"
  /\ rpc' = IF source.down_flow_num = 0 /\ on THEN "asleep" ELSE "loop"
  /\ ReaderOnly /\ UNCHANGED <<capVars, rbuf, source_out, filterVars, sinkVars, crashed>>

ReadLoop ==
  /\ rpc = "loop"
  /\ rpc' = IF loop THEN "start" ELSE "ended"
  /\ ReaderOnly /\ UNCHANGED <<capVars, rbuf, source_out, filterVars, sinkVars, crashed>>

ReadStart ==     \* Read starts the stream ...
  /\ rpc = "start" /\ SetStarted
  /\ rpc' = "dqbuf"
  /\ ReaderOnly /\ UNCHANGED <<rbuf, source_out, filterVars, sinkVars, crashed>>

\* Mutant of Dequeue: the buffer is queued again when it has been read.
DequeueRequeueing ==
  /\ rpc = "dqbuf" /\ filled # <<>> /\ Head(filled).bytes
  /\ rbuf' = Head(filled).index /\ filled' = Tail(filled)
  /\ queue' = Append(queue, Head(filled).index)
  /\ rpc' = "send"
  /\ UNCHANGED <<openVars, faults, lost, buffer_vec, vec, ctx, started>>
  /\ ReaderOnly /\ UNCHANGED <<source_out, filterVars, sinkVars, crashed>>

\* ... and takes a buffer, for which it waits as long as the stream is on. One
\* without content is queued at once.
Dequeue ==
  /\ rpc = "dqbuf"
  /\ \/ /\ ~ctx.started /\ rbuf' = Null
        /\ UNCHANGED capVars
     \/ /\ Fault /\ rbuf' = Null              \* VIDIOC_DQBUF
        /\ UNCHANGED <<openVars, devVars>>
     \/ /\ ctx.started /\ filled # <<>> /\ Head(filled).bytes
        /\ rbuf' = Head(filled).index /\ filled' = Tail(filled)
        /\ UNCHANGED <<openVars, faults, queue, lost, buffer_vec, vec, ctx, started>>
     \/ /\ ctx.started /\ filled # <<>> /\ ~Head(filled).bytes
        /\ rbuf' = Null /\ filled' = Tail(filled)
        /\ \/ QBUF({Head(filled).index}, FALSE) /\ NoFault
           \/ QBUF({Head(filled).index}, TRUE) /\ Fault
        /\ UNCHANGED <<openVars, buffer_vec, vec, ctx, started>>
  /\ rpc' = "send"
  /\ ReaderOnly /\ UNCHANGED <<source_out, filterVars, sinkVars, crashed>>

\* SendInput to the flow itself: it runs its coroutine in this thread.
SourceSendInput ==
  /\ rpc = "send"
  /\ IF on THEN rpc' = "process" /\ UNCHANGED rbuf ELSE rpc' = "loop" /\ rbuf' = Null
  /\ ReaderOnly /\ UNCHANGED <<source_out, filterVars, sinkVars, crashed>>
  /\ Release

\* RunOnce of the source: process is void_transaction00, the output keeps its
\* frame. What arrives at the filter is that frame, or a null buffer when the
\* flow was disabled meanwhile; the reader filters itself if need be.
SourceRunOnce ==
  /\ rpc = "process"
  /\ source_out' = IF on THEN rbuf ELSE source_out
  /\ LET buffer == IF on THEN rbuf ELSE Null
         cache  == filter.v_input[0].cache
         full   == cache > 0 /\ Len(cached_buffers) >= cache
     IN \/ /\ ~Attached(source) \/ ~fon
           /\ rpc' = "loop" /\ rbuf' = Null
           /\ UNCHANGED <<fpc, fin, cached_buffer, cached_buffers>>
        \/ /\ Attached(source) /\ fon /\ fmodel = "SYNC"
           /\ fin' = buffer /\ fpc' = "process" /\ rpc' = "sync"
           /\ UNCHANGED <<rbuf, cached_buffer, cached_buffers>>
        \/ /\ Attached(source) /\ fon /\ fmodel = "ASYNCATOMIC"
           /\ cached_buffer' = buffer
           /\ rpc' = "loop" /\ rbuf' = Null
           /\ UNCHANGED <<fpc, fin, cached_buffers>>
        \/ /\ Attached(source) /\ fon /\ fmodel = "ASYNCCOMMON"
           /\ cached_buffers' =
                IF ~full THEN Append(cached_buffers, buffer)
                ELSE IF filter.v_input[0].mode = "DROPFRONT"
                THEN Append(Tail(cached_buffers), buffer) ELSE cached_buffers
           /\ rpc' = "loop" /\ rbuf' = Null
           /\ UNCHANGED <<fpc, fin, cached_buffer>>
  /\ ReaderOnly
  /\ UNCHANGED <<fon, filter_out, sinkVars, crashed>>
  /\ Release

(***************************************************************************)
(* The filter's coroutine: its own thread, or the reader's.                *)
(***************************************************************************)
FilterOnly == ~crashed /\ UNCHANGED <<appVars, loop, on, source_out, stops>>

ASyncFetchInputCommon ==
  /\ fpc = "fetch" /\ fon /\ fmodel = "ASYNCCOMMON" /\ cached_buffers # <<>>
  /\ fin' = Head(cached_buffers) /\ cached_buffers' = Tail(cached_buffers)
  /\ fpc' = "process"
  /\ FilterOnly /\ UNCHANGED <<rpc, rbuf, fon, cached_buffer, filter_out, sinkVars,
                                    capVars, crashed>>

\* The frame stays in the input: it is filtered again until the next one comes.
ASyncFetchInputAtomic ==
  /\ fpc = "fetch" /\ fmodel = "ASYNCATOMIC"
  /\ fin' = cached_buffer /\ fpc' = "process"
  /\ FilterOnly /\ UNCHANGED <<rpc, rbuf, fon, cached_buffer, cached_buffers,
                                    filter_out, sinkVars, capVars, crashed>>

\* The thread's end. One that has looked at quit before goes once more, and if
\* it waits for input gets a null buffer.
FilterQuit ==
  /\ fpc = "fetch" /\ ~fon
  /\ \/ fpc' = "ended"
     \/ fmodel = "ASYNCCOMMON" /\ fpc' = "process"
  /\ FilterOnly /\ UNCHANGED <<rpc, rbuf, fon, fin, cached_buffer, cached_buffers,
                                    filter_out, sinkVars, capVars, crashed>>

\* SendInput of the sink; a full queue drops what it has, or what comes.
Arrives(out) ==
  LET input == sink.v_input[setup.slot]
      full  == input.cache > 0 /\ Len(sink_inputs) >= input.cache
      to    == SendInputTo(sink, setup.slot)
  IN IF ~Attached(filter) \/ to = "ignored" THEN UNCHANGED <<sink_inputs, crashed>>
     ELSE IF to # "ASYNCCOMMON" THEN crashed' = TRUE /\ UNCHANGED sink_inputs
     ELSE /\ UNCHANGED crashed
          /\ sink_inputs' = IF ~full THEN Append(sink_inputs, out)
                            ELSE IF input.mode = "DROPFRONT"
                            THEN Append(Tail(sink_inputs), out) ELSE sink_inputs

\* The end of RunOnce: a coroutine of a thread goes on, the reader's returns.
Returns ==
  /\ fin' = Null
  /\ IF fmodel = "SYNC" THEN fpc' = "idle" /\ rpc' = "loop" /\ rbuf' = Null
                        ELSE fpc' = (IF fon THEN "fetch" ELSE "ended") /\ UNCHANGED <<rpc, rbuf>>

\* What an output comes to refer to. A frame refers to nothing itself, so that
\* there is nothing to inherit; of a null pointer even to ask is too much.
Related == IF hold = "HOLD_INPUT" THEN fin ELSE Null

\* What process does: nothing without a frame; and SetOutput needs the flow enabled.
do_filters(fault) == IF fin = Null THEN "fail" ELSE Process(setup.filter, fault)

\* Mutant of FilterSends: what has been sent stays in the output.
FilterSendsKeeping ==
  /\ fpc = "process" /\ fon /\ do_filters("none") = "ok"
  /\ filter_out' = Out(setup.filter.name, Related) /\ Arrives(filter_out')
  /\ Returns
  /\ FilterOnly /\ UNCHANGED <<fon, cached_buffer, cached_buffers, sink_in>>
  /\ Release

FilterSends ==
  /\ fpc = "process" /\ fon /\ do_filters("none") = "ok"
  /\ LET queued == filter.downflowmap[0].queued
         held   == queued \/ Attached(filter)
         out    == Out(setup.filter.name, IF held THEN Related ELSE Null)
     IN Arrives(out) /\ filter_out' = IF queued THEN NoOut ELSE out
  /\ Returns
  /\ FilterOnly /\ UNCHANGED <<fon, cached_buffer, cached_buffers, sink_in>>
  /\ Release

\* A failure costs the frame, not what the output has: SendNullBufferDown.
FilterFails ==
  /\ fpc = "process"
  /\ \E fault \in {"none", "alloc", "run"} :
       /\ do_filters(fault) = "fail" \/ (~fon /\ do_filters(fault) = "ok")
       /\ fin = Null => fault = "none"
       /\ IF hold = "INHERIT_FORM_INPUT" /\ fin = Null
          THEN crashed' = TRUE /\ UNCHANGED sink_inputs
          ELSE Arrives(IF hold = "HOLD_INPUT" THEN Out("empty", fin) ELSE NoOut)
       /\ Returns
       /\ FilterOnly
       /\ UNCHANGED <<fon, cached_buffer, cached_buffers, filter_out, sink_in>>
       /\ IF fault = "none" THEN Release ELSE PutBack(FALSE) /\ Fault

FilterAborts ==
  /\ fpc = "process"
  /\ \E fault \in {"none", "alloc"} :
       /\ do_filters(fault) = "abort" /\ crashed' = TRUE
       /\ IF fault = "none" THEN NoFault ELSE Fault
  /\ FilterOnly
  /\ UNCHANGED <<openVars, devVars, rpc, rbuf, filterVars, sinkVars>>

(***************************************************************************)
(* The flow at the end takes what came, and lets it go when it is done.    *)
(***************************************************************************)
SinkTakes ==
  /\ ~crashed /\ sink_in = NoOut /\ sink_inputs # <<>>
  /\ sink_in' = Head(sink_inputs) /\ sink_inputs' = Tail(sink_inputs)
  /\ UNCHANGED <<capVars, appVars, sourceVars, filterVars, stops, crashed>>

SinkDone ==
  /\ ~crashed /\ sink_in # NoOut /\ sink_in' = NoOut
  /\ UNCHANGED <<appVars, sourceVars, filterVars, sink_inputs, stops, crashed>>
  /\ Release

Device(bytes) == ~crashed /\ Fill(bytes) /\ UNCHANGED graphVars

Build    == OpenStream \/ NewSource \/ NewFilter \/ NewSink \/ WireSource \/ WireFilter
Teardown == StopStream \/ NotifyReader \/ DeleteStream \/ DeleteSource \/ StopFilter
              \/ DeleteFilter \/ DeleteSink
Reader   == ReadWait \/ ReadLoop \/ ReadStart \/ Dequeue \/ SourceSendInput
              \/ SourceRunOnce
Coroutine == ASyncFetchInputCommon \/ ASyncFetchInputAtomic \/ FilterQuit \/ FilterSends
              \/ FilterFails \/ FilterAborts
Sink     == SinkTakes \/ SinkDone

Next ==
  \/ Build \/ Unwire \/ ControlStreamOff \/ Stop \/ Teardown
  \/ Reader \/ Coroutine \/ Sink
  \/ \E bytes \in BOOLEAN : Device(bytes)

\* Threads go on, a destructor is not abandoned, and a device that is on fills
\* the buffers it has.
Fairness ==
  /\ WF_vars(Teardown) /\ WF_vars(Reader)
  /\ WF_vars(Coroutine) /\ WF_vars(Sink)
  /\ WF_vars(Device(TRUE))

Spec == Init /\ [][Next]_vars /\ Fairness

(***************************************************************************)
(* Properties.                                                             *)
(***************************************************************************)
MaybeFrame == Indices \cup {Null}
Outs == [kind : {"null", "empty", setup.filter.name}, frame : MaybeFrame]

\* The types of the variables.
TypeOK ==
  /\ setup \in Setups /\ faults \in 0..MaxFaults /\ stops \in 0..setup.stops
  /\ ctx \in [fd : BOOLEAN, started : BOOLEAN, stream : BOOLEAN]
  /\ vec \in BOOLEAN /\ started \in BOOLEAN /\ crashed \in BOOLEAN
  /\ queue \in Seq(Indices) /\ filled \in Seq([index : Indices, bytes : BOOLEAN])
  /\ lost \subseteq Indices
  /\ DOMAIN buffer_vec \subseteq Indices
  /\ loop \in BOOLEAN /\ on \in BOOLEAN /\ fon \in BOOLEAN
  /\ {rbuf, source_out, fin, cached_buffer} \cup ToSet(cached_buffers) \subseteq MaybeFrame
  /\ {filter_out, sink_in} \cup ToSet(sink_inputs) \subseteq Outs

\* A buffer has one owner: it is queued, or filled, or lent, once, and never in
\* the hands of the driver while a flow, or an output that is held somewhere
\* down the line, can still look into it. Nor does one go missing as long as
\* nobody switches the stream off.
OneOwner ==
  LET waiting == ToSet(queue)
      ready   == {b.index : b \in ToSet(filled)}
  IN /\ Cardinality(waiting) = Len(queue) /\ Cardinality(ready) = Len(filled)
     /\ waiting \cap ready = {}
     /\ (waiting \cup ready) \cap (Frames \cup lost) = {} /\ Frames \cap lost = {}
     /\ app \in {"filter", "sink", "wire", "unwired", "stop"} /\ stops = 0
          /\ memory_type # "USERPTR"
          => waiting \cup ready \cup Frames \cup lost = Indices

\* Whoever is left with a frame, in whatever order stream, source, filter and
\* sink go away, has its memory and a device to give it back to; and when the
\* stream and its last frame are gone nothing stays behind.
SafeRelease ==
  /\ \A i \in Frames : buffer_vec[i] # {} /\ ctx.fd
  /\ queue \o [k \in DOMAIN filled |-> filled[k].index] # <<>> => ctx.fd
  /\ ~vec /\ Frames = {} => ctx = Closed /\ \A i \in DOMAIN buffer_vec : buffer_vec[i] = {}

\* A reader that waits for a frame gets one, or the stream's end, provided the
\* ring is larger than what stays lent while nothing moves: the last frame in
\* the source's output, and of two buffers the other one in the output of a
\* synchronous filter that holds its input (when a later frame failed), or in
\* the input of an atomic one that has been removed. And a pipeline that is
\* taken down does get down, whatever the reader was doing.
Pool == IF memory_type = "USERPTR" THEN 0 ELSE count - Cardinality(lost)
Enough ==
  \/ Pool > 2
  \/ /\ Pool = 2
     /\ fmodel = "SYNC" => hold # "HOLD_INPUT"
     /\ fmodel = "ASYNCATOMIC" => Attached(source)
Progress ==
  /\ (rpc = "dqbuf" /\ Enough) ~> (crashed \/ rpc # "dqbuf" \/ ~Enough)
  /\ (app = "off" /\ Pool > 0) ~> (crashed \/ app = "end")
=============================================================================
