------------------------------ MODULE SourceFlow ------------------------------
(***************************************************************************)
(* A source flow: a thread of its own reads a stream and pushes what it    *)
(* read through the SYNC coroutine of the flow to the down flows.  The     *)
(* application adds and removes down flows and destroys the flow.  The     *)
(* thread starts to read when the first down flow is there: it waits on    *)
(* source_start_cond_mtx, which AddDownFlow and the destructor notify.     *)
(*                                                                         *)
(* There are two such flows, SourceStreamFlow (a camera, a microphone) and *)
(* FileReadFlow.  They differ in what ends the reading, in the condition   *)
(* of the wait and in the destructor.                                      *)
(*                                                                         *)
(* The critical sections of source_start_cond_mtx and list_mtx are single  *)
(* steps: what they protect is used nowhere else.  A frame is the number   *)
(* of the read it came from; the last read of a file returns what is left, *)
(* which may be nothing.                                                   *)
(***************************************************************************)
EXTENDS Integers, SequencesExt

CONSTANTS
    Down,           \* the down flows
    NumFrames,      \* frames until the stream reports Eof
    LoopTime,       \* FileReadFlow: how often the file is read again
    MaxAttach       \* bound: calls of AddDownFlow, and RemoveDownFlow calls
                    \* in excess of them

Kinds == {"source_stream", "file_read"}
Null == 0           \* an empty shared_ptr; frames are 1, 2, ...

ASSUME FramesAssumption == NumFrames \in Nat \ {0} /\ LoopTime \in Nat
ASSUME MaxAttachAssumption == MaxAttach \in Nat

VARIABLES
    kind,           \* which of the two flows this is; never changes
    enable,         \* Flow::enable
    loop,           \* loop of the subclass: go on reading
    down_flow_num,  \* Flow::down_flow_num
    flows,          \* downflowmap[0].flows, in order
    rpc,            \* where ReadThreadRun is
    pos,            \* frames read so far
    frame,          \* buffer in ReadThreadRun: the frame just read or Null
    loop_time,      \* FileReadFlow::loop_time
    todo,           \* the copy of flows that RunOnce still has to serve
    out,            \* what it sends: downflowmap[0].cached_buffer or Null
    apc,            \* where the application's thread is
    attaches,       \* AddDownFlow calls so far
    received,       \* history: the last frame each down flow got
    steady,         \* history: down flows attached since their last frame
    late,           \* history: frames a down flow got since it was removed
    proper          \* history: only attached flows have been removed so far

streamVars == <<pos, frame, loop_time>>
sendVars == <<todo, out>>
history == <<received, steady, late, proper>>
vars == <<kind, enable, loop, down_flow_num, flows, rpc, streamVars, sendVars,
          apc, attaches, history>>

\* How often the stream is read again.
Loops == IF kind = "file_read" THEN LoopTime ELSE 0
MaxFrames == NumFrames * (Loops + 1)

Init ==
    /\ kind \in Kinds
    /\ enable = TRUE
    /\ loop = TRUE
    /\ down_flow_num = 0
    /\ flows = << >>
    /\ rpc = "start"
    /\ pos = 0
    /\ frame = Null
    /\ loop_time = Loops
    /\ todo = << >>
    /\ out = Null
    /\ apc = "idle"
    /\ attaches = 0
    /\ received = [d \in Down |-> 0]
    /\ steady = {}
    /\ late = [d \in Down |-> 0]
    /\ proper = TRUE

Attached == {flows[i] : i \in DOMAIN flows}

\* remove_if: the list without d, which AddFlow puts into it once at most.
Without(list, d) ==
    LET at == {i \in DOMAIN list : list[i] = d}
    IN  IF at = {} THEN list ELSE RemoveAt(list, CHOOSE i \in at : TRUE)

-----------------------------------------------------------------------------
(* ReadThreadRun.                                                          *)

\* Mutant of MustWait: the stop is not looked at.
MustWaitAlways == down_flow_num = 0

\* FileReadFlow does not look at enable.
MustWait == down_flow_num = 0 /\ (kind = "source_stream" => enable)

\* Lock, wait when there is no down flow, unlock.
ReaderStart ==
    /\ rpc = "start"
    /\ rpc' = IF MustWait THEN "waiting" ELSE "loop"
    /\ UNCHANGED <<kind, enable, loop, down_flow_num, flows, streamVars,
                   sendVars, apc, attaches, history>>

\* Mutant of WakeReader: the notify is forgotten.
WakeNobody == UNCHANGED rpc

\* notify() ends the wait, whatever its reason was.
WakeReader == rpc' = IF rpc = "waiting" THEN "loop" ELSE rpc

\* while (loop), and the end of the stream.
ReaderLoop ==
    /\ rpc = "loop"
    /\ rpc' = IF loop THEN "eof" ELSE "exit"
    /\ UNCHANGED <<kind, enable, loop, down_flow_num, flows, streamVars,
                   sendVars, apc, attaches, history>>

\* Mutant of AtEof: the end is seen one frame late.
AtEofLate == pos = NumFrames * (Loops - loop_time + 1) + 1

AtEof == pos = NumFrames * (Loops - loop_time + 1)

ReaderEof ==
    /\ rpc = "eof"
    /\ IF ~AtEof
       THEN rpc' = "read" /\ UNCHANGED <<enable, loop_time>>
       ELSE IF kind = "file_read"
       THEN \* loop_time-- > 0: Seek(0), else break
            /\ rpc' = IF loop_time > 0 THEN "read" ELSE "exit"
            /\ loop_time' = loop_time - 1
            /\ UNCHANGED enable
       ELSE \* SetDisable
            /\ rpc' = "exit"
            /\ enable' = FALSE
            /\ UNCHANGED loop_time
    /\ UNCHANGED <<kind, loop, down_flow_num, flows, pos, frame, sendVars, apc,
                   attaches, history>>

\* Mutant of ReaderRead: the end of the stream is tested before the frame that
\* was just read is sent.
ReaderReadThenEof ==
    /\ rpc = "read"
    /\ pos' = pos + 1
    /\ frame' = pos'
    /\ rpc' = IF pos' % NumFrames = 0 THEN "eof" ELSE "send"
    /\ UNCHANGED <<kind, enable, loop, down_flow_num, flows, loop_time,
                   sendVars, apc, attaches, history>>

\* The Read of the stream is under way while rpc = "read".
ReaderRead ==
    /\ rpc = "read"
    /\ pos' = pos + 1
    /\ frame' = pos'
    /\ rpc' = "send"
    /\ UNCHANGED <<kind, enable, loop, down_flow_num, flows, loop_time,
                   sendVars, apc, attaches, history>>

\* A stream that has nothing to give: the null buffer is sent like any other.
ReaderReadsNull ==
    /\ rpc = "read"
    /\ kind = "source_stream"
    /\ frame' = Null
    /\ rpc' = "send"
    /\ UNCHANGED <<kind, enable, loop, down_flow_num, flows, pos, loop_time,
                   sendVars, apc, attaches, history>>

\* FileReadFlow: no memory for the buffer, continue.
ReaderNoMemory ==
    /\ rpc = "read"
    /\ kind = "file_read"
    /\ rpc' = "loop"
    /\ UNCHANGED <<kind, enable, loop, down_flow_num, flows, streamVars,
                   sendVars, apc, attaches, history>>

\* FileReadFlow: a short read before the end of the file.
ReaderFails ==
    /\ rpc = "read"
    /\ kind = "file_read"
    /\ enable' = FALSE
    /\ rpc' = "exit"
    /\ UNCHANGED <<kind, loop, down_flow_num, flows, streamVars, sendVars, apc,
                   attaches, history>>

\* SendInput: without enable the frame is forgotten.
ReaderSend ==
    /\ rpc = "send"
    /\ rpc' = IF enable THEN "process" ELSE "loop"
    /\ UNCHANGED <<kind, enable, loop, down_flow_num, flows, streamVars,
                   sendVars, apc, attaches, history>>

\* void_transaction00: SetOutput tests enable again; without it the process
\* fails and RunOnce sends null buffers down.
ReaderProcess ==
    /\ rpc = "process"
    /\ out' = IF enable THEN frame ELSE Null
    /\ rpc' = "copy"
    /\ UNCHANGED <<kind, enable, loop, down_flow_num, flows, streamVars, todo,
                   apc, attaches, history>>

\* read_lock, copy the list of down flows, unlock.
ReaderCopy ==
    /\ rpc = "copy"
    /\ todo' = flows
    /\ rpc' = "down"
    /\ UNCHANGED <<kind, enable, loop, down_flow_num, flows, streamVars, out,
                   apc, attaches, history>>

\* SendInput to the next of the copied down flows.
ReaderSendDown == LET d == Head(todo) IN
    /\ rpc = "down"
    /\ todo # << >>
    /\ todo' = Tail(todo)
    /\ IF out = Null
       THEN UNCHANGED history
       ELSE /\ received' = [received EXCEPT ![d] = out]
            /\ steady' = IF d \in Attached THEN steady \cup {d} ELSE steady
            /\ late' = IF d \in Attached THEN late ELSE [late EXCEPT ![d] = @ + 1]
            /\ UNCHANGED proper
    /\ UNCHANGED <<kind, enable, loop, down_flow_num, flows, rpc, streamVars,
                   out, apc, attaches>>

ReaderSentDown ==
    /\ rpc = "down"
    /\ todo = << >>
    /\ rpc' = "loop"
    /\ UNCHANGED <<kind, enable, loop, down_flow_num, flows, streamVars,
                   sendVars, apc, attaches, history>>

Reader == \/ ReaderStart \/ ReaderLoop \/ ReaderEof \/ ReaderRead
          \/ ReaderReadsNull \/ ReaderNoMemory \/ ReaderFails
          \/ ReaderSend \/ ReaderProcess \/ ReaderCopy
          \/ ReaderSendDown \/ ReaderSentDown

-----------------------------------------------------------------------------
(* The application's thread.                                               *)

\* Mutant of AddFlow: an attached flow is put into the list again.
AddFlowAgain(d) ==
    /\ apc = "idle"
    /\ attaches < MaxAttach
    /\ attaches' = attaches + 1
    /\ flows' = Append(flows, d)
    /\ late' = IF d \in Attached THEN late ELSE [late EXCEPT ![d] = 0]
    /\ apc' = "added"
    /\ UNCHANGED <<kind, enable, loop, down_flow_num, rpc, streamVars, sendVars,
                   received, steady, proper>>

\* AddDownFlow: into the list (an attached flow stays where it is) ...
AddFlow(d) ==
    /\ apc = "idle"
    /\ attaches < MaxAttach
    /\ attaches' = attaches + 1
    /\ flows' = IF d \in Attached THEN flows ELSE Append(flows, d)
    /\ late' = IF d \in Attached THEN late ELSE [late EXCEPT ![d] = 0]
    /\ apc' = "added"
    /\ UNCHANGED <<kind, enable, loop, down_flow_num, rpc, streamVars, sendVars,
                   received, steady, proper>>

\* ... then count it, even one that was attached before, and notify.
CountAdded ==
    /\ apc = "added"
    /\ down_flow_num' = down_flow_num + 1
    /\ WakeReader
    /\ apc' = "idle"
    /\ UNCHANGED <<kind, enable, loop, flows, streamVars, sendVars, attaches,
                   history>>

\* Mutant of RemoveFlow: the first flow of the list goes.
RemoveHead(d) ==
    /\ apc = "idle"
    /\ down_flow_num > -MaxAttach
    /\ proper' = (proper /\ d \in Attached)
    /\ flows' = SubSeq(flows, 2, Len(flows))
    /\ steady' = steady \ {d}
    /\ apc' = "removed"
    /\ UNCHANGED <<kind, enable, loop, down_flow_num, rpc, streamVars, sendVars,
                   attaches, received, late>>

\* RemoveDownFlow: out of the list, when it is there ...
RemoveFlow(d) ==
    /\ apc = "idle"
    /\ down_flow_num > -MaxAttach
    /\ proper' = (proper /\ d \in Attached)
    /\ flows' = Without(flows, d)
    /\ steady' = steady \ {d}
    /\ apc' = "removed"
    /\ UNCHANGED <<kind, enable, loop, down_flow_num, rpc, streamVars, sendVars,
                   attaches, received, late>>

\* ... then count it, even one that was not there, and notify.
CountRemoved ==
    /\ apc = "removed"
    /\ down_flow_num' = down_flow_num - 1
    /\ WakeReader
    /\ apc' = "idle"
    /\ UNCHANGED <<kind, enable, loop, flows, streamVars, sendVars, attaches,
                   history>>

\* The destructor.  SourceStreamFlow clears loop at once.
Destroy ==
    /\ apc = "idle"
    /\ loop' = (loop /\ kind # "source_stream")
    /\ apc' = "stop"
    /\ UNCHANGED <<kind, enable, down_flow_num, flows, rpc, streamVars,
                   sendVars, attaches, history>>

\* Mutant of DestroyStop: without an open device the notify is forgotten, too.
DestroyStopOnly ==
    /\ apc = "stop"
    /\ enable' = FALSE
    /\ apc' \in (IF kind = "source_stream" THEN {"ioctl", "join"} ELSE {"notify"})
    /\ UNCHANGED <<kind, loop, down_flow_num, flows, rpc, streamVars, sendVars,
                   attaches, history>>

\* StopAllThread: there is no coroutine thread to join.
DestroyStop ==
    /\ apc = "stop"
    /\ enable' = FALSE
    /\ apc' = IF kind = "source_stream" THEN "ioctl" ELSE "notify"
    /\ UNCHANGED <<kind, loop, down_flow_num, flows, rpc, streamVars, sendVars,
                   attaches, history>>

\* Control(S_STREAM_OFF) of SourceStreamFlow is under way while apc = "ioctl".
DestroyIoCtrl ==
    /\ apc = "ioctl"
    /\ apc' = "notify"
    /\ UNCHANGED <<kind, enable, loop, down_flow_num, flows, rpc, streamVars,
                   sendVars, attaches, history>>

DestroyNotify ==
    /\ apc = "notify"
    /\ loop' = FALSE
    /\ WakeReader
    /\ apc' = "join"
    /\ UNCHANGED <<kind, enable, down_flow_num, flows, streamVars, sendVars,
                   attaches, history>>

DestroyJoin ==
    /\ apc = "join"
    /\ rpc = "exit"
    /\ apc' = "done"
    /\ UNCHANGED <<kind, enable, loop, down_flow_num, flows, rpc, streamVars,
                   sendVars, attaches, history>>

\* What the application does once it has begun.
Application == \/ CountAdded \/ CountRemoved
               \/ DestroyStop \/ DestroyIoCtrl \/ DestroyNotify \/ DestroyJoin

-----------------------------------------------------------------------------

Next == \/ Reader
        \/ \E d \in Down : AddFlow(d) \/ RemoveFlow(d)
        \/ Destroy
        \/ Application

Spec == Init /\ [][Next]_vars

\* Both threads go on; nobody has to attach, to remove or to destroy.
FairSpec == Spec /\ WF_vars(Reader) /\ WF_vars(Application)

-----------------------------------------------------------------------------
(* Properties.                                                             *)

\* The type of the state.
TypeOK ==
    /\ kind \in Kinds
    /\ enable \in BOOLEAN
    /\ loop \in BOOLEAN
    /\ down_flow_num \in -MaxAttach .. MaxAttach
    /\ flows \in Seq(Down)
    /\ rpc \in {"start", "waiting", "loop", "eof", "read", "send", "process",
                "copy", "down", "exit"}
    /\ pos \in 0 .. MaxFrames
    /\ frame \in 0 .. MaxFrames
    /\ loop_time \in -1 .. Loops
    /\ todo \in Seq(Down)
    /\ out \in 0 .. MaxFrames
    /\ apc \in {"idle", "added", "removed", "stop", "ioctl", "notify", "join",
                "done"}
    /\ attaches \in 0 .. MaxAttach
    /\ received \in [Down -> 0 .. MaxFrames]
    /\ steady \subseteq Down
    /\ proper \in BOOLEAN
    /\ late \in [Down -> Nat]

\* A down flow that stays attached gets every frame, in order: AddDownFlow and
\* RemoveDownFlow of others, which change the list while it is being served,
\* do not make it miss one.
NoGap ==
    [][\A d \in steady :
         received'[d] # received[d] => received'[d] = received[d] + 1]_vars

\* RemoveDownFlow does not wait for the frame that is being sent, and that one
\* is all the removed flow still gets.
OneLateFrame == \A d \in Down : late[d] <= 1

\* Nobody sleeps with no notify to come. While a down flow is attached the
\* reader waits only if the AddDownFlow that put it into the list has yet to
\* count it and to notify; in a flow that is disabled, the reader of a stream
\* waits only if the destructor has yet to notify. The first needs callers that
\* remove attached flows only (see ReaderStarts).
SleeperIsWoken ==
    rpc = "waiting" =>
      /\ proper /\ flows # << >> => apc = "added"
      /\ kind = "source_stream" /\ ~enable => apc \in {"ioctl", "notify"}

\* The reader does not sleep on while there is a down flow: the notify of
\* AddDownFlow cannot be lost between its test and its wait.  This needs callers
\* that remove attached flows only: RemoveDownFlow counts the others, too, and
\* down_flow_num can then be zero while a flow is attached.
ReaderStarts == proper /\ flows # << >> ~>
                  rpc # "waiting" \/ flows = << >> \/ ~proper

\* A reader that has come to the end of the stream by itself has left nothing
\* unsent: the last frame, too, has reached the flows that stay attached.
AllFrames ==
    rpc = "exit" /\ pos = MaxFrames /\ apc \in {"idle", "added", "removed"} =>
      \A d \in steady : received[d] = MaxFrames

\* The destructor ends.
DestroyEnds == apc = "stop" ~> apc = "done"

\* The destructor of a SourceStreamFlow ends, whenever it begins.
StreamDestroyEnds == kind = "source_stream" /\ apc = "stop" ~> apc = "done"
=============================================================================
