------------------------------ MODULE PEReplay ------------------------------
(***************************************************************************)
(* The two outputs together: the capture of blocks and frames              *)
(* (BlockCapture) writing through one Logger for blocks.csv and one for    *)
(* frames.csv, each an abstract stream (LogStream) that buffers rows and   *)
(* brings them to its files in order; and the end of the process, by       *)
(* Logger::Finalize, after an exception inside the tool too, or by a kill. *)
(* A reader of the files joins frames to blocks, so what matters is which  *)
(* of them a file holds when the other's rows are still in a buffer.       *)
(*                                                                         *)
(* Rows of blocks.csv are logged under Pin's client lock, so it has one    *)
(* Logger.  Frames are logged by the program's threads, and Logger::LogToF *)
(* looks for their Logger and makes it without a lock: several threads may *)
(* make one each (LoggerRegistry has the steps), and with more than one    *)
(* the file is what their truncations and writes leave of the rows.        *)
(***************************************************************************)
EXTENDS BlockCapture, SequencesExt

CONSTANT MaxTrace   \* the number of blocks of the longest trace

ASSUME LongestTraceAssumption ==
  MaxTrace \in Nat /\ \A trace \in Traces : Len(trace) <= MaxTrace

VARIABLES
  blocks_file, frames_file, \* the whole rows that are in the files
  find,           \* per thread: what LogToF found for its frame, see LookUpFrames
  frames_loggers, \* the Loggers made for frames.csv
  finalized,                \* how many loggers Finalize has deleted
  failed,   \* the thread an exception has taken out of the tool, or Nobody
  stuck,    \* the outputs whose Logger that thread has left locked
  status    \* "running", "exiting", "exited" or "killed"

Outputs == {"blocks", "frames"}

files    == <<blocks_file, frames_file>>
registry == <<find, frames_loggers>>
process  == <<finalized, failed, stuck, status>>
pe_vars  == <<vars, files, registry, process>>

PEInit == /\ Init
          /\ blocks_file = <<>> /\ frames_file = <<>>
          /\ find = [t \in Threads |-> "any"] /\ frames_loggers = 0
          /\ finalized = 0 /\ status = "running"
          /\ failed = Nobody /\ stuck = {}

\* Before the first row of frames.csv a thread finds no Logger for it,
LookUpFrames(t) ==
  /\ status = "running" /\ t # failed
  /\ at[t] # {} /\ find[t] = "any" /\ frames = <<>>
  /\ find' = [find EXCEPT ![t] = "none"]
  /\ UNCHANGED <<vars, files, frames_loggers, process>>

\* and makes one, whatever has been made since; its constructor truncates the
\* file.
MakeFramesLogger(t) ==
  /\ status = "running" /\ t # failed
  /\ find[t] = "none"
  /\ find' = [find EXCEPT ![t] = "made"]
  /\ frames_loggers' = frames_loggers + 1
  /\ frames_file' = <<>>
  /\ UNCHANGED <<vars, blocks_file, process>>

\* A frame's row goes to a Logger, the thread's own if it has just made one.
CaptureAndLog(t) ==
  /\ Capture(t)
  /\ find[t] # "none"
  /\ find[t] = "made" => frames' # frames
  /\ frames' # frames => frames_loggers > 0
  /\ find' = [find EXCEPT ![t] = "any"]

\* frames.csv has the one Logger.
Sole == frames_loggers <= 1

\* What Pin and the program's threads do while the process runs.  Nobody gets a
\* row into an output that is stuck.
Run ==
  /\ status = "running"
  /\ \/ LoadMainImage /\ UNCHANGED find
     \/ Evict /\ UNCHANGED find
     \/ \E t \in Threads \ {failed} :
          \/ Process_Encounter_Trace(t) /\ UNCHANGED find
          \/ Reach(t) /\ UNCHANGED find
          \/ CaptureAndLog(t)
  /\ "blocks" \in stuck => blocks' = blocks
  /\ "frames" \in stuck /\ Sole => frames' = frames
  /\ UNCHANGED <<files, frames_loggers, process>>

\* What the writes of several Loggers may leave in frames.csv: some of the rows,
\* in any order.  Rows that are torn, and holes, are left out.
Overlaid == UNION {[1..n -> Range(frames)] : n \in 0..Len(frames)}

\* A Logger of frames.csv writes its buffer.
FramesWritten ==
  IF Sole THEN frames_file' = frames ELSE frames_file' \in Overlaid

\* Mutant: the file is opened anew for each flush.
FlushBlocksOverwrites ==
  /\ status = "running" /\ "blocks" \notin stuck
  /\ blocks_file' = SubSeq(blocks, Len(blocks_file) + 1, Len(blocks))
  /\ UNCHANGED <<vars, frames_file, registry, process>>

\* A full buffer: the logger's whole buffer goes to the file, under its lock
\* (Logger::Flush).
FlushBlocks == /\ status = "running" /\ "blocks" \notin stuck
               /\ blocks_file' = blocks
               /\ UNCHANGED <<vars, frames_file, registry, process>>

FlushFrames == /\ status = "running" /\ ("frames" \in stuck => ~Sole)
               /\ FramesWritten
               /\ UNCHANGED <<vars, blocks_file, registry, process>>

\* An exception takes a thread out of a routine of the tool, which it never
\* ends; Encounter_Exception asks Pin to exit the process.  First, the routine
\* reads memory that is not there: a block's bytes, or the stack of a visit.
Fault(t) ==
  /\ status = "running" /\ failed = Nobody
  /\ client_lock = t \/ at[t] # {}
  /\ failed' = t
  /\ UNCHANGED <<vars, files, registry, finalized, stuck, status>>

\* Second, ImageInfo's constructor throws, behind the assignment of the main
\* module's range if it is the main image's.
FaultInImage(t) ==
  /\ status = "running" /\ failed = Nobody
  /\ client_lock = Nobody /\ at[t] = {}
  /\ LoadMainImage \/ UNCHANGED vars
  /\ failed' = t
  /\ UNCHANGED <<files, registry, finalized, stuck, status>>

\* Third, "Too many logs" in Serialize: the buffer is flushed, the row is lost,
\* and the Logger stays locked.
TooManyBlocks(t) ==
  /\ status = "running" /\ failed = Nobody
  /\ client_lock = t /\ block # {}
  /\ blocks_file' = blocks
  /\ failed' = t /\ stuck' = stuck \cup {"blocks"}
  /\ UNCHANGED <<vars, frames_file, registry, finalized, status>>

\* (One of several Loggers need not be the one that s_loggers has.)
TooManyFrames(t) ==
  /\ status = "running" /\ failed = Nobody
  /\ at[t] # {} /\ find[t] = "any" /\ frames # <<>>
  /\ FramesWritten
  /\ failed' = t
  /\ \/ stuck' = stuck \cup {"frames"}
     \/ ~Sole /\ UNCHANGED stuck
  /\ UNCHANGED <<vars, blocks_file, registry, finalized, status>>

\* The process begins to exit: the program ends, or a thread has failed.  Pin
\* has stopped the other threads outside of the tool.
Exit == /\ status = "running" /\ client_lock \in {Nobody, failed}
        /\ \A t \in Threads \ {failed} : at[t] = {}
        /\ status' = "exiting"
        /\ UNCHANGED <<vars, files, registry, finalized, failed, stuck>>

\* The deletion of the Logger that s_loggers has of an output flushes it.
Flushed(output) ==
  /\ output \notin stuck
  /\ blocks_file' = IF output = "blocks" THEN blocks ELSE blocks_file
  /\ IF output = "frames" THEN FramesWritten ELSE UNCHANGED frames_file

\* Mutants: the loggers are deleted from the last to the first; the second one
\* is not flushed.
BackwardsOrder == <<"frames", "blocks">>
FinalizeFirstOnly ==
  /\ status = "exiting" /\ finalized < 2
  /\ IF finalized = 0 THEN Flushed("blocks") ELSE UNCHANGED files
  /\ finalized' = finalized + 1
  /\ status' = IF finalized' = 2 THEN "exited" ELSE "exiting"
  /\ UNCHANGED <<vars, registry, failed, stuck>>

\* s_loggers is a map: its order is that of the names.
Order == <<"blocks", "frames">>

\* Logger::Finalize deletes the next logger.  It waits for ever for one that is
\* locked.
Finalize ==
  /\ status = "exiting" /\ finalized < 2
  /\ Flushed(Order[finalized + 1])
  /\ finalized' = finalized + 1
  /\ status' = IF finalized' = 2 THEN "exited" ELSE "exiting"
  /\ UNCHANGED <<vars, registry, failed, stuck>>

\* "Too many logs" at the flush of a deletion: the rest of Finalize never runs.
FinalizeThrows ==
  /\ status = "exiting" /\ finalized < 2
  /\ Flushed(Order[finalized + 1])
  /\ status' = "killed"
  /\ UNCHANGED <<vars, registry, finalized, failed, stuck>>

Kill == /\ status \in {"running", "exiting"}
        /\ status' = "killed"
        /\ UNCHANGED <<vars, files, registry, finalized, failed, stuck>>

PENext ==
  \/ Run \/ FlushBlocks \/ FlushFrames
  \/ \E t \in Threads :
       LookUpFrames(t) \/ MakeFramesLogger(t)
  \/ \E t \in Threads :
       Fault(t) \/ FaultInImage(t) \/ TooManyBlocks(t) \/ TooManyFrames(t)
  \/ Exit \/ Finalize \/ FinalizeThrows \/ Kill

PESpec == PEInit /\ [][PENext]_pe_vars
-----------------------------------------------------------------------------
\* The phase of the stream that Finalize deletes as number n.
PhaseOf(n) == IF finalized >= n THEN "closed"
              ELSE IF status = "killed" THEN "dead" ELSE "open"

\* The rows there can be, ids within the bound of the model.
Ids == 0..(MaxBlocks + MaxTrace)

BlocksStream == INSTANCE LogStream
  WITH accepted <- blocks, durable <- blocks_file, phase <- PhaseOf(1),
       Lines <- {<<r>> : r \in [id : Ids, tid : Ids, eip : Addresses]}

FramesStream == INSTANCE LogStream
  WITH accepted <- frames, durable <- frames_file, phase <- PhaseOf(2),
       Lines <- {<<c>> : c \in [eip : Addresses, bid : Ids]}

\* Each output is a stream as LogStream promises it: blocks.csv always, and
\* frames.csv for as long as no second Logger is made for it, which truncates and
\* overwrites what the first wrote (Logger.cpp:39-51, 92-95, 140-150).
OutputsStreamed ==
  /\ BlocksStream!Spec
  /\ FramesStream!Init
  /\ [][frames_loggers' <= 1 => [FramesStream!Next]_(FramesStream!vars)]_pe_vars

\* A frame of the file whose block is not in the file (of a whole row: what
\* two Loggers tear says nothing).
Dangling == \E k \in 1..Len(frames_file) : frames_file[k].bid > Len(blocks_file)

\* After a clean exit every frame in the file has its block in the file, and
\* the file of blocks holds all rows; that of frames does if one Logger was made
\* for it (Logger.cpp:92-95, 140-150, REProgramInfo.cpp:759-762).
JoinComplete ==
  status = "exited" =>
    ~Dangling /\ blocks_file = blocks /\ (Sole => frames_file = frames)

\* An exit that waits for a Logger that is locked.
Hung == status = "exiting" /\ Order[finalized + 1] \in stuck

\* From the first deletion on no frame dangles, a kill or an exception in the
\* middle of Finalize included: the block file is complete before the frame file
\* grows for the last time.  Nor does one where "Too many logs" has left an exit
\* hung (Logger.cpp:53-59, 142-147, REProgramInfo.cpp:902-908).
NoDanglingOnceFinalizing == finalized > 0 \/ Hung => ~Dangling
=============================================================================
