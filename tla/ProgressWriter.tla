--------------------------- MODULE ProgressWriter ---------------------------
(***************************************************************************)
(* The byte counter behind every transfer of a session: the ProgressWriter *)
(* (src/src/progress.rs) and the progress task that update_pb spawns for   *)
(* it (src/src/doctor.rs).                                                 *)
(*                                                                         *)
(* After each write the writer offers its total to a channel with room for *)
(* one; a total that finds the channel full is dropped.  The task shows    *)
(* what it receives until the writer is gone and the channel is empty.     *)
(* Without a progress bar the task is over at once and the receiver gone.  *)
(*                                                                         *)
(* DoctorSession takes from this module that awaiting the progress task is *)
(* waiting for its writer to be dropped.                                   *)
(***************************************************************************)
EXTENDS Naturals, Sequences

CONSTANTS TotalBytes,  \* what the copy writes before it is done
          MaxWrite     \* bytes of one write

ASSUME TotalBytesAssumption == TotalBytes \in Nat
ASSUME MaxWriteAssumption == MaxWrite \in Nat \ {0}

VARIABLES
    accepted,   \* bytes the inner writer has taken
    counted,    \* TrackingWriter.written
    updates,    \* the channel
    writing,    \* the copy still has the writer
    progress,   \* the task: waiting for an update, holding one, or over
    held,       \* the update it holds
    shown,      \* the position of the progress bar
    bar         \* there is a progress bar

writerVars == <<accepted, counted, writing>>
progressVars == <<writerVars, updates, progress, held, shown, bar>>

\* One invariant of types for the module.
ProgressTypeOK ==
    /\ accepted \in 0..TotalBytes
    /\ counted \in Nat
    /\ updates \in Seq(Nat) /\ Len(updates) <= 1
    /\ writing \in BOOLEAN
    /\ progress \in {"recv", "show", "over"}
    /\ held \in Nat
    /\ shown \in Nat
    /\ bar \in BOOLEAN

\* ProgressWriter::new and update_pb.
ProgressInit ==
    /\ accepted = 0
    /\ counted = 0
    /\ updates = << >>
    /\ writing = TRUE
    /\ bar \in BOOLEAN
    /\ progress = IF bar THEN "recv" ELSE "over"
    /\ held = 0
    /\ shown = 0

------------------------------------------------------------------------------

\* Variants: the channel has no bound, or an update is an increment.
Send(total, size) == updates' = Append(updates, total)

TrySendSize(total, size) ==
    updates' = IF bar /\ updates = << >> THEN <<size>> ELSE updates

\* try_send(..).ok(): nothing is sent to a full or a closed channel.
TrySend(total, size) ==
    updates' = IF bar /\ updates = << >> THEN <<total>> ELSE updates

\* TrackingWriter::poll_write
Count(size) == counted' = counted + size

\* ProgressWriter::poll_write, of which the inner writer takes some bytes.
PollWrite(size) ==
    /\ writing /\ accepted + size <= TotalBytes
    /\ accepted' = accepted + size
    /\ Count(size)
    /\ TrySend(counted', size)
    /\ UNCHANGED <<writing, progress, held, shown, bar>>

\* drop(send), or the copy fails and its writer is dropped with it; at any
\* time, since a write may fail.
DropSender ==
    /\ writing
    /\ writing' = FALSE
    /\ UNCHANGED <<accepted, counted, updates, progress, held, shown, bar>>

Recv ==
    /\ progress = "recv" /\ updates # << >>
    /\ held' = Head(updates)
    /\ updates' = Tail(updates)
    /\ progress' = "show"
    /\ UNCHANGED <<writerVars, shown, bar>>

SetPosition ==
    /\ progress = "show"
    /\ shown' = held
    /\ progress' = "recv"
    /\ UNCHANGED <<writerVars, updates, held, bar>>

\* Variants: the task ends when all is shown, or with an update in the channel.
AllShown ==
    /\ progress = "recv" /\ ~writing /\ shown = TotalBytes
    /\ progress' = "over"
    /\ UNCHANGED <<writerVars, updates, held, shown, bar>>

RecvClosed ==
    /\ progress = "recv" /\ ~writing
    /\ progress' = "over"
    /\ UNCHANGED <<writerVars, updates, held, shown, bar>>

\* recv() returns None.
RecvNone ==
    /\ progress = "recv" /\ ~writing
    /\ updates = << >>
    /\ progress' = "over"
    /\ UNCHANGED <<writerVars, updates, held, shown, bar>>

ProgressTask == Recv \/ SetPosition \/ RecvNone

\* The writer is gone and the session goes on.
Later == ~writing /\ UNCHANGED progressVars

ProgressNext ==
    \/ \E size \in 1..MaxWrite : PollWrite(size)
    \/ DropSender \/ ProgressTask \/ Later

ProgressSpec == ProgressInit /\ [][ProgressNext]_progressVars

\* The task is polled when it is ready.
ProgressFairSpec == ProgressSpec /\ WF_progressVars(ProgressTask)

------------------------------------------------------------------------------
(* Properties. *)

(***************************************************************************)
(* progress.rs: "It sends the total number instead of just an increment so *)
(* the update is self-contained". Whichever updates are lost, the bar is   *)
(* never ahead of the bytes taken. It may end short of them, since the     *)
(* last update may be the one that is dropped; but the task does not end   *)
(* on an update it has not shown, so a transfer of any byte at all shows   *)
(* progress.                                                               *)
(***************************************************************************)
ShownTruthfully ==
    /\ shown <= accepted
    /\ progress = "over" /\ bar /\ accepted > 0 => shown > 0

(***************************************************************************)
(* For the same reason the bar never goes back: no update that is still in *)
(* the channel, or in the hands of the task, is older than what is shown.  *)
(***************************************************************************)
ShownMonotone == [][shown' >= shown]_progressVars

(***************************************************************************)
(* progress.await returns once the writer is dropped, whatever is left in  *)
(* the channel and whichever updates were lost.                            *)
(***************************************************************************)
ProgressEnds == ~writing ~> progress = "over"
=============================================================================
