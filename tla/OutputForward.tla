---------------------------- MODULE OutputForward ----------------------------
(***************************************************************************)
(* Output forwarding of run_child_forward and run_child_timeout_forward    *)
(* (wrap/mod.rs): one copy_pipe thread per stream moves what the child     *)
(* wrote into stdout and stderr of the host, under one write lock, while   *)
(* the host waits, joins the threads, and prints the deadline line.        *)
(*                                                                         *)
(* Simplifications:                                                        *)
(* - a byte is its position in its stream; PipeCap, Room, Chunk and        *)
(*   Bytes stand for 64 KiB, the room of a sink, 512 and any output;       *)
(* - the wait is the one of RunChild, seen from here as three outcomes;    *)
(* - both sinks are of one kind and block when the run starts;             *)
(* - fcntl does not fail, and a terminal can be opened a second time;      *)
(* - a child whose pipe has lost its copy thread is not sent SIGPIPE;      *)
(* - another process writes into a sink only where the code does not rely  *)
(*   on being its only writer: non-blocking kinds, before the notice.      *)
(***************************************************************************)
EXTENDS Integers, Sequences, FiniteSets

CONSTANTS
  Stream,      \* the piped streams; "err" is where the notice goes
  Bytes,       \* bound: bytes the child writes to each stream
  PipeCap,     \* bytes the pipe between child and host holds
  Room,        \* bytes a sink holds for its reader
  Chunk,       \* forward_chunk: bytes per write
  Notice,      \* length of the deadline line
  MaxForeign   \* bound: bytes that other processes write into the sinks

ASSUME ForwardAssumption ==
  /\ IsFiniteSet(Stream) /\ "err" \in Stream /\ "free" \notin Stream
  /\ Bytes \in [Stream -> Nat] /\ PipeCap \in Nat \ {0}
  /\ Chunk \in Nat \ {0} /\ Room \in Nat /\ Chunk <= Room
  /\ Notice \in Nat /\ MaxForeign \in Nat

VARIABLES
  limited,     \* the caller gave a timeout
  kind,        \* what the sinks are to copy_pipe: private, toggle or blocking
  sink,        \* the open file of each stream; one file for 2>&1
  made,        \* bytes the child wrote, per stream
  open,        \* a process of the tree still holds the pipes
  got,         \* bytes read from the pipe, per stream
  buf,         \* buf[off..n]: read and not yet written
  sent,        \* what the sink accepted, per stream
  used,        \* bytes in a sink that its reader has not taken
  reader,      \* the reader of a sink: reads, stalled, gone
  foreign,     \* bytes other processes wrote
  nonblock,    \* O_NONBLOCK on the open file of a sink
  added,       \* write_fd: this thread has to put the flag back
  take,        \* length of the slice that is being written
  res,         \* what the last write said: wrote, again, error
  lock,        \* forward_write_lock
  pc,          \* where the copy thread of a stream is
  stop,        \* the flag of forward_stop
  expired,     \* started + timeout has passed
  hpc,         \* the host: wait, finish, join, notice, over
  timedOut,    \* the flag the call returns
  answer,      \* none, ok, timeout, descendants
  notice       \* bytes of the deadline line still to write

shape == <<limited, kind, sink>>
child == <<made, open>>
sinks == <<sent, used, reader, foreign, nonblock>>
copy == <<got, buf, added, take, res, lock, pc>>
host == <<stop, expired, hpc, timedOut, answer, notice>>
vars == <<shape, child, sinks, copy, host>>

Least(a, b) == IF a <= b THEN a ELSE b
Free(k) == Room - used[k]

ShapeOK ==
  /\ limited \in BOOLEAN /\ kind \in {"private", "toggle", "blocking"}
  /\ sink \in [Stream -> Stream]

ChildOK ==
  /\ made \in [Stream -> Nat] /\ open \in BOOLEAN
  /\ \A s \in Stream : made[s] <= Bytes[s]

SinksOK ==
  /\ sent \in [Stream -> Seq(Nat)] /\ used \in [Stream -> 0 .. Room]
  /\ reader \in [Stream -> {"reads", "stalled", "gone"}]
  /\ foreign \in 0 .. MaxForeign /\ nonblock \in [Stream -> BOOLEAN]

CopyOK ==
  /\ got \in [Stream -> Nat] /\ \A s \in Stream : got[s] <= made[s]
  /\ buf \in [Stream -> Seq(Nat)] /\ added \in [Stream -> BOOLEAN]
  /\ take \in [Stream -> 0 .. Chunk] /\ res \in [Stream -> {"none", "wrote", "again", "error"}]
  /\ lock \in Stream \union {"free"}
  /\ pc \in [Stream -> {"read", "lock", "poll", "flag", "write", "settle", "done"}]

HostOK ==
  /\ stop \in BOOLEAN /\ expired \in BOOLEAN /\ timedOut \in BOOLEAN
  /\ hpc \in {"wait", "finish", "join", "notice", "over"}
  /\ answer \in {"none", "ok", "timeout", "descendants"}
  /\ notice \in 0 .. Notice

TypeOK == ShapeOK /\ ChildOK /\ SinksOK /\ CopyOK /\ HostOK

Init ==
  /\ limited \in BOOLEAN /\ kind \in {"private", "toggle", "blocking"}
  /\ sink \in {[s \in Stream |-> s], [s \in Stream |-> "err"]}
  /\ made = [s \in Stream |-> 0] /\ open = TRUE
  /\ got = [s \in Stream |-> 0]
  /\ buf = [s \in Stream |-> <<>>] /\ sent = [s \in Stream |-> <<>>]
  /\ used = [k \in Stream |-> 0] /\ reader = [k \in Stream |-> "reads"] /\ foreign = 0
  /\ nonblock = [k \in Stream |-> FALSE] /\ added = [s \in Stream |-> FALSE]
  /\ take = [s \in Stream |-> 0] /\ res = [s \in Stream |-> "none"]
  /\ lock = "free" /\ pc = [s \in Stream |-> "read"]
  /\ stop = FALSE /\ expired = FALSE /\ timedOut = FALSE
  /\ hpc = "wait" /\ answer = "none" /\ notice = Notice

-----------------------------------------------------------------------------
(* The child and the readers. *)

ChildWrite(s) ==
  /\ open /\ made[s] < Bytes[s] /\ made[s] - got[s] < PipeCap
  /\ made' = [made EXCEPT ![s] = @ + 1]
  /\ UNCHANGED <<shape, open, sinks, copy, host>>

ReaderTakes(k) ==
  /\ reader[k] = "reads" /\ used[k] > 0
  /\ used' = [used EXCEPT ![k] = @ - 1]
  /\ UNCHANGED <<shape, child, sent, reader, foreign, nonblock, copy, host>>

ReaderStops(k) ==
  /\ reader[k] = "reads" /\ k \in {sink[s] : s \in Stream}
  /\ reader' = [reader EXCEPT ![k] = "stalled"]
  /\ UNCHANGED <<shape, child, sent, used, foreign, nonblock, copy, host>>

ReaderCloses(k) ==
  /\ reader[k] # "gone" /\ k \in {sink[s] : s \in Stream}
  /\ reader' = [reader EXCEPT ![k] = "gone"]
  /\ UNCHANGED <<shape, child, sent, used, foreign, nonblock, copy, host>>

OtherWriter(k) ==
  /\ foreign < MaxForeign /\ kind # "blocking" /\ hpc \notin {"notice", "over"}
  /\ k \in {sink[s] : s \in Stream} /\ Free(k) > 0
  /\ used' = [used EXCEPT ![k] = @ + 1]
  /\ foreign' = foreign + 1
  /\ UNCHANGED <<shape, child, sent, reader, nonblock, copy, host>>

-----------------------------------------------------------------------------
(* copy_pipe, one thread per stream. *)

Goto(s, l) == pc' = [pc EXCEPT ![s] = l]
Unlock(s) == lock' = IF lock = s THEN "free" ELSE lock

\* The head of the outer loop looks at the flag before it reads.
Again == IF stop THEN "done" ELSE "read"

\* Read blocks until there is a byte or no process holds the pipe any more.
Read(s) ==
  /\ pc[s] = "read" /\ made[s] > got[s]
  /\ buf' = [buf EXCEPT ![s] = [i \in 1 .. made[s] - got[s] |-> got[s] + i]]
  /\ got' = [got EXCEPT ![s] = made[s]]
  /\ Goto(s, "lock")
  /\ UNCHANGED <<shape, child, sinks, added, take, res, lock, host>>

ReadEnds(s) ==
  /\ pc[s] = "read" /\ made[s] = got[s] /\ ~ open
  /\ Goto(s, "done")
  /\ UNCHANGED <<shape, child, sinks, got, buf, added, take, res, lock, host>>

\* Mutant: poll and write without the lock.
NoLock(s) ==
  /\ pc[s] = "lock"
  /\ Goto(s, "poll")
  /\ UNCHANGED <<shape, child, sinks, got, buf, added, take, res, lock, host>>

Lock(s) ==
  /\ pc[s] = "lock" /\ lock = "free"
  /\ lock' = s
  /\ Goto(s, "poll")
  /\ UNCHANGED <<shape, child, sinks, got, buf, added, take, res, host>>

\* write_fd has flags to set only when it has to toggle.
Push == IF kind = "toggle" THEN "flag" ELSE "write"

\* POLLOUT: one free byte on Linux, a whole chunk where the file may block.
Writable(k) == Free(k) >= (IF kind = "blocking" THEN Chunk ELSE 1)

\* Mutant: the poll does not look at the flag.
PollUntilReady(s) ==
  /\ pc[s] = "poll"
  /\ IF reader[sink[s]] = "gone"
       THEN Goto(s, "done") /\ Unlock(s) /\ UNCHANGED take
     ELSE IF Writable(sink[s])
       THEN Goto(s, Push) /\ take' = [take EXCEPT ![s] = Least(Len(buf[s]), Chunk)] /\ UNCHANGED lock
     ELSE Goto(s, "lock") /\ Unlock(s) /\ UNCHANGED take
  /\ UNCHANGED <<shape, child, sinks, got, buf, added, res, host>>

\* Mutant: a sink without room ends the copy.
PollGivesUp(s) ==
  /\ pc[s] = "poll"
  /\ IF stop \/ ~ Writable(sink[s])
       THEN Goto(s, "done") /\ Unlock(s) /\ UNCHANGED take
       ELSE Goto(s, Push) /\ take' = [take EXCEPT ![s] = Least(Len(buf[s]), Chunk)] /\ UNCHANGED lock
  /\ UNCHANGED <<shape, child, sinks, got, buf, added, res, host>>

\* poll_out_once: Stop, Ready or Later.  Stop and Later drop the lock, and
\* Later asks for it again at once.
Poll(s) ==
  /\ pc[s] = "poll"
  /\ IF stop \/ reader[sink[s]] = "gone"
       THEN Goto(s, "done") /\ Unlock(s) /\ UNCHANGED take
     ELSE IF Writable(sink[s])
       THEN Goto(s, Push) /\ take' = [take EXCEPT ![s] = Least(Len(buf[s]), Chunk)] /\ UNCHANGED lock
     ELSE Goto(s, "lock") /\ Unlock(s) /\ UNCHANGED take
  /\ UNCHANGED <<shape, child, sinks, got, buf, added, res, host>>

\* write_fd up to its write: F_GETFL and F_SETFL.
SetFlag(s) ==
  /\ pc[s] = "flag"
  /\ added' = [added EXCEPT ![s] = ~ nonblock[sink[s]]]
  /\ nonblock' = [nonblock EXCEPT ![sink[s]] = TRUE]
  /\ Goto(s, "write")
  /\ UNCHANGED <<shape, child, sent, used, reader, foreign, got, buf, take, res, lock, host>>

Blocks(s) == kind = "blocking" \/ (kind = "toggle" /\ ~ nonblock[sink[s]])
Fits(s) == take[s] <= Free(sink[s])

\* write_once: all of a slice or nothing, as pipes treat short writes.
Write(s) ==
  /\ pc[s] = "write"
  /\ \/ /\ reader[sink[s]] = "gone"
        /\ res' = [res EXCEPT ![s] = "error"]
        /\ UNCHANGED <<sent, used>>
     \/ /\ reader[sink[s]] # "gone" /\ Fits(s)
        /\ sent' = [sent EXCEPT ![s] = @ \o SubSeq(buf[s], 1, take[s])]
        /\ used' = [used EXCEPT ![sink[s]] = @ + take[s]]
        /\ res' = [res EXCEPT ![s] = "wrote"]
     \/ /\ reader[sink[s]] # "gone" /\ ~ Fits(s) /\ ~ Blocks(s)
        /\ res' = [res EXCEPT ![s] = "again"]
        /\ UNCHANGED <<sent, used>>
  /\ Goto(s, "settle")
  /\ UNCHANGED <<shape, child, reader, foreign, nonblock, got, buf, added, take, lock, host>>

\* write_fd after its write, then push_nonblock and the match on its answer,
\* with `n` bytes of buf done.
SettleWith(s, n) ==
  /\ pc[s] = "settle"
  /\ nonblock' = [nonblock EXCEPT ![sink[s]] = @ /\ ~ added[s]]
  /\ added' = [added EXCEPT ![s] = FALSE]
  /\ res' = [res EXCEPT ![s] = "none"]
  /\ \/ /\ res[s] = "wrote"
        /\ buf' = [buf EXCEPT ![s] = SubSeq(@, n + 1, Len(@))]
        /\ Goto(s, IF buf'[s] = <<>> THEN Again ELSE "lock")
        /\ Unlock(s) /\ UNCHANGED take
     \/ /\ res[s] = "again" /\ take[s] > 1
        /\ take' = [take EXCEPT ![s] = 1]
        /\ Goto(s, Push)
        /\ UNCHANGED <<buf, lock>>
     \/ /\ res[s] = "again" /\ take[s] <= 1
        /\ Goto(s, "lock")
        /\ Unlock(s) /\ UNCHANGED <<buf, take>>
     \/ /\ res[s] = "error"
        /\ Goto(s, "done")
        /\ Unlock(s) /\ UNCHANGED <<buf, take>>
  /\ UNCHANGED <<shape, child, sent, used, reader, foreign, got, host>>

\* Mutant: the byte of the second try is not counted.
RetryNotCounted(s) == SettleWith(s, IF take[s] = 1 THEN 0 ELSE take[s])

Settle(s) == SettleWith(s, take[s])

CopyStep(s) == Read(s) \/ ReadEnds(s) \/ Lock(s) \/ Poll(s) \/ SetFlag(s) \/ Write(s) \/ Settle(s)

-----------------------------------------------------------------------------
(* The host. *)

CopiesDone == \A s \in Stream : pc[s] = "done"

Expire ==
  /\ limited /\ ~ expired /\ hpc \in {"wait", "finish"}
  /\ expired' = TRUE
  /\ UNCHANGED <<shape, child, sinks, copy, stop, hpc, timedOut, answer, notice>>

\* The child and its descendants ended by themselves or were all killed.
WaitEnds ==
  /\ hpc = "wait"
  /\ open' = FALSE
  /\ hpc' = IF limited THEN "finish" ELSE "join"
  /\ UNCHANGED <<shape, made, sinks, copy, stop, expired, timedOut, answer, notice>>

\* reap_process_group killed at the deadline.  A descendant that the reaper
\* did not reach in time keeps the pipes open.
WaitTimesOut ==
  /\ hpc = "wait" /\ expired
  /\ open' \in BOOLEAN
  /\ timedOut' = TRUE
  /\ hpc' = "finish"
  /\ UNCHANGED <<shape, made, sinks, copy, stop, expired, answer, notice>>

\* Descendants: the call returns at once, the copy threads stay behind.
WaitMisses ==
  /\ hpc = "wait"
  /\ open' \in BOOLEAN
  /\ answer' = "descendants"
  /\ hpc' = "over"
  /\ UNCHANGED <<shape, made, sinks, copy, stop, expired, timedOut, notice>>

\* Mutant: the forced end is not told.
FinishSilently ==
  /\ hpc = "finish" /\ (CopiesDone \/ expired)
  /\ stop' = ~ CopiesDone
  /\ hpc' = "join"
  /\ UNCHANGED <<shape, child, sinks, copy, expired, timedOut, answer, notice>>

\* finish_copies: until both threads have finished or the deadline passes.
FinishCopies ==
  /\ hpc = "finish" /\ (CopiesDone \/ expired)
  /\ stop' = ~ CopiesDone
  /\ timedOut' = (timedOut \/ ~ CopiesDone)
  /\ hpc' = "join"
  /\ UNCHANGED <<shape, child, sinks, copy, expired, answer, notice>>

\* join_copy twice, then the call returns.
Join ==
  /\ hpc = "join" /\ CopiesDone
  /\ answer' = IF timedOut THEN "timeout" ELSE "ok"
  /\ hpc' = IF timedOut THEN "notice" ELSE "over"
  /\ UNCHANGED <<shape, child, sinks, copy, stop, expired, timedOut, notice>>

\* write_timeout_notice: a poll and a blocking write per byte.  Whatever is
\* not Ready ends it.
NoticeByte ==
  /\ hpc = "notice"
  /\ IF notice > 0 /\ reader[sink["err"]] # "gone" /\ Free(sink["err"]) > 0
       THEN /\ notice' = notice - 1
            /\ used' = [used EXCEPT ![sink["err"]] = @ + 1]
            /\ UNCHANGED hpc
       ELSE hpc' = "over" /\ UNCHANGED <<notice, used>>
  /\ UNCHANGED <<shape, child, sent, reader, foreign, nonblock, copy, stop, expired, timedOut, answer>>

HostStep == WaitTimesOut \/ FinishCopies \/ Join \/ NoticeByte

Next ==
  \/ \E s \in Stream : CopyStep(s) \/ ChildWrite(s) \/ ReaderTakes(s) \/ ReaderStops(s)
                         \/ ReaderCloses(s) \/ OtherWriter(s)
  \/ HostStep \/ Expire \/ WaitEnds \/ WaitMisses

Spec == Init /\ [][Next]_vars

\* Threads and the host are scheduled, and a reader that reads goes on.  The
\* mutex is not fair: nothing is said of who gets it.
FairSpec ==
  /\ Spec
  /\ WF_vars(HostStep)
  /\ \A s \in Stream : WF_vars(CopyStep(s)) /\ WF_vars(ReaderTakes(s))

-----------------------------------------------------------------------------
(* Correctness. *)

\* What a sink gets of a stream is what the child wrote there, in order,
\* without a gap or a repetition, however the writes are cut.  (copy_pipe)
InOrder == \A s \in Stream : sent[s] = [i \in 1 .. Len(sent[s]) |-> i]

\* A call that answers with the child's status has passed on every byte the
\* child wrote, unless the reader closed its end.  (finish_copies)
NothingLost ==
  answer = "ok" => \A s \in Stream : reader[sink[s]] # "gone" => Len(sent[s]) = made[s]

\* No copy thread ever waits inside write, where the stop flag cannot reach
\* it, although other threads and other processes fill the same sink.
\* (forward_write_lock, write_fd)
NeverInWrite == \A s \in Stream : (pc[s] = "write" /\ reader[sink[s]] # "gone" /\ ~ Fits(s)) => ~ Blocks(s)

\* The sink's own flags are as before whenever no thread is writing, also when
\* both streams share an open file.  (write_fd)
FlagsPutBack == lock = "free" => \A k \in Stream : ~ nonblock[k]

\* Nothing is copied any more once the call has answered, unless with
\* Descendants, so that the deadline line is the last thing written.
QuietAfterAnswer == answer \in {"ok", "timeout"} => CopiesDone

\* The deadline ends the call, notice included, whatever the readers do.  The
\* exception is a descendant that outlived the kill with the pipes in hand:
\* its read never ends, and join_copy waits for it.  (wait_child_timeout_forward)
DeadlineReturns == [](expired => <>(hpc = "over" \/ (timedOut /\ open)))

\* While all readers read, the sinks get whatever the child writes.
Caught(s) == Len(sent[s]) = made[s] \/ stop
Reads(k) == reader[k] = "reads"
AllFlows == (\A k \in Stream : []Reads(k)) => \A s \in Stream : []<>Caught(s)

=============================================================================
