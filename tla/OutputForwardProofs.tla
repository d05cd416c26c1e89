------------------------- MODULE OutputForwardProofs -------------------------
(***************************************************************************)
(* The invariants of OutputForward for any number of streams, bytes and    *)
(* capacities.  Three arguments meet: the thread that holds the lock is    *)
(* the only one between poll and settle; what was sent, followed by what   *)
(* is buffered, is what was read; and a thread that ended has nothing left *)
(* to copy unless it was stopped or its reader left.                       *)
(***************************************************************************)
EXTENDS OutputForward, TLAPS

USE ForwardAssumption DEF ForwardAssumption

-----------------------------------------------------------------------------
(* The inductive invariant. *)

Held == {"poll", "flag", "write", "settle"}

\* One thread at a time is between poll and settle.
Alone(s) == pc[s] \in Held <=> lock = s

\* What the thread s knows of its sink while it holds the lock.
Prepared(s) ==
  /\ added[s] => pc[s] \in {"write", "settle"}
  /\ pc[s] = "flag" => kind = "toggle"
  /\ pc[s] \in {"write", "settle"} /\ kind = "toggle" => nonblock[sink[s]]
  /\ pc[s] = "write" /\ kind = "blocking" => Fits(s)
  /\ kind = "blocking" => res[s] # "again"

\* A flag that is set will be taken back.
Flags == \A k \in Stream : nonblock[k] => \E s \in Stream : added[s] /\ sink[s] = k

\* Bytes at the head of buf that the sink has already accepted.
Passed(s) == IF pc[s] = "settle" /\ res[s] = "wrote" THEN take[s] ELSE 0

\* A sequence that begins with byte 1, and one that ends with byte g.
FromOne(a) == \A i \in 1 .. Len(a) : a[i] = i
UpTo(b, g) == \A i \in 1 .. Len(b) : b[i] = g - Len(b) + i

\* Together they have g elements.
Total(a, b, g) == Len(a) + Len(b) = g

\* The bytes that were read are the sent ones and the buffered ones.
Counted(s) ==
  /\ Total(sent[s], buf[s], got[s] + Passed(s))
  /\ FromOne(sent[s]) /\ UpTo(buf[s], got[s])
  /\ pc[s] \in {"flag", "write", "settle"} => take[s] <= Len(buf[s])
  /\ pc[s] = "read" => buf[s] = <<>>

\* Why a thread has ended.
Ended(s) ==
  /\ pc[s] = "done" /\ ~ stop =>
       reader[sink[s]] = "gone" \/ (~ open /\ made[s] = got[s] /\ buf[s] = <<>>)
  /\ pc[s] = "settle" /\ res[s] = "error" => reader[sink[s]] = "gone"

\* Where the host is when it has stopped the threads, and when it answers.
Host ==
  /\ hpc = "wait" => open
  /\ hpc \in {"wait", "finish"} => ~ stop
  /\ stop => timedOut
  /\ answer # "none" => hpc \in {"notice", "over"}
  /\ answer = "ok" => ~ timedOut
  /\ answer \in {"ok", "timeout"} => CopiesDone
  /\ hpc = "notice" => answer = "timeout"

Inv ==
  /\ TypeOK /\ Flags /\ Host
  /\ \A s \in Stream : Alone(s) /\ Prepared(s) /\ Counted(s) /\ Ended(s)

-----------------------------------------------------------------------------
(* Sequences. *)

\* A slice of a buffer.
LEMMA Slice ==
  ASSUME NEW b \in Seq(Nat), NEW m \in Nat, NEW n \in Nat, 1 <= m, m <= n + 1, n <= Len(b)
  PROVE  /\ SubSeq(b, m, n) \in Seq(Nat)
         /\ Len(SubSeq(b, m, n)) = n + 1 - m
         /\ \A i \in 1 .. n + 1 - m : SubSeq(b, m, n)[i] = b[m + i - 1]
OBVIOUS

\* Two sequences, one after the other.
LEMMA Both ==
  ASSUME NEW a \in Seq(Nat), NEW b \in Seq(Nat)
  PROVE  /\ Len(a \o b) = Len(a) + Len(b)
         /\ \A i \in 1 .. Len(a) + Len(b) : (a \o b)[i] = IF i <= Len(a) THEN a[i] ELSE b[i - Len(a)]
OBVIOUS

\* The slice that a write passes on continues what was sent.
LEMMA SentGoesOn ==
  ASSUME NEW a \in Seq(Nat), NEW b \in Seq(Nat), NEW g \in Nat, NEW n \in Nat, n <= Len(b),
         Total(a, b, g), FromOne(a), UpTo(b, g),
         NEW c, c = a \o SubSeq(b, 1, n)
  PROVE  Total(c, b, g + n) /\ FromOne(c)
<1> DEFINE d == SubSeq(b, 1, n)
<1>1. d \in Seq(Nat) /\ Len(d) = n /\ \A i \in 1 .. n : d[i] = b[i]
  <2>1. n + 1 - 1 = n /\ \A i \in 1 .. n : 1 + i - 1 = i
    OBVIOUS
  <2> QED
    BY <2>1, Slice
<1> HIDE DEF d
<1>2. \A i \in 1 .. n : d[i] = Len(a) + i
  <2> SUFFICES ASSUME NEW i \in 1 .. n PROVE d[i] = Len(a) + i
    OBVIOUS
  <2>1. i \in 1 .. Len(b)
    OBVIOUS
  <2>2. b[i] = g - Len(b) + i
    BY <2>1 DEF UpTo
  <2>3. d[i] = b[i]
    BY <1>1
  <2>4. Len(a) \in Nat /\ Len(b) \in Nat
    OBVIOUS
  <2>5. Len(a) + Len(b) = g
    BY DEF Total
  <2>7. g - Len(b) + i = Len(a) + i
    <3> DEFINE x == Len(a)
               y == Len(b)
    <3>1. x \in Nat /\ y \in Nat /\ x + y = g /\ i \in Nat
      BY <2>4, <2>5
    <3> HIDE DEF x, y
    <3>2. g - y + i = x + i
      BY ONLY <3>1
    <3> QED
      BY <3>2 DEF x, y
  <2> QED
    BY <2>2, <2>3, <2>7
<1>3. c = a \o d
  BY DEF d
<1>4. Len(c) = Len(a) + n /\ \A i \in 1 .. Len(c) : c[i] = IF i <= Len(a) THEN a[i] ELSE d[i - Len(a)]
  BY SMTT(60), <1>1, <1>3, Both
<1>5. ASSUME NEW i \in 1 .. Len(c) PROVE c[i] = i
  <2>1. CASE i <= Len(a)
    <3>1. i \in 1 .. Len(a)
      BY <1>4, <2>1
    <3> QED
      BY <1>4, <2>1, <3>1 DEF FromOne
  <2>2. CASE i > Len(a)
    <3>1. i - Len(a) \in 1 .. n /\ Len(a) + (i - Len(a)) = i
      BY <1>4, <2>2
    <3>2. c[i] = d[i - Len(a)]
      BY <1>4, <2>2
    <3> QED
      BY <1>2, <3>1, <3>2
  <2> QED
    BY <2>1, <2>2, <1>4
<1>6. Total(c, b, g + n)
  <2>1. Len(a) \in Nat /\ Len(b) \in Nat /\ Len(a) + Len(b) = g
    BY DEF Total
  <2>2. \A x, y, z, k \in Int : x + y = z => (x + k) + y = z + k
    OBVIOUS
  <2>3. (Len(a) + n) + Len(b) = g + n
    BY ONLY <2>1, <2>2, g \in Int, n \in Int
  <2> QED
    BY <1>4, <2>3 DEF Total
<1> QED
  BY <1>4, <1>5, <1>6 DEF FromOne

\* What stays in the buffer are the last bytes that were read.
LEMMA RestStays ==
  ASSUME NEW a \in Seq(Nat), NEW b \in Seq(Nat), NEW g \in Nat, NEW n \in Nat, n <= Len(b),
         Total(a, b, g + n), UpTo(b, g),
         NEW c, c = SubSeq(b, n + 1, Len(b))
  PROVE  Total(a, c, g) /\ UpTo(c, g)
<1>1. /\ Len(c) = Len(b) + 1 - (n + 1)
      /\ \A i \in 1 .. Len(b) + 1 - (n + 1) : c[i] = b[(n + 1) + i - 1]
  <2>1. n + 1 \in Nat /\ Len(b) \in Nat /\ 1 <= n + 1 /\ n + 1 <= Len(b) + 1
    OBVIOUS
  <2> DEFINE m == n + 1
             k == Len(b)
  <2>2. m \in Nat /\ k \in Nat /\ 1 <= m /\ m <= k + 1 /\ k <= Len(b)
    BY <2>1
  <2> HIDE DEF m, k
  <2>3. Len(SubSeq(b, m, k)) = k + 1 - m /\ \A i \in 1 .. k + 1 - m : SubSeq(b, m, k)[i] = b[m + i - 1]
    BY SMTT(60), <2>2, Slice
  <2> QED
    BY <2>3 DEF m, k
<1>2. Len(c) = Len(b) - n
  BY <1>1
<1>3. ASSUME NEW i \in 1 .. Len(c) PROVE c[i] = g - Len(c) + i
  <2>1. (n + 1) + i - 1 = n + i /\ n + i \in 1 .. Len(b)
    BY <1>2
  <2>2. c[i] = b[n + i]
    BY <1>1, <1>2, <2>1
  <2>3. b[n + i] = g - Len(b) + (n + i)
    BY <2>1 DEF UpTo
  <2>4. Len(b) \in Nat /\ i \in Int
    OBVIOUS
  <2>5. \A x, y, z, k, m \in Int : z = y - m => x - y + (m + k) = x - z + k
    OBVIOUS
  <2>6. Len(c) \in Int
    BY <1>2, <2>4
  <2>7. g - Len(b) + (n + i) = g - Len(c) + i
    BY ONLY <1>2, <2>4, <2>5, <2>6, n \in Int, g \in Int
  <2> QED
    BY <2>2, <2>3, <2>7
<1>4. Total(a, c, g)
  <2>1. Len(a) \in Nat /\ Len(b) \in Nat /\ Len(a) + Len(b) = g + n
    BY DEF Total
  <2>2. \A x, y, z, k \in Int : x + y = z + k => x + (y - k) = z
    OBVIOUS
  <2>3. Len(a) + (Len(b) - n) = g
    BY ONLY <2>1, <2>2, g \in Int, n \in Int
  <2>4. Len(a) + Len(c) = g
    BY ONLY <1>2, <2>3
  <2> QED
    BY <2>4 DEF Total
<1> QED
  BY <1>2, <1>3, <1>4 DEF UpTo

-----------------------------------------------------------------------------
(* Steps of a copy thread. *)

\* copy_pipe reads what the pipe holds.
LEMMA ReadGood == ASSUME Inv, NEW s \in Stream, Read(s) PROVE Inv'
<1>1. UNCHANGED <<shape, child, sinks, added, take, res, lock, host>>
  BY DEF Read, Goto, shape, child, sinks, copy, host
<1>2. /\ pc[s] = "read" /\ made[s] > got[s]
      /\ \A t \in Stream : pc'[t] = IF t = s THEN "lock" ELSE pc[t]
      /\ \A t \in Stream : got'[t] = IF t = s THEN made[s] ELSE got[t]
      /\ buf' = [buf EXCEPT ![s] = [i \in 1 .. made[s] - got[s] |-> got[s] + i]]
  BY DEF Read, Goto, Inv, TypeOK, ShapeOK, ChildOK, SinksOK, CopyOK, HostOK
<1>3. TypeOK'
  <2>1. CopyOK'
    <3>1. got' \in [Stream -> Nat]
      BY DEF Read, Inv, TypeOK, ChildOK, CopyOK
    <3>2. buf' \in [Stream -> Seq(Nat)]
      <4>1. made[s] \in Nat /\ got[s] \in Nat /\ made[s] > got[s]
        BY <1>2 DEF Inv, TypeOK, ChildOK, CopyOK
      <4>2. [i \in 1 .. made[s] - got[s] |-> got[s] + i] \in Seq(Nat)
        <5>1. made[s] - got[s] \in Nat
          BY <4>1
        <5>2. \A i \in 1 .. made[s] - got[s] : got[s] + i \in Nat
          BY <4>1
        <5> QED
          BY <5>1, <5>2
      <4>3. buf \in [Stream -> Seq(Nat)]
        BY DEF Inv, TypeOK, CopyOK
      <4> DEFINE B == [i \in 1 .. made[s] - got[s] |-> got[s] + i]
      <4>4. buf' = [buf EXCEPT ![s] = B] /\ B \in Seq(Nat)
        BY <1>2, <4>2
      <4> HIDE DEF B
      <4> QED
        BY <4>3, <4>4
    <3>3. pc' \in [Stream -> {"read", "lock", "poll", "flag", "write", "settle", "done"}]
      BY DEF Read, Goto, Inv, TypeOK, ShapeOK, CopyOK
    <3>4. \A t \in Stream : got'[t] <= made'[t]
      <4> SUFFICES ASSUME NEW t \in Stream PROVE got'[t] <= made'[t]
        OBVIOUS
      <4>1. made[t] \in Nat /\ got[t] <= made[t] /\ made' = made
        BY <1>1 DEF Inv, TypeOK, ChildOK, CopyOK, child
      <4>2. got'[t] = got[t] \/ got'[t] = made[t]
        BY <1>2
      <4> QED
        BY <4>1, <4>2
    <3> QED
      BY <3>1, <3>2, <3>3, <3>4, <1>1, <1>2 DEF Inv, TypeOK, CopyOK, copy, child
  <2> QED
    BY <2>1, <1>1 DEF Inv, TypeOK, shape, child, sinks, copy, host, ShapeOK, ChildOK, SinksOK, HostOK
<1>4. Flags'
  BY <1>1, <1>2 DEF Inv, TypeOK, SinksOK, CopyOK, shape, sinks, copy, Flags
<1>5. Host'
  BY <1>1, <1>2 DEF Inv, TypeOK, ChildOK, CopyOK, HostOK, child, copy, host, Host, CopiesDone
<1>6. ASSUME NEW t \in Stream PROVE Alone(t)'
  BY <1>1, <1>2 DEF Inv, TypeOK, CopyOK, copy, Alone, Held
<1>7. ASSUME NEW t \in Stream PROVE Prepared(t)'
  BY ZenonT(60), <1>1, <1>2 DEF Inv, TypeOK, ShapeOK, SinksOK, CopyOK, shape, sinks, copy, Prepared, Alone, Held, Fits, Free
<1>8. ASSUME NEW t \in Stream PROVE Counted(t)'
  <2>1. /\ made[s] \in Nat /\ got[s] \in Nat /\ made[s] > got[s] /\ sent[t] \in Seq(Nat)
        /\ got[t] \in Nat /\ buf \in [Stream -> Seq(Nat)]
    BY <1>2 DEF Inv, TypeOK, ChildOK, SinksOK, CopyOK
  <2>2. CASE t # s
    <3>1. pc'[t] = pc[t] /\ got'[t] = got[t] /\ buf'[t] = buf[t]
      BY <1>2, <2>1, <2>2
    <3> QED
      BY <1>1, <3>1 DEF Inv, Counted, Passed, sinks
  <2>3. CASE t = s
    <3> DEFINE B == [i \in 1 .. made[s] - got[s] |-> got[s] + i]
    <3>1. pc'[s] = "lock" /\ got'[s] = made[s] /\ buf'[s] = B /\ sent' = sent
      BY <1>1, <1>2, <2>1 DEF sinks
    <3>2. Len(B) = made[s] - got[s] /\ \A i \in 1 .. Len(B) : B[i] = got[s] + i
      BY SMTT(60), <2>1
    <3>3. Len(sent[s]) = got[s] /\ FromOne(sent[s])
      <4>1. /\ Total(sent[s], buf[s], got[s] + Passed(s)) /\ buf[s] = <<>>
            /\ FromOne(sent[s])
        BY <1>2 DEF Inv, Counted
      <4>2. Passed(s) = 0 /\ Len(sent[s]) \in Nat
        BY <1>2, <2>1, <2>3 DEF Passed
      <4>3. Len(buf[s]) = 0
        BY <4>1
      <4> QED
        BY <2>1, <4>1, <4>2, <4>3 DEF Total
    <3> HIDE DEF B
    <3>4. Passed(s)' = 0
      BY <3>1 DEF Passed
    <3>5. UpTo(B, made[s])
      BY SMTT(60), <2>1, <3>2 DEF UpTo
    <3>6. Total(sent[s], B, made[s] + 0)
      BY SMTT(60), <2>1, <3>2, <3>3 DEF Total
    <3> QED
      BY <2>3, <3>1, <3>3, <3>4, <3>5, <3>6 DEF Counted
  <2> QED
    BY <2>2, <2>3
<1>9. ASSUME NEW t \in Stream PROVE Ended(t)'
  BY ZenonT(60), <1>1, <1>2 DEF Inv, TypeOK, ShapeOK, ChildOK, SinksOK, CopyOK, HostOK, shape, child, sinks, copy, host, Ended, Host, Counted
<1> QED
  BY <1>3, <1>4, <1>5, <1>6, <1>7, <1>8, <1>9 DEF Inv

\* The pipe is at its end.
LEMMA ReadEndsGood == ASSUME Inv, NEW s \in Stream, ReadEnds(s) PROVE Inv'
<1>1. UNCHANGED <<shape, child, sinks, got, buf, added, take, res, lock, host>>
  BY DEF ReadEnds, Goto, shape, child, sinks, copy, host
<1>2. /\ pc[s] = "read" /\ made[s] = got[s] /\ ~ open
      /\ \A t \in Stream : pc'[t] = IF t = s THEN "done" ELSE pc[t]
  BY DEF ReadEnds, Goto, Inv, TypeOK, ShapeOK, ChildOK, SinksOK, CopyOK, HostOK
<1>3. TypeOK'
  <2>1. CopyOK'
    <3>1. pc' \in [Stream -> {"read", "lock", "poll", "flag", "write", "settle", "done"}]
      BY DEF ReadEnds, Goto, Inv, TypeOK, ShapeOK, CopyOK
    <3> QED
      BY <3>1, <1>1, <1>2 DEF Inv, TypeOK, CopyOK, copy, child
  <2> QED
    BY <2>1, <1>1 DEF Inv, TypeOK, shape, child, sinks, copy, host, ShapeOK, ChildOK, SinksOK, HostOK
<1>4. Flags'
  BY <1>1, <1>2 DEF Inv, TypeOK, SinksOK, CopyOK, shape, sinks, copy, Flags
<1>5. Host'
  BY <1>1, <1>2 DEF Inv, TypeOK, ChildOK, CopyOK, HostOK, child, copy, host, Host, CopiesDone
<1>6. ASSUME NEW t \in Stream PROVE Alone(t)' /\ Prepared(t)' /\ Counted(t)' /\ Ended(t)'
  BY <1>1, <1>2 DEF Inv, Alone, Prepared, Counted, Ended, Passed, Fits, Free, Held, Host, shape, child, sinks, copy, host
<1> QED
  BY <1>3, <1>4, <1>5, <1>6 DEF Inv

\* The lock is taken.
LEMMA LockGood == ASSUME Inv, NEW s \in Stream, Lock(s) PROVE Inv'
<1>1. UNCHANGED <<shape, child, sinks, got, buf, added, take, res, host>>
  BY DEF Lock, Goto, shape, child, sinks, copy, host
<1>2. /\ pc[s] = "lock" /\ lock = "free" /\ lock' = s
      /\ \A t \in Stream : pc'[t] = IF t = s THEN "poll" ELSE pc[t]
  BY DEF Lock, Goto, Inv, TypeOK, ShapeOK, ChildOK, SinksOK, CopyOK, HostOK
<1>3. TypeOK'
  <2>1. CopyOK'
    <3>1. lock' \in Stream \union {"free"}
      BY DEF Lock, Goto, Inv, TypeOK, ShapeOK, CopyOK
    <3>2. pc' \in [Stream -> {"read", "lock", "poll", "flag", "write", "settle", "done"}]
      BY DEF Lock, Goto, Inv, TypeOK, ShapeOK, CopyOK
    <3> QED
      BY <3>1, <3>2, <1>1, <1>2 DEF Inv, TypeOK, CopyOK, copy, child
  <2> QED
    BY <2>1, <1>1 DEF Inv, TypeOK, shape, child, sinks, copy, host, ShapeOK, ChildOK, SinksOK, HostOK
<1>4. Flags'
  BY <1>1, <1>2 DEF Inv, TypeOK, SinksOK, CopyOK, shape, sinks, copy, Flags
<1>5. Host'
  BY <1>1, <1>2 DEF Inv, TypeOK, ChildOK, CopyOK, HostOK, child, copy, host, Host, CopiesDone
<1>6. ASSUME NEW t \in Stream PROVE Alone(t)' /\ Prepared(t)' /\ Counted(t)' /\ Ended(t)'
  BY <1>1, <1>2 DEF Inv, Alone, Prepared, Counted, Ended, Passed, Fits, Free, Held, Host, shape, child, sinks, copy, host
<1> QED
  BY <1>3, <1>4, <1>5, <1>6 DEF Inv

\* poll_out_once.
LEMMA PollGood == ASSUME Inv, NEW s \in Stream, Poll(s) PROVE Inv'
<1>1. UNCHANGED <<shape, child, sinks, got, buf, added, res, host>>
  BY DEF Poll, Goto, Unlock, Push, Writable, Least, Free, shape, child, sinks, copy, host
<1>2. /\ pc[s] = "poll"
      /\ \/ pc'[s] = "done" /\ (stop \/ reader[sink[s]] = "gone") /\ lock' # s /\ take' = take
         \/ pc'[s] = "lock" /\ lock' # s /\ take' = take
         \/ /\ pc'[s] = IF kind = "toggle" THEN "flag" ELSE "write"
            /\ lock' = lock
            /\ take'[s] <= Chunk /\ take'[s] <= Len(buf[s]) /\ take'[s] \in Nat
            /\ kind = "blocking" => Room - used[sink[s]] >= Chunk
      /\ lock' = lock \/ (lock = s /\ lock' = "free")
      /\ \A t \in Stream \ {s} : pc'[t] = pc[t] /\ take'[t] = take[t]
  <2>1. pc[s] = "poll" /\ lock = s /\ s # "free"
    BY DEF Poll, Inv, Alone, Held
  <2>2. pc \in [Stream -> {"read", "lock", "poll", "flag", "write", "settle", "done"}] /\ take \in [Stream -> 0 .. Chunk]
    BY DEF Inv, TypeOK, CopyOK
  <2>3. Len(buf[s]) \in Nat
    BY DEF Inv, TypeOK, CopyOK
  <2>4. Least(Len(buf[s]), Chunk) <= Chunk /\ Least(Len(buf[s]), Chunk) <= Len(buf[s]) /\ Least(Len(buf[s]), Chunk) \in Nat
    BY <2>3 DEF Least
  <2>5. CASE stop \/ reader[sink[s]] = "gone"
    BY <2>1, <2>2, <2>5 DEF Poll, Goto, Unlock
  <2>6. CASE ~ (stop \/ reader[sink[s]] = "gone") /\ Writable(sink[s])
    <3>1. pc' = [pc EXCEPT ![s] = Push] /\ take' = [take EXCEPT ![s] = Least(Len(buf[s]), Chunk)] /\ lock' = lock
      BY <2>6 DEF Poll, Goto
    <3>2. kind = "blocking" => Room - used[sink[s]] >= Chunk
      BY <2>6 DEF Writable, Free
    <3> QED
      BY <2>1, <2>2, <2>4, <3>1, <3>2 DEF Push
  <2>7. CASE ~ (stop \/ reader[sink[s]] = "gone") /\ ~ Writable(sink[s])
    BY <2>1, <2>2, <2>7 DEF Poll, Goto, Unlock
  <2> QED
    BY <2>5, <2>6, <2>7
<1>3. TypeOK'
  <2>1. CopyOK'
    <3>1. take' \in [Stream -> 0 .. Chunk]
      <4>1. take \in [Stream -> 0 .. Chunk] /\ Len(buf[s]) \in Nat
        BY DEF Inv, TypeOK, CopyOK
      <4>2. Least(Len(buf[s]), Chunk) \in 0 .. Chunk
        BY <4>1 DEF Least
      <4>3. take' = take \/ take' = [take EXCEPT ![s] = Least(Len(buf[s]), Chunk)]
        BY DEF Poll
      <4> QED
        BY <4>1, <4>2, <4>3
    <3>2. lock' \in Stream \union {"free"}
      BY DEF Poll, Goto, Unlock, Push, Writable, Least, Free, Inv, TypeOK, ShapeOK, CopyOK
    <3>3. pc' \in [Stream -> {"read", "lock", "poll", "flag", "write", "settle", "done"}]
      BY ZenonT(60) DEF Poll, Goto, Unlock, Push, Writable, Least, Free, Inv, TypeOK, ShapeOK, CopyOK
    <3> QED
      BY <3>1, <3>2, <3>3, <1>1, <1>2 DEF Inv, TypeOK, CopyOK, copy, child
  <2> QED
    BY <2>1, <1>1 DEF Inv, TypeOK, shape, child, sinks, copy, host, ShapeOK, ChildOK, SinksOK, HostOK
<1>4. Flags'
  BY <1>1, <1>2 DEF Inv, TypeOK, SinksOK, CopyOK, shape, sinks, copy, Flags
<1>5. Host'
  BY <1>1, <1>2 DEF Inv, TypeOK, ChildOK, CopyOK, HostOK, child, copy, host, Host, CopiesDone
<1>6. ASSUME NEW t \in Stream PROVE Alone(t)'
  BY <1>1, <1>2 DEF Inv, TypeOK, CopyOK, copy, Alone, Held
<1>7. ASSUME NEW t \in Stream PROVE Prepared(t)'
  <2>1. CASE t # s
    <3>1. pc'[t] = pc[t] /\ take'[t] = take[t]
      BY <1>2, <2>1
    <3> QED
      BY <1>1, <3>1 DEF Inv, Prepared, Fits, Free, shape, sinks
  <2>2. CASE t = s
    <3>1. ~ added[s]
      BY <1>2 DEF Inv, Prepared
    <3>2. used[sink[s]] \in 0 .. Room /\ sink[s] \in Stream
      BY DEF Inv, TypeOK, ShapeOK, SinksOK
    <3>3. pc'[s] = "write" => kind # "toggle"
      BY <1>2
    <3>4. pc'[s] = "write" /\ kind = "blocking" => Fits(s)'
      BY <1>1, <1>2, <3>2 DEF Fits, Free, shape, sinks
    <3>5. pc'[s] \in {"done", "lock", "flag", "write"} /\ (pc'[s] = "flag" => kind = "toggle")
      BY <1>2
    <3>6. kind = "blocking" => res[s] # "again"
      BY DEF Inv, Prepared
    <3> QED
      BY <1>1, <2>2, <3>1, <3>3, <3>4, <3>5, <3>6 DEF Prepared, shape, sinks
  <2> QED
    BY <2>1, <2>2
<1>8. ASSUME NEW t \in Stream PROVE Counted(t)'
  BY <1>1, <1>2 DEF Inv, TypeOK, SinksOK, CopyOK, sinks, copy, Counted, Passed
<1>9. ASSUME NEW t \in Stream PROVE Ended(t)'
  BY ZenonT(60), <1>1, <1>2 DEF Inv, TypeOK, ShapeOK, ChildOK, SinksOK, CopyOK, HostOK, shape, child, sinks, copy, host, Ended, Host, Counted
<1> QED
  BY <1>3, <1>4, <1>5, <1>6, <1>7, <1>8, <1>9 DEF Inv

\* write_fd makes the sink non-blocking.
LEMMA SetFlagGood == ASSUME Inv, NEW s \in Stream, SetFlag(s) PROVE Inv'
<1>1. UNCHANGED <<shape, child, sent, used, reader, foreign, got, buf, take, res, lock, host>>
  BY DEF SetFlag, Goto, shape, child, sinks, copy, host
<1>2. /\ pc[s] = "flag"
      /\ \A t \in Stream : pc'[t] = IF t = s THEN "write" ELSE pc[t]
      /\ \A t \in Stream : added'[t] = IF t = s THEN ~ nonblock[sink[s]] ELSE added[t]
      /\ \A k \in Stream : nonblock'[k] = IF k = sink[s] THEN TRUE ELSE nonblock[k]
  BY DEF SetFlag, Goto, Inv, TypeOK, ShapeOK, ChildOK, SinksOK, CopyOK, HostOK
<1>3. TypeOK'
  <2>1. SinksOK'
    <3>1. nonblock' \in [Stream -> BOOLEAN]
      BY DEF SetFlag, Goto, Inv, TypeOK, ShapeOK, SinksOK
    <3> QED
      BY <3>1, <1>1, <1>2 DEF Inv, TypeOK, SinksOK, sinks
  <2>2. CopyOK'
    <3>1. added' \in [Stream -> BOOLEAN]
      BY DEF SetFlag, Goto, Inv, TypeOK, ShapeOK, CopyOK
    <3>2. pc' \in [Stream -> {"read", "lock", "poll", "flag", "write", "settle", "done"}]
      BY DEF SetFlag, Goto, Inv, TypeOK, ShapeOK, CopyOK
    <3> QED
      BY <3>1, <3>2, <1>1, <1>2 DEF Inv, TypeOK, CopyOK, copy, child
  <2> QED
    BY <2>1, <2>2, <1>1 DEF Inv, TypeOK, shape, child, sinks, copy, host, ShapeOK, ChildOK, HostOK
<1>4. Flags'
  <2>1. \A k \in Stream : nonblock[k] => added[s] /\ sink[s] = k
    <3> SUFFICES ASSUME NEW k \in Stream, nonblock[k] PROVE added[s] /\ sink[s] = k
      OBVIOUS
    <3>1. PICK u \in Stream : added[u] /\ sink[u] = k
      BY DEF Inv, Flags
    <3>2. pc[u] \in Held /\ pc[s] \in Held
      BY <1>2, <3>1 DEF Inv, Prepared, Held
    <3>3. u = s
      BY <3>2 DEF Inv, Alone
    <3> QED
      BY <3>1, <3>3

  <2>2. \A k \in Stream : ~ nonblock[k]
    BY <1>2, <2>1 DEF Inv, Prepared
  <2>3. sink[s] \in Stream
    BY DEF Inv, TypeOK, ShapeOK
  <2> QED
    BY <1>1, <1>2, <2>2, <2>3 DEF Flags, shape
<1>5. Host'
  BY <1>1, <1>2 DEF Inv, TypeOK, ChildOK, CopyOK, HostOK, child, copy, host, Host, CopiesDone
<1>6. ASSUME NEW t \in Stream PROVE Alone(t)'
  BY SMTT(60), <1>1, <1>2 DEF Inv, TypeOK, CopyOK, copy, Alone, Held
<1>7. ASSUME NEW t \in Stream PROVE Prepared(t)'
  <2>1. sink[t] \in Stream /\ sink[s] \in Stream
    BY DEF Inv, TypeOK, ShapeOK
  <2>2. CASE t # s
    <3>1. pc'[t] = pc[t] /\ added'[t] = added[t] /\ (nonblock[sink[t]] => nonblock'[sink[t]])
      BY <1>2, <2>1, <2>2
    <3> QED
      BY <1>1, <3>1 DEF Inv, Prepared, Fits, Free, shape
  <2>3. CASE t = s
    <3>1. pc'[s] = "write" /\ nonblock'[sink[s]] /\ kind = "toggle"
      BY <1>2, <2>1 DEF Inv, Prepared
    <3> QED
      BY <1>1, <2>3, <3>1 DEF Prepared, shape
  <2> QED
    BY <2>2, <2>3
<1>8. ASSUME NEW t \in Stream PROVE Counted(t)'
  BY <1>1, <1>2 DEF Inv, TypeOK, SinksOK, CopyOK, sinks, copy, Counted, Passed
<1>9. ASSUME NEW t \in Stream PROVE Ended(t)'
  BY ZenonT(60), <1>1, <1>2 DEF Inv, TypeOK, ShapeOK, ChildOK, SinksOK, CopyOK, HostOK, shape, child, sinks, copy, host, Ended, Host, Counted
<1> QED
  BY <1>3, <1>4, <1>5, <1>6, <1>7, <1>8, <1>9 DEF Inv

\* write_once.
LEMMA WriteGood == ASSUME Inv, NEW s \in Stream, Write(s) PROVE Inv'
<1>1. UNCHANGED <<shape, child, reader, foreign, nonblock, got, buf, added, take, lock, host>>
  BY DEF Write, Goto, Fits, Blocks, Free, shape, child, sinks, copy, host
<1>2. /\ pc[s] = "write"
      /\ \A t \in Stream : pc'[t] = IF t = s THEN "settle" ELSE pc[t]
      /\ \/ /\ res'[s] = "wrote" /\ take[s] <= Room - used[sink[s]]
            /\ sent'[s] = sent[s] \o SubSeq(buf[s], 1, take[s])
            /\ used' = [used EXCEPT ![sink[s]] = @ + take[s]]
         \/ /\ res'[s] = "error" /\ reader[sink[s]] = "gone" /\ sent'[s] = sent[s] /\ used' = used
         \/ /\ res'[s] = "again" /\ ~ Blocks(s) /\ sent'[s] = sent[s] /\ used' = used
      /\ \A t \in Stream \ {s} : res'[t] = res[t] /\ sent'[t] = sent[t]
  BY ZenonT(60) DEF Write, Goto, Fits, Blocks, Free, Inv, TypeOK, ShapeOK, ChildOK, SinksOK, CopyOK, HostOK
<1>3. TypeOK'
  <2>1. SinksOK'
    <3>1. sent' \in [Stream -> Seq(Nat)]
      <4>1. sent \in [Stream -> Seq(Nat)] /\ buf[s] \in Seq(Nat) /\ take[s] \in Nat /\ take[s] <= Len(buf[s])
        BY <1>2 DEF Inv, TypeOK, SinksOK, CopyOK, Counted
      <4>2. sent[s] \o SubSeq(buf[s], 1, take[s]) \in Seq(Nat)
        BY SMTT(60), <4>1
      <4>3. sent' = sent \/ sent' = [sent EXCEPT ![s] = sent[s] \o SubSeq(buf[s], 1, take[s])]
        BY DEF Write
      <4> QED
        BY <4>1, <4>2, <4>3
    <3>2. used' \in [Stream -> 0 .. Room]
      <4>1. used \in [Stream -> 0 .. Room] /\ sink[s] \in Stream /\ take[s] \in 0 .. Chunk
        BY DEF Inv, TypeOK, ShapeOK, SinksOK, CopyOK
      <4>2. take[s] <= Room - used[sink[s]] => used[sink[s]] + take[s] \in 0 .. Room
        BY <4>1
      <4> QED
        BY <1>2, <4>1, <4>2
    <3> QED
      BY <3>1, <3>2, <1>1, <1>2 DEF Inv, TypeOK, SinksOK, sinks
  <2>2. CopyOK'
    <3>1. res' \in [Stream -> {"none", "wrote", "again", "error"}]
      BY DEF Write, Goto, Fits, Blocks, Free, Inv, TypeOK, ShapeOK, CopyOK
    <3>2. pc' \in [Stream -> {"read", "lock", "poll", "flag", "write", "settle", "done"}]
      BY DEF Write, Goto, Fits, Blocks, Free, Inv, TypeOK, ShapeOK, CopyOK
    <3> QED
      BY <3>1, <3>2, <1>1, <1>2 DEF Inv, TypeOK, CopyOK, copy, child
  <2> QED
    BY <2>1, <2>2, <1>1 DEF Inv, TypeOK, shape, child, sinks, copy, host, ShapeOK, ChildOK, HostOK
<1>4. Flags'
  BY <1>1, <1>2 DEF Inv, TypeOK, SinksOK, CopyOK, shape, sinks, copy, Flags
<1>5. Host'
  BY <1>1, <1>2 DEF Inv, TypeOK, ChildOK, CopyOK, HostOK, child, copy, host, Host, CopiesDone
<1>6. ASSUME NEW t \in Stream PROVE Alone(t)'
  BY <1>1, <1>2 DEF Inv, TypeOK, CopyOK, copy, Alone, Held
<1>7. ASSUME NEW t \in Stream PROVE Prepared(t)'
  <2>1. CASE t # s
    <3>1. pc'[t] = pc[t] /\ res'[t] = res[t] /\ pc[t] # "write"
      BY <1>2, <2>1 DEF Inv, Alone, Held
    <3> QED
      BY <1>1, <3>1 DEF Inv, Prepared, shape
  <2>2. CASE t = s
    <3>1. pc'[s] = "settle" /\ (added[s] => pc[s] = "write") /\ (kind = "toggle" => nonblock[sink[s]])
      BY <1>2 DEF Inv, Prepared
    <3>2. kind = "blocking" => res'[s] # "again"
      BY <1>2 DEF Blocks
    <3> QED
      BY <1>1, <2>2, <3>1, <3>2 DEF Prepared, shape
  <2> QED
    BY <2>1, <2>2
<1>8. ASSUME NEW t \in Stream PROVE Counted(t)'
  <2>1. CASE t # s
    <3>1. pc'[t] = pc[t] /\ res'[t] = res[t] /\ sent'[t] = sent[t]
      BY <1>2, <2>1
    <3> QED
      BY <1>1, <3>1 DEF Inv, Counted, Passed
  <2>2. CASE t = s
    <3>1. sent[s] \in Seq(Nat) /\ buf[s] \in Seq(Nat) /\ take[s] \in Nat /\ got[s] \in Nat
      BY DEF Inv, TypeOK, SinksOK, CopyOK
    <3>2. /\ Total(sent[s], buf[s], got[s]) /\ got[s] + 0 = got[s] /\ take[s] <= Len(buf[s])
          /\ FromOne(sent[s])
          /\ UpTo(buf[s], got[s])
      <4>1. Passed(s) = 0 /\ got[s] + 0 = got[s]
        BY <1>2, <3>1 DEF Passed
      <4> QED
        BY <1>2, <3>1, <4>1 DEF Inv, Counted
    <3>3. pc'[s] = "settle" /\ UNCHANGED <<got, buf, take>>
      BY <1>1, <1>2
    <3>4. CASE res'[s] = "wrote"
      <4>1. sent'[s] = sent[s] \o SubSeq(buf[s], 1, take[s]) /\ Passed(s)' = take[s]
        BY <1>2, <3>3, <3>4 DEF Passed
      <4>2. Total(sent'[s], buf[s], got[s] + take[s]) /\ FromOne(sent'[s])
        BY <3>1, <3>2, <4>1, SentGoesOn
      <4> QED
        BY <2>2, <3>2, <3>3, <4>1, <4>2 DEF Counted
    <3>5. CASE res'[s] # "wrote"
      <4>1. sent'[s] = sent[s] /\ Passed(s)' = 0
        BY <1>2, <3>5 DEF Passed
      <4> QED
        BY <2>2, <3>1, <3>2, <3>3, <4>1 DEF Counted
    <3> QED
      BY <3>4, <3>5
  <2> QED
    BY <2>1, <2>2
<1>9. ASSUME NEW t \in Stream PROVE Ended(t)'
  BY ZenonT(60), <1>1, <1>2 DEF Inv, TypeOK, ShapeOK, ChildOK, SinksOK, CopyOK, HostOK, shape, child, sinks, copy, host, Ended, Host, Counted
<1> QED
  BY <1>3, <1>4, <1>5, <1>6, <1>7, <1>8, <1>9 DEF Inv

\* write_fd takes the flag back, and copy_pipe goes on.
LEMMA SettleGood == ASSUME Inv, NEW s \in Stream, Settle(s) PROVE Inv'
<1>1. UNCHANGED <<shape, child, sent, used, reader, foreign, got, host>>
  BY DEF Settle, SettleWith, Goto, Unlock, Again, Push, shape, child, sinks, copy, host
<1>2. /\ pc[s] = "settle"
      /\ \A k \in Stream : nonblock'[k] = IF k = sink[s] THEN nonblock[k] /\ ~ added[s] ELSE nonblock[k]
      /\ \A t \in Stream : added'[t] = IF t = s THEN FALSE ELSE added[t]
      /\ \A t \in Stream : res'[t] = IF t = s THEN "none" ELSE res[t]
      /\ \/ /\ res[s] = "wrote" /\ lock' # s /\ take' = take
            /\ buf'[s] = SubSeq(buf[s], take[s] + 1, Len(buf[s]))
            /\ \/ pc'[s] = "lock"
               \/ pc'[s] = "read" /\ buf'[s] = <<>>
               \/ pc'[s] = "done" /\ stop
         \/ /\ res[s] = "again" /\ take[s] > 1 /\ take'[s] = 1 /\ lock' = lock /\ buf'[s] = buf[s]
            /\ pc'[s] = IF kind = "toggle" THEN "flag" ELSE "write"
         \/ /\ res[s] = "again" /\ lock' # s /\ take' = take /\ buf'[s] = buf[s] /\ pc'[s] = "lock"
         \/ /\ res[s] = "error" /\ lock' # s /\ take' = take /\ buf'[s] = buf[s] /\ pc'[s] = "done"
      /\ lock' = lock \/ (lock = s /\ lock' = "free")
      /\ \A t \in Stream \ {s} : pc'[t] = pc[t] /\ take'[t] = take[t] /\ buf'[t] = buf[t]
  <2>1. /\ pc[s] = "settle"
        /\ \A k \in Stream : nonblock'[k] = IF k = sink[s] THEN nonblock[k] /\ ~ added[s] ELSE nonblock[k]
        /\ \A t \in Stream : added'[t] = IF t = s THEN FALSE ELSE added[t]
        /\ \A t \in Stream : res'[t] = IF t = s THEN "none" ELSE res[t]
        /\ lock' = lock \/ (lock = s /\ lock' = "free")
        /\ \A t \in Stream \ {s} : pc'[t] = pc[t] /\ take'[t] = take[t] /\ buf'[t] = buf[t]
    BY ZenonT(60) DEF Settle, SettleWith, Goto, Unlock, Again, Push, Inv, TypeOK, ShapeOK, ChildOK, SinksOK, CopyOK, HostOK
  <2>2. \/ /\ res[s] = "wrote" /\ lock' # s /\ take' = take
           /\ buf'[s] = SubSeq(buf[s], take[s] + 1, Len(buf[s]))
           /\ \/ pc'[s] = "lock"
              \/ pc'[s] = "read" /\ buf'[s] = <<>>
              \/ pc'[s] = "done" /\ stop
        \/ /\ res[s] = "again" /\ take[s] > 1 /\ take'[s] = 1 /\ lock' = lock /\ buf'[s] = buf[s]
           /\ pc'[s] = IF kind = "toggle" THEN "flag" ELSE "write"
        \/ /\ res[s] = "again" /\ lock' # s /\ take' = take /\ buf'[s] = buf[s] /\ pc'[s] = "lock"
        \/ /\ res[s] = "error" /\ lock' # s /\ take' = take /\ buf'[s] = buf[s] /\ pc'[s] = "done"
    BY ZenonT(60) DEF Settle, SettleWith, Goto, Unlock, Again, Push, Inv, TypeOK, ShapeOK, ChildOK, SinksOK, CopyOK, HostOK
  <2> QED
    BY <2>1, <2>2, Zenon
<1>3. TypeOK'
  <2>1. SinksOK'
    <3>1. nonblock' \in [Stream -> BOOLEAN]
      BY DEF Settle, SettleWith, Goto, Unlock, Again, Push, Inv, TypeOK, ShapeOK, SinksOK
    <3> QED
      BY <3>1, <1>1, <1>2 DEF Inv, TypeOK, SinksOK, sinks
  <2>2. CopyOK'
    <3>1. buf' \in [Stream -> Seq(Nat)]
      <4>1. buf \in [Stream -> Seq(Nat)] /\ take[s] \in Nat
        BY DEF Inv, TypeOK, CopyOK
      <4>2. SubSeq(buf[s], take[s] + 1, Len(buf[s])) \in Seq(Nat)
        BY <4>1
      <4>3. buf' = buf \/ buf' = [buf EXCEPT ![s] = SubSeq(buf[s], take[s] + 1, Len(buf[s]))]
        BY DEF Settle, SettleWith
      <4> QED
        BY <4>1, <4>2, <4>3
    <3>2. added' \in [Stream -> BOOLEAN]
      BY DEF Settle, SettleWith, Goto, Unlock, Again, Push, Inv, TypeOK, ShapeOK, CopyOK
    <3>3. take' \in [Stream -> 0 .. Chunk]
      <4>1. take \in [Stream -> 0 .. Chunk] /\ 1 \in 0 .. Chunk
        BY DEF Inv, TypeOK, CopyOK
      <4>2. take' = take \/ take' = [take EXCEPT ![s] = 1]
        BY DEF Settle, SettleWith
      <4> QED
        BY <4>1, <4>2
    <3>4. res' \in [Stream -> {"none", "wrote", "again", "error"}]
      BY DEF Settle, SettleWith, Goto, Unlock, Again, Push, Inv, TypeOK, ShapeOK, CopyOK
    <3>5. lock' \in Stream \union {"free"}
      BY DEF Settle, SettleWith, Goto, Unlock, Again, Push, Inv, TypeOK, ShapeOK, CopyOK
    <3>6. pc' \in [Stream -> {"read", "lock", "poll", "flag", "write", "settle", "done"}]
      BY ZenonT(60) DEF Settle, SettleWith, Goto, Unlock, Again, Push, Inv, TypeOK, ShapeOK, CopyOK
    <3> QED
      BY <3>1, <3>2, <3>3, <3>4, <3>5, <3>6, <1>1, <1>2 DEF Inv, TypeOK, CopyOK, copy, child
  <2> QED
    BY <2>1, <2>2, <1>1 DEF Inv, TypeOK, shape, child, sinks, copy, host, ShapeOK, ChildOK, HostOK
<1>4. Flags'
  <2>1. \A k \in Stream : nonblock[k] => added[s] /\ sink[s] = k
    <3> SUFFICES ASSUME NEW k \in Stream, nonblock[k] PROVE added[s] /\ sink[s] = k
      OBVIOUS
    <3>1. PICK u \in Stream : added[u] /\ sink[u] = k
      BY DEF Inv, Flags
    <3>2. pc[u] \in Held /\ pc[s] \in Held
      BY <1>2, <3>1 DEF Inv, Prepared, Held
    <3>3. u = s
      BY <3>2 DEF Inv, Alone
    <3> QED
      BY <3>1, <3>3

  <2>2. sink[s] \in Stream
    BY DEF Inv, TypeOK, ShapeOK
  <2> QED
    BY <1>2, <2>1, <2>2 DEF Flags
<1>5. Host'
  BY <1>1, <1>2 DEF Inv, TypeOK, ChildOK, CopyOK, HostOK, child, copy, host, Host, CopiesDone
<1>6. ASSUME NEW t \in Stream PROVE Alone(t)'
  BY SMTT(60), <1>1, <1>2 DEF Inv, TypeOK, CopyOK, copy, Alone, Held
<1>7. ASSUME NEW t \in Stream PROVE Prepared(t)'
  <2>1. CASE t # s
    <3>1. pc'[t] = pc[t] /\ res'[t] = res[t] /\ added'[t] = added[t] /\ pc[t] \notin {"write", "settle"}
      BY <1>2, <2>1 DEF Inv, Alone, Held
    <3> QED
      BY <1>1, <3>1 DEF Inv, Prepared, shape
  <2>2. CASE t = s
    <3>1. ~ added'[s] /\ res'[s] = "none" /\ (pc'[s] = "write" => res[s] = "again" /\ kind # "toggle")
      BY <1>2
    <3>2. pc'[s] = "flag" => kind = "toggle"
      BY <1>2
    <3>3. pc'[s] # "settle" /\ (pc'[s] = "write" => kind # "blocking")
      BY <1>2, <3>1 DEF Inv, Prepared
    <3> QED
      BY <1>1, <2>2, <3>1, <3>2, <3>3 DEF Prepared, shape
  <2> QED
    BY <2>1, <2>2
<1>8. ASSUME NEW t \in Stream PROVE Counted(t)'
  <2>1. CASE t # s
    <3>1. pc'[t] = pc[t] /\ res'[t] = res[t] /\ buf'[t] = buf[t] /\ take'[t] = take[t]
      BY <1>2, <2>1
    <3> QED
      BY <1>1, <3>1 DEF Inv, Counted, Passed, sinks
  <2>2. CASE t = s
    <3>1. sent[s] \in Seq(Nat) /\ buf[s] \in Seq(Nat) /\ take[s] \in Nat /\ got[s] \in Nat
      BY DEF Inv, TypeOK, SinksOK, CopyOK
    <3>2. /\ Total(sent[s], buf[s], got[s] + Passed(s)) /\ got[s] + 0 = got[s] /\ take[s] <= Len(buf[s])
          /\ FromOne(sent[s])
          /\ UpTo(buf[s], got[s])
      BY <1>2, <3>1 DEF Inv, Counted
    <3>3. UNCHANGED <<got, sent>> /\ Passed(s)' = 0
      BY <1>1, <1>2 DEF Passed, sinks
    <3>4. CASE res[s] = "wrote"
      <4>1. /\ buf'[s] = SubSeq(buf[s], take[s] + 1, Len(buf[s])) /\ Passed(s) = take[s]
            /\ pc'[s] \in {"lock", "read", "done"} /\ (pc'[s] = "read" => buf'[s] = <<>>)
        BY <1>2, <3>4 DEF Passed
      <4>2. Total(sent[s], buf'[s], got[s]) /\ UpTo(buf'[s], got[s])
        BY <3>1, <3>2, <4>1, RestStays
      <4> QED
        BY <2>2, <3>2, <3>3, <4>1, <4>2 DEF Counted
    <3>5. CASE res[s] # "wrote"
      <4>1. buf'[s] = buf[s] /\ Passed(s) = 0 /\ pc'[s] # "read"
        BY <1>2, <3>5 DEF Passed
      <4>2. pc'[s] \in {"flag", "write", "settle"} => take'[s] <= Len(buf[s])
        BY <1>2, <3>1, <3>2, <3>5
      <4> QED
        BY <2>2, <3>2, <3>3, <4>1, <4>2 DEF Counted
    <3> QED
      BY <3>4, <3>5
  <2> QED
    BY <2>1, <2>2
<1>9. ASSUME NEW t \in Stream PROVE Ended(t)'
  <2>1. CASE t # s
    <3>1. pc'[t] = pc[t] /\ res'[t] = res[t] /\ buf'[t] = buf[t]
      BY <1>2, <2>1
    <3> QED
      BY <1>1, <3>1 DEF Inv, Ended, shape, child, host
  <2>2. CASE t = s
    <3>1. pc'[s] = "done" => stop \/ res[s] = "error"
      BY <1>2
    <3>2. pc'[s] # "settle" /\ (res[s] = "error" => reader[sink[s]] = "gone")
      BY <1>2 DEF Inv, Ended
    <3> QED
      BY <1>1, <2>2, <3>1, <3>2 DEF Ended, shape, child, host
  <2> QED
    BY <2>1, <2>2
<1> QED
  BY <1>3, <1>4, <1>5, <1>6, <1>7, <1>8, <1>9 DEF Inv

-----------------------------------------------------------------------------
(* Steps of the child and the readers. *)

\* The child writes.
LEMMA ChildWriteGood == ASSUME Inv, NEW s \in Stream, ChildWrite(s) PROVE Inv'
<1>1. UNCHANGED <<shape, open, sinks, copy, host>>
  BY DEF ChildWrite, shape, child, sinks, copy, host
<1>2. /\ open /\ made[s] < Bytes[s]
      /\ \A t \in Stream : made'[t] = IF t = s THEN made[s] + 1 ELSE made[t]
  BY DEF ChildWrite, Inv, TypeOK, ShapeOK, ChildOK, SinksOK, CopyOK, HostOK
<1>3. TypeOK'
  <2>1. ChildOK'
    <3>1. made' \in [Stream -> Nat]
      BY DEF ChildWrite, Inv, TypeOK, ShapeOK, ChildOK
    <3>2. \A t \in Stream : made'[t] <= Bytes[t]
      BY <1>1, <1>2 DEF Inv, TypeOK, ChildOK
    <3> QED
      BY <3>1, <3>2, <1>1, <1>2 DEF Inv, TypeOK, ChildOK, child
  <2>2. CopyOK'
    <3>1. \A t \in Stream : got'[t] <= made'[t]
      <4> SUFFICES ASSUME NEW t \in Stream PROVE got'[t] <= made'[t]
        OBVIOUS
      <4>1. made[t] \in Nat /\ got[t] \in Nat /\ got[t] <= made[t] /\ got' = got
        BY <1>1 DEF Inv, TypeOK, ChildOK, CopyOK, copy
      <4>2. made'[t] = made[t] \/ made'[t] = made[t] + 1
        BY <1>2
      <4> QED
        BY <4>1, <4>2
    <3> QED
      BY <3>1, <1>1, <1>2 DEF Inv, TypeOK, CopyOK, copy, child
  <2> QED
    BY <2>1, <2>2, <1>1 DEF Inv, TypeOK, shape, child, sinks, copy, host, ShapeOK, SinksOK, HostOK
<1>4. Flags'
  BY <1>1, <1>2 DEF Inv, TypeOK, SinksOK, CopyOK, shape, sinks, copy, Flags
<1>5. Host'
  BY <1>1, <1>2 DEF Inv, TypeOK, ChildOK, CopyOK, HostOK, child, copy, host, Host, CopiesDone
<1>6. ASSUME NEW t \in Stream PROVE Alone(t)' /\ Prepared(t)' /\ Counted(t)' /\ Ended(t)'
  BY <1>1, <1>2 DEF Inv, Alone, Prepared, Counted, Ended, Passed, Fits, Free, Held, Host, shape, child, sinks, copy, host
<1> QED
  BY <1>3, <1>4, <1>5, <1>6 DEF Inv

\* A step that only moves bytes in the sinks or changes their readers.
LEMMA SinksType ==
  ASSUME TypeOK, SinksOK', UNCHANGED shape, UNCHANGED child, UNCHANGED copy, UNCHANGED host
  PROVE  TypeOK'
<1>1. ShapeOK'
  BY DEF TypeOK, shape, ShapeOK
<1>2. ChildOK'
  BY DEF TypeOK, child, ChildOK
<1>3. CopyOK'
  BY DEF TypeOK, child, copy, CopyOK
<1>4. HostOK'
  BY DEF TypeOK, host, HostOK
<1> QED
  BY <1>1, <1>2, <1>3, <1>4 DEF TypeOK

\* A reader takes a byte.
LEMMA ReaderTakesGood == ASSUME Inv, NEW s \in Stream, ReaderTakes(s) PROVE Inv'
<1>1. UNCHANGED <<shape, child, sent, reader, foreign, nonblock, copy, host>>
  BY DEF ReaderTakes, shape, child, sinks, copy, host
<1>2. used[s] > 0 /\ \A k \in Stream : used'[k] = IF k = s THEN used[s] - 1 ELSE used[k]
  BY DEF ReaderTakes, Inv, TypeOK, ShapeOK, ChildOK, SinksOK, CopyOK, HostOK
<1>3. TypeOK'
  <2>1. SinksOK'
    <3>1. used' \in [Stream -> 0 .. Room]
      BY DEF ReaderTakes, Inv, TypeOK, ShapeOK, SinksOK
    <3> QED
      BY <3>1, <1>1, <1>2 DEF Inv, TypeOK, SinksOK, sinks
  <2> QED
    BY <2>1, <1>1, SinksType DEF Inv
<1>4. Flags'
  BY <1>1, <1>2 DEF Inv, TypeOK, SinksOK, CopyOK, shape, sinks, copy, Flags
<1>5. Host'
  BY <1>1, <1>2 DEF Inv, TypeOK, ChildOK, CopyOK, HostOK, child, copy, host, Host, CopiesDone
<1>6. ASSUME NEW t \in Stream PROVE Prepared(t)'
  <2>1. used \in [Stream -> 0 .. Room] /\ sink[t] \in Stream /\ take[t] \in 0 .. Chunk
    BY DEF Inv, TypeOK, ShapeOK, SinksOK, CopyOK
  <2>2. Fits(t) => Fits(t)'
    BY <1>1, <1>2, <2>1 DEF Fits, Free, shape, copy
  <2> QED
    BY <1>1, <2>2 DEF Inv, Prepared, shape, copy
<1>7. ASSUME NEW t \in Stream PROVE Alone(t)' /\ Counted(t)' /\ Ended(t)'
  BY <1>1, <1>2 DEF Inv, Alone, Counted, Ended, Passed, Held, Host, shape, child, sinks, copy, host
<1> QED
  BY <1>3, <1>4, <1>5, <1>6, <1>7 DEF Inv

\* A reader stops.
LEMMA ReaderStopsGood == ASSUME Inv, NEW s \in Stream, ReaderStops(s) PROVE Inv'
<1>1. UNCHANGED <<shape, child, sent, used, foreign, nonblock, copy, host>>
  BY DEF ReaderStops, shape, child, sinks, copy, host
<1>2. \A k \in Stream : reader'[k] = (IF k = s THEN "stalled" ELSE reader[k]) /\ (reader[k] = "gone" => reader'[k] = "gone")
  BY DEF ReaderStops, Inv, TypeOK, ShapeOK, ChildOK, SinksOK, CopyOK, HostOK
<1>3. TypeOK'
  <2>1. SinksOK'
    <3>1. reader' \in [Stream -> {"reads", "stalled", "gone"}]
      BY DEF ReaderStops, Inv, TypeOK, ShapeOK, SinksOK
    <3> QED
      BY <3>1, <1>1, <1>2 DEF Inv, TypeOK, SinksOK, sinks
  <2> QED
    BY <2>1, <1>1, SinksType DEF Inv
<1>4. Flags'
  BY <1>1, <1>2 DEF Inv, TypeOK, SinksOK, CopyOK, shape, sinks, copy, Flags
<1>5. Host'
  BY <1>1, <1>2 DEF Inv, TypeOK, ChildOK, CopyOK, HostOK, child, copy, host, Host, CopiesDone
<1>6. ASSUME NEW t \in Stream PROVE Ended(t)'
  <2>1. sink[t] \in Stream
    BY DEF Inv, TypeOK, ShapeOK
  <2>2. reader[sink[t]] = "gone" => reader'[sink[t]] = "gone"
    BY <1>2, <2>1
  <2> QED
    BY <1>1, <2>2 DEF Inv, Ended, shape, child, copy, host
<1>7. ASSUME NEW t \in Stream PROVE Alone(t)' /\ Prepared(t)' /\ Counted(t)'
  BY <1>1, <1>2 DEF Inv, Alone, Prepared, Counted, Passed, Fits, Free, Held, shape, child, sinks, copy, host
<1> QED
  BY <1>3, <1>4, <1>5, <1>6, <1>7 DEF Inv

\* A reader closes its end.
LEMMA ReaderClosesGood == ASSUME Inv, NEW s \in Stream, ReaderCloses(s) PROVE Inv'
<1>1. UNCHANGED <<shape, child, sent, used, foreign, nonblock, copy, host>>
  BY DEF ReaderCloses, shape, child, sinks, copy, host
<1>2. \A k \in Stream : reader'[k] = (IF k = s THEN "gone" ELSE reader[k])
  BY DEF ReaderCloses, Inv, TypeOK, ShapeOK, ChildOK, SinksOK, CopyOK, HostOK
<1>3. TypeOK'
  <2>1. SinksOK'
    <3>1. reader' \in [Stream -> {"reads", "stalled", "gone"}]
      BY DEF ReaderCloses, Inv, TypeOK, ShapeOK, SinksOK
    <3> QED
      BY <3>1, <1>1, <1>2 DEF Inv, TypeOK, SinksOK, sinks
  <2> QED
    BY <2>1, <1>1, SinksType DEF Inv
<1>4. Flags'
  BY <1>1, <1>2 DEF Inv, TypeOK, SinksOK, CopyOK, shape, sinks, copy, Flags
<1>5. Host'
  BY <1>1, <1>2 DEF Inv, TypeOK, ChildOK, CopyOK, HostOK, child, copy, host, Host, CopiesDone
<1>6. ASSUME NEW t \in Stream PROVE Ended(t)'
  <2>1. sink[t] \in Stream
    BY DEF Inv, TypeOK, ShapeOK
  <2>2. reader[sink[t]] = "gone" => reader'[sink[t]] = "gone"
    BY <1>2, <2>1
  <2> QED
    BY <1>1, <2>2 DEF Inv, Ended, shape, child, copy, host
<1>7. ASSUME NEW t \in Stream PROVE Alone(t)' /\ Prepared(t)' /\ Counted(t)'
  BY <1>1, <1>2 DEF Inv, Alone, Prepared, Counted, Passed, Fits, Free, Held, shape, child, sinks, copy, host
<1> QED
  BY <1>3, <1>4, <1>5, <1>6, <1>7 DEF Inv

\* Another process writes.
LEMMA OtherWriterGood == ASSUME Inv, NEW s \in Stream, OtherWriter(s) PROVE Inv'
<1>1. UNCHANGED <<shape, child, sent, reader, nonblock, copy, host>>
  BY DEF OtherWriter, Free, shape, child, sinks, copy, host
<1>2. /\ foreign < MaxForeign /\ foreign' = foreign + 1 /\ kind # "blocking" /\ used[s] < Room
      /\ \A k \in Stream : used'[k] = IF k = s THEN used[s] + 1 ELSE used[k]
  <2>1. foreign < MaxForeign /\ foreign' = foreign + 1 /\ kind # "blocking" /\ Room - used[s] > 0
    BY DEF OtherWriter, Free
  <2>2. used' = [used EXCEPT ![s] = @ + 1]
    BY DEF OtherWriter
  <2>3. used \in [Stream -> 0 .. Room]
    BY DEF Inv, TypeOK, SinksOK
  <2> QED
    BY <2>1, <2>2, <2>3
<1>3. TypeOK'
  <2>1. SinksOK'
    <3>1. used' \in [Stream -> 0 .. Room]
      <4>1. used[s] + 1 \in 0 .. Room /\ used \in [Stream -> 0 .. Room]
        BY <1>2 DEF Inv, TypeOK, SinksOK
      <4> QED
        BY <4>1 DEF OtherWriter
    <3>2. foreign' \in 0 .. MaxForeign
      BY <1>2 DEF Inv, TypeOK, SinksOK
    <3> QED
      BY <3>1, <3>2, <1>1, <1>2 DEF Inv, TypeOK, SinksOK, sinks
  <2> QED
    BY <2>1, <1>1, SinksType DEF Inv
<1>4. Flags'
  BY <1>1, <1>2 DEF Inv, TypeOK, SinksOK, CopyOK, shape, sinks, copy, Flags
<1>5. Host'
  BY <1>1, <1>2 DEF Inv, TypeOK, ChildOK, CopyOK, HostOK, child, copy, host, Host, CopiesDone
<1>6. ASSUME NEW t \in Stream PROVE Alone(t)' /\ Prepared(t)' /\ Counted(t)' /\ Ended(t)'
  BY <1>1, <1>2 DEF Inv, Alone, Prepared, Counted, Ended, Passed, Fits, Free, Held, Host, shape, child, sinks, copy, host
<1> QED
  BY <1>3, <1>4, <1>5, <1>6 DEF Inv

-----------------------------------------------------------------------------
(* Steps of the host. *)

\* Time passes.
LEMMA ExpireGood == ASSUME Inv, Expire PROVE Inv'
<1>1. UNCHANGED <<shape, child, sinks, copy, stop, hpc, timedOut, answer, notice>>
  BY DEF Expire, shape, child, sinks, copy, host
<1>2. expired' = TRUE
  BY DEF Expire, Inv, TypeOK, ShapeOK, ChildOK, SinksOK, CopyOK, HostOK
<1>3. TypeOK'
  <2>1. HostOK'
    <3> QED
      BY <1>1, <1>2 DEF Inv, TypeOK, HostOK, host
  <2> QED
    BY <2>1, <1>1 DEF Inv, TypeOK, shape, child, sinks, copy, host, ShapeOK, ChildOK, SinksOK, CopyOK
<1>4. Flags'
  BY <1>1, <1>2 DEF Inv, TypeOK, SinksOK, CopyOK, shape, sinks, copy, Flags
<1>5. Host'
  BY <1>1, <1>2 DEF Inv, TypeOK, ChildOK, CopyOK, HostOK, child, copy, host, Host, CopiesDone
<1>6. ASSUME NEW t \in Stream PROVE Alone(t)' /\ Prepared(t)' /\ Counted(t)' /\ Ended(t)'
  BY <1>1, <1>2 DEF Inv, Alone, Prepared, Counted, Ended, Passed, Fits, Free, Held, Host, shape, child, sinks, copy, host
<1> QED
  BY <1>3, <1>4, <1>5, <1>6 DEF Inv

\* All processes are gone.
LEMMA WaitEndsGood == ASSUME Inv, WaitEnds PROVE Inv'
<1>1. UNCHANGED <<shape, made, sinks, copy, stop, expired, timedOut, answer, notice>>
  BY DEF WaitEnds, shape, child, sinks, copy, host
<1>2. hpc = "wait" /\ open' = FALSE /\ hpc' \in {"finish", "join"}
  BY DEF WaitEnds, Inv, TypeOK, ShapeOK, ChildOK, SinksOK, CopyOK, HostOK
<1>3. TypeOK'
  <2>1. ChildOK'
    <3>1. open' \in BOOLEAN
      BY DEF WaitEnds, Inv, TypeOK, ShapeOK, ChildOK
    <3> QED
      BY <3>1, <1>1, <1>2 DEF Inv, TypeOK, ChildOK, child
  <2>2. CopyOK'
    <3> QED
      BY <1>1, <1>2 DEF Inv, TypeOK, CopyOK, copy, child
  <2>3. HostOK'
    <3> QED
      BY <1>1, <1>2 DEF Inv, TypeOK, HostOK, host
  <2> QED
    BY <2>1, <2>2, <2>3, <1>1 DEF Inv, TypeOK, shape, child, sinks, copy, host, ShapeOK, SinksOK
<1>4. Flags'
  BY <1>1, <1>2 DEF Inv, TypeOK, SinksOK, CopyOK, shape, sinks, copy, Flags
<1>5. Host'
  BY <1>1, <1>2 DEF Inv, TypeOK, ChildOK, CopyOK, HostOK, child, copy, host, Host, CopiesDone
<1>6. ASSUME NEW t \in Stream PROVE Alone(t)' /\ Prepared(t)' /\ Counted(t)' /\ Ended(t)'
  BY <1>1, <1>2 DEF Inv, Alone, Prepared, Counted, Ended, Passed, Fits, Free, Held, Host, shape, child, sinks, copy, host
<1> QED
  BY <1>3, <1>4, <1>5, <1>6 DEF Inv

\* The deadline.
LEMMA WaitTimesOutGood == ASSUME Inv, WaitTimesOut PROVE Inv'
<1>1. UNCHANGED <<shape, made, sinks, copy, stop, expired, answer, notice>>
  BY DEF WaitTimesOut, shape, child, sinks, copy, host
<1>2. hpc = "wait" /\ open' \in BOOLEAN /\ timedOut' = TRUE /\ hpc' = "finish"
  BY DEF WaitTimesOut, Inv, TypeOK, ShapeOK, ChildOK, SinksOK, CopyOK, HostOK
<1>3. TypeOK'
  <2>1. ChildOK'
    <3>1. open' \in BOOLEAN
      BY DEF WaitTimesOut, Inv, TypeOK, ShapeOK, ChildOK
    <3> QED
      BY <3>1, <1>1, <1>2 DEF Inv, TypeOK, ChildOK, child
  <2>2. CopyOK'
    <3> QED
      BY <1>1, <1>2 DEF Inv, TypeOK, CopyOK, copy, child
  <2>3. HostOK'
    <3> QED
      BY <1>1, <1>2 DEF Inv, TypeOK, HostOK, host
  <2> QED
    BY <2>1, <2>2, <2>3, <1>1 DEF Inv, TypeOK, shape, child, sinks, copy, host, ShapeOK, SinksOK
<1>4. Flags'
  BY <1>1, <1>2 DEF Inv, TypeOK, SinksOK, CopyOK, shape, sinks, copy, Flags
<1>5. Host'
  BY <1>1, <1>2 DEF Inv, TypeOK, ChildOK, CopyOK, HostOK, child, copy, host, Host, CopiesDone
<1>6. ASSUME NEW t \in Stream PROVE Alone(t)' /\ Prepared(t)' /\ Counted(t)' /\ Ended(t)'
  BY <1>1, <1>2 DEF Inv, Alone, Prepared, Counted, Ended, Passed, Fits, Free, Held, Host, shape, child, sinks, copy, host
<1> QED
  BY <1>3, <1>4, <1>5, <1>6 DEF Inv

\* Descendants.
LEMMA WaitMissesGood == ASSUME Inv, WaitMisses PROVE Inv'
<1>1. UNCHANGED <<shape, made, sinks, copy, stop, expired, timedOut, notice>>
  BY DEF WaitMisses, shape, child, sinks, copy, host
<1>2. hpc = "wait" /\ open' \in BOOLEAN /\ answer' = "descendants" /\ hpc' = "over"
  BY DEF WaitMisses, Inv, TypeOK, ShapeOK, ChildOK, SinksOK, CopyOK, HostOK
<1>3. TypeOK'
  <2>1. ChildOK'
    <3>1. open' \in BOOLEAN
      BY DEF WaitMisses, Inv, TypeOK, ShapeOK, ChildOK
    <3> QED
      BY <3>1, <1>1, <1>2 DEF Inv, TypeOK, ChildOK, child
  <2>2. CopyOK'
    <3> QED
      BY <1>1, <1>2 DEF Inv, TypeOK, CopyOK, copy, child
  <2>3. HostOK'
    <3> QED
      BY <1>1, <1>2 DEF Inv, TypeOK, HostOK, host
  <2> QED
    BY <2>1, <2>2, <2>3, <1>1 DEF Inv, TypeOK, shape, child, sinks, copy, host, ShapeOK, SinksOK
<1>4. Flags'
  BY <1>1, <1>2 DEF Inv, TypeOK, SinksOK, CopyOK, shape, sinks, copy, Flags
<1>5. Host'
  BY <1>1, <1>2 DEF Inv, TypeOK, ChildOK, CopyOK, HostOK, child, copy, host, Host, CopiesDone
<1>6. ASSUME NEW t \in Stream PROVE Alone(t)' /\ Prepared(t)' /\ Counted(t)' /\ Ended(t)'
  BY <1>1, <1>2 DEF Inv, Alone, Prepared, Counted, Ended, Passed, Fits, Free, Held, Host, shape, child, sinks, copy, host
<1> QED
  BY <1>3, <1>4, <1>5, <1>6 DEF Inv

\* finish_copies.
LEMMA FinishCopiesGood == ASSUME Inv, FinishCopies PROVE Inv'
<1>1. UNCHANGED <<shape, child, sinks, copy, expired, answer, notice>>
  BY DEF FinishCopies, shape, child, sinks, copy, host
<1>2. /\ hpc = "finish" /\ stop' = ~ CopiesDone /\ hpc' = "join"
      /\ timedOut' = (timedOut \/ ~ CopiesDone)
  BY DEF FinishCopies, Inv, TypeOK, ShapeOK, ChildOK, SinksOK, CopyOK, HostOK
<1>3. TypeOK'
  <2>1. HostOK'
    <3> QED
      BY <1>1, <1>2 DEF Inv, TypeOK, HostOK, host
  <2> QED
    BY <2>1, <1>1 DEF Inv, TypeOK, shape, child, sinks, copy, host, ShapeOK, ChildOK, SinksOK, CopyOK
<1>4. Flags'
  BY <1>1, <1>2 DEF Inv, TypeOK, SinksOK, CopyOK, shape, sinks, copy, Flags
<1>5. Host'
  BY <1>1, <1>2 DEF Inv, TypeOK, ChildOK, CopyOK, HostOK, child, copy, host, Host, CopiesDone
<1>6. ASSUME NEW t \in Stream PROVE Alone(t)' /\ Prepared(t)' /\ Counted(t)' /\ Ended(t)'
  BY <1>1, <1>2 DEF Inv, Alone, Prepared, Counted, Ended, Passed, Fits, Free, Held, Host, shape, child, sinks, copy, host
<1> QED
  BY <1>3, <1>4, <1>5, <1>6 DEF Inv

\* join_copy.
LEMMA JoinGood == ASSUME Inv, Join PROVE Inv'
<1>1. UNCHANGED <<shape, child, sinks, copy, stop, expired, timedOut, notice>>
  BY DEF Join, shape, child, sinks, copy, host
<1>2. /\ hpc = "join" /\ CopiesDone /\ answer' = IF timedOut THEN "timeout" ELSE "ok"
      /\ hpc' = IF timedOut THEN "notice" ELSE "over"
  BY DEF Join, Inv, TypeOK, ShapeOK, ChildOK, SinksOK, CopyOK, HostOK
<1>3. TypeOK'
  <2>1. HostOK'
    <3> QED
      BY <1>1, <1>2 DEF Inv, TypeOK, HostOK, host
  <2> QED
    BY <2>1, <1>1 DEF Inv, TypeOK, shape, child, sinks, copy, host, ShapeOK, ChildOK, SinksOK, CopyOK
<1>4. Flags'
  BY <1>1, <1>2 DEF Inv, TypeOK, SinksOK, CopyOK, shape, sinks, copy, Flags
<1>5. Host'
  BY <1>1, <1>2 DEF Inv, TypeOK, ChildOK, CopyOK, HostOK, child, copy, host, Host, CopiesDone
<1>6. ASSUME NEW t \in Stream PROVE Alone(t)' /\ Prepared(t)' /\ Counted(t)' /\ Ended(t)'
  BY <1>1, <1>2 DEF Inv, Alone, Prepared, Counted, Ended, Passed, Fits, Free, Held, Host, shape, child, sinks, copy, host
<1> QED
  BY <1>3, <1>4, <1>5, <1>6 DEF Inv

\* write_timeout_notice.
LEMMA NoticeByteGood == ASSUME Inv, NoticeByte PROVE Inv'
<1>1. UNCHANGED <<shape, child, sent, reader, foreign, nonblock, copy, stop, expired, timedOut, answer>>
  BY DEF NoticeByte, Free, shape, child, sinks, copy, host
<1>2. /\ hpc = "notice"
      /\ \/ /\ notice > 0 /\ notice' = notice - 1 /\ hpc' = hpc
            /\ used[sink["err"]] < Room /\ used' = [used EXCEPT ![sink["err"]] = @ + 1]
         \/ notice' = notice /\ used' = used /\ hpc' = "over"
  <2>1. used \in [Stream -> 0 .. Room] /\ sink["err"] \in Stream
    BY DEF Inv, TypeOK, SinksOK, ShapeOK
  <2>2. Free(sink["err"]) > 0 => used[sink["err"]] < Room
    BY <2>1 DEF Free
  <2> QED
    BY <2>2 DEF NoticeByte
<1>3. TypeOK'
  <2>1. SinksOK'
    <3>1. used' \in [Stream -> 0 .. Room]
      <4>1. used \in [Stream -> 0 .. Room] /\ sink["err"] \in Stream
        BY DEF Inv, TypeOK, SinksOK, ShapeOK
      <4>2. used[sink["err"]] < Room => used[sink["err"]] + 1 \in 0 .. Room
        BY <4>1
      <4> QED
        BY <4>1, <4>2, <1>2
    <3> QED
      BY <3>1, <1>1, <1>2 DEF Inv, TypeOK, SinksOK, sinks
  <2>2. HostOK'
    <3>1. notice' \in 0 .. Notice
      BY <1>2 DEF Inv, TypeOK, HostOK
    <3> QED
      BY <3>1, <1>1, <1>2 DEF Inv, TypeOK, HostOK, host
  <2> QED
    BY <2>1, <2>2, <1>1 DEF Inv, TypeOK, shape, child, sinks, copy, host, ShapeOK, ChildOK, CopyOK
<1>4. Flags'
  BY <1>1, <1>2 DEF Inv, TypeOK, SinksOK, CopyOK, shape, sinks, copy, Flags
<1>5. Host'
  BY <1>1, <1>2 DEF Inv, TypeOK, ChildOK, CopyOK, HostOK, child, copy, host, Host, CopiesDone
<1>6. ASSUME NEW t \in Stream PROVE Prepared(t)'
  <2>1. pc[t] = "done"
    BY <1>2 DEF Inv, Host, CopiesDone
  <2> QED
    BY <1>1, <2>1 DEF Inv, Prepared, shape, sinks, copy
<1>7. ASSUME NEW t \in Stream PROVE Alone(t)' /\ Counted(t)' /\ Ended(t)'
  BY <1>1, <1>2 DEF Inv, Alone, Counted, Ended, Passed, Held, Host, shape, child, sinks, copy, host
<1> QED
  BY <1>3, <1>4, <1>5, <1>6, <1>7 DEF Inv
-----------------------------------------------------------------------------
(* The theorems. *)

LEMMA InitGood == ASSUME Init PROVE Inv
<1>1. \A s \in Stream : s # "free"
  OBVIOUS
<1>2. ShapeOK /\ ChildOK /\ HostOK
  <2>1. sink \in [Stream -> Stream]
    BY DEF Init
  <2>2. ShapeOK
    BY <2>1 DEF Init, ShapeOK
  <2>3. ChildOK
    BY DEF Init, ChildOK
  <2>4. HostOK
    <3>1. notice = Notice /\ Notice \in 0 .. Notice
      BY DEF Init
    <3> QED
      BY <3>1 DEF Init, HostOK
  <2> QED
    BY <2>2, <2>3, <2>4
<1>3. SinksOK
  BY DEF Init, SinksOK
<1>4. CopyOK
  BY DEF Init, CopyOK
<1>5. Flags /\ Host
  BY DEF Init, Flags, Host
<1>6. ASSUME NEW s \in Stream PROVE Alone(s) /\ Prepared(s) /\ Ended(s)
  BY <1>1 DEF Init, Alone, Prepared, Ended, Held
<1>7. ASSUME NEW s \in Stream PROVE Counted(s)
  <2>1. sent[s] = <<>> /\ buf[s] = <<>> /\ got[s] = 0 /\ pc[s] = "read"
    BY DEF Init
  <2>2. Passed(s) = 0 /\ Len(<<>>) = 0
    BY <2>1 DEF Passed
  <2> QED
    BY <2>1, <2>2 DEF Counted, Total, FromOne, UpTo
<1> QED
  BY <1>2, <1>3, <1>4, <1>5, <1>6, <1>7 DEF Inv, TypeOK

\* A step that changes nothing.
LEMMA StutterGood == ASSUME Inv, UNCHANGED vars PROVE Inv'
<1> USE DEF vars, shape, child, sinks, copy, host
<1>1. TypeOK'
  <2>1. ShapeOK'
    BY DEF Inv, TypeOK, ShapeOK
  <2>2. ChildOK'
    BY DEF Inv, TypeOK, ChildOK
  <2>3. SinksOK'
    BY DEF Inv, TypeOK, SinksOK
  <2>4. CopyOK'
    BY DEF Inv, TypeOK, CopyOK
  <2>5. HostOK'
    BY DEF Inv, TypeOK, HostOK
  <2> QED
    BY <2>1, <2>2, <2>3, <2>4, <2>5 DEF TypeOK
<1>2. Flags' /\ Host'
  BY DEF Inv, Flags, Host, CopiesDone
<1>3. ASSUME NEW s \in Stream PROVE Alone(s)' /\ Prepared(s)' /\ Counted(s)' /\ Ended(s)'
  BY DEF Inv, Alone, Prepared, Counted, Ended, Fits, Free, Passed
<1> QED
  BY <1>1, <1>2, <1>3 DEF Inv

LEMMA StepGood == ASSUME Inv, [Next]_vars PROVE Inv'
<1>1. ASSUME NEW s \in Stream, CopyStep(s) PROVE Inv'
  BY <1>1, ReadGood, ReadEndsGood, LockGood, PollGood, SetFlagGood, WriteGood, SettleGood DEF CopyStep
<1>2. ASSUME NEW s \in Stream,
             ChildWrite(s) \/ ReaderTakes(s) \/ ReaderStops(s) \/ ReaderCloses(s) \/ OtherWriter(s)
      PROVE  Inv'
  BY <1>2, ChildWriteGood, ReaderTakesGood, ReaderStopsGood, ReaderClosesGood, OtherWriterGood
<1>3. CASE HostStep
  BY <1>3, WaitTimesOutGood, FinishCopiesGood, JoinGood, NoticeByteGood DEF HostStep
<1>4. CASE Expire \/ WaitEnds \/ WaitMisses
  BY <1>4, ExpireGood, WaitEndsGood, WaitMissesGood
<1>5. CASE UNCHANGED vars
  BY <1>5, StutterGood
<1> QED
  BY <1>1, <1>2, <1>3, <1>4, <1>5 DEF Next

LEMMA InvHolds == Spec => []Inv
BY InitGood, StepGood, PTL DEF Spec

\* The variables keep their types; in particular no sink ever holds more than
\* it has room for, notice included.  (poll_out_once)
THEOREM TypeCorrect == Spec => []TypeOK
<1>1. Inv => TypeOK
  BY DEF Inv
<1> QED
  BY <1>1, InvHolds, PTL

\* A sink gets the bytes of a stream in order, none left out and none twice.
\* (copy_pipe)
THEOREM OrderCorrect == Spec => []InOrder
<1>1. ASSUME Inv, NEW s \in Stream PROVE sent[s] = [i \in 1 .. Len(sent[s]) |-> i]
  <2>1. sent[s] \in Seq(Nat) /\ FromOne(sent[s])
    BY <1>1 DEF Inv, TypeOK, SinksOK, Counted
  <2>2. sent[s] = [i \in 1 .. Len(sent[s]) |-> sent[s][i]]
    BY <2>1
  <2> QED
    BY <2>1, <2>2 DEF FromOne
<1>2. Inv => InOrder
  BY <1>1 DEF InOrder
<1> QED
  BY <1>2, InvHolds, PTL

\* All of the output was passed on if the answer is the child's status.
\* (finish_copies)
THEOREM LosesNothing == Spec => []NothingLost
<1>1. ASSUME Inv, answer = "ok", NEW s \in Stream, reader[sink[s]] # "gone" PROVE Len(sent[s]) = made[s]
  <2>1. pc[s] = "done" /\ ~ stop
    BY <1>1 DEF Inv, Host, CopiesDone
  <2>2. made[s] = got[s] /\ buf[s] = <<>>
    BY <1>1, <2>1 DEF Inv, Ended
  <2>3. Total(sent[s], buf[s], got[s] + Passed(s)) /\ sent[s] \in Seq(Nat) /\ got[s] \in Nat
    BY <1>1 DEF Inv, Counted, TypeOK, SinksOK, CopyOK
  <2>4. Passed(s) = 0 /\ Len(buf[s]) = 0
    BY <2>1, <2>2 DEF Passed
  <2> QED
    BY <2>2, <2>3, <2>4 DEF Total
<1>2. Inv => NothingLost
  BY <1>1 DEF NothingLost
<1> QED
  BY <1>2, InvHolds, PTL

\* No thread waits inside write.  (forward_write_lock, write_fd)
THEOREM NeverWaitsInWrite == Spec => []NeverInWrite
<1>1. Inv => NeverInWrite
  BY DEF Inv, Prepared, NeverInWrite, Blocks
<1> QED
  BY <1>1, InvHolds, PTL

\* The flags of the sinks are as before when nobody writes.  (write_fd)
THEOREM FlagsRestored == Spec => []FlagsPutBack
<1>1. ASSUME Inv, lock = "free", NEW k \in Stream, nonblock[k] PROVE FALSE
  <2>1. PICK s \in Stream : added[s]
    BY <1>1 DEF Inv, Flags
  <2>2. pc[s] \in Held
    BY <1>1, <2>1 DEF Inv, Prepared, Held
  <2>3. lock = s
    BY <1>1, <2>2 DEF Inv, Alone
  <2> QED
    BY <1>1, <2>3
<1>2. Inv => FlagsPutBack
  BY <1>1 DEF FlagsPutBack
<1> QED
  BY <1>2, InvHolds, PTL

\* The threads are done when the call answers.  (join_copy)
THEOREM QuietAfter == Spec => []QuietAfterAnswer
<1>1. Inv => QuietAfterAnswer
  BY DEF Inv, Host, QuietAfterAnswer
<1> QED
  BY <1>1, InvHolds, PTL
=============================================================================
