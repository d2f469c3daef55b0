------------------------- MODULE HttpConnectionProofs -------------------------
(***************************************************************************)
(* Theorems about HttpConnection, for every set of requests and every      *)
(* limit.  Both rest on Progress: how far the buffer can be at each stage. *)
(***************************************************************************)
EXTENDS HttpConnection, TLAPS

\* While headers are read the buffer has neither their end nor as much as their limit;
\* while a body is read the headers are within theirs, and some of the body is missing.
Progress ==
  /\ wpc = "headers" => read < req.head /\ read < MaxHeader
  /\ wpc = "body" => /\ req.head <= MaxHeader /\ req.head <= read
                     /\ req.first # Unreadable /\ req.first <= MaxBody
                     /\ read - req.head < req.first

IInv == TypeOK /\ Progress

\* Init establishes the type invariant and Progress.
LEMMA InitIInv == Init => IInv
  BY ConnectionAssumption DEF Init, IInv, TypeOK, Progress, Reading

\* What a received portion can do: go on with the headers, go on with the body, or
\* come to an answer, which is the verdict on the content unless the headers are near
\* their limit; what is served is complete.
LEMMA JudgeCases ==
  ASSUME IInv, Recv
  PROVE  /\ read' \in Nat /\ read' <= written /\ read' <= read + ReadSize
         /\ \/ wpc' = "headers" /\ status' = status /\ wpc = "headers"
            \/ wpc' = "body" /\ status' = status
            \/ wpc' = "send" /\ status' \in {200, 400, 413}
         /\ Progress'
         /\ wpc' = "send" => \/ status' = Verdict(req)
                             \/ status' = 400 /\ NearLimit(req)
         /\ wpc' = "send" /\ status' = 200 => Complete(req, read')
<1> DEFINE n == read'
<1>1. /\ req.head \in Nat \ {0} /\ req.size \in Nat /\ req.malformed \in BOOLEAN
      /\ req.first \in Nat \cup {Unreadable} /\ req.last \in Nat \cup {Unreadable}
      /\ {MaxHeader, MaxBody, ReadSize} \subseteq Nat \ {0}
  BY ConnectionAssumption DEF IInv, TypeOK, Lengths
<1>2. /\ read \in Nat /\ written \in Nat /\ written > read
      /\ n = read + Least(written - read, ReadSize)
      /\ UNCHANGED req /\ UNCHANGED written
  BY DEF IInv, TypeOK, Recv, Available, client
<1>3. n \in Nat /\ n > read /\ n <= written /\ n <= read + ReadSize
  BY <1>1, <1>2 DEF Least
<1> HIDE DEF n
<1>4. ASSUME req.head <= n, req.head <= MaxHeader,
             req.first # Unreadable, req.first <= MaxBody,
             JudgeBody(n)
      PROVE  /\ \/ wpc' = "body" /\ status' = status
                \/ wpc' = "send" /\ status' \in {200, 400, 413}
             /\ wpc' = "body" => n - req.head < req.first
             /\ wpc' = "send" => status' = Verdict(req)
             /\ wpc' = "send" /\ status' = 200 => Complete(req, n)
  <2>1. req.first \in Nat
    BY <1>1, <1>4
  <2>2. CASE HasBody(req, n)
    <3>1. status' = Parsed(req, n) /\ wpc' = "send"
      BY <1>4, <2>2 DEF JudgeBody, Answered
    <3>2. Least(req.first, n - req.head) = req.first
      BY <1>1, <1>3, <2>1, <2>2 DEF HasBody, Least
    <3>3. Parsed(req, n) = Verdict(req)
      BY <1>1, <1>4, <2>1, <3>2 DEF Parsed, Verdict, Deserved
    <3>4. Parsed(req, n) = 200 => Complete(req, n)
      BY <1>1, <1>3, <2>1, <2>2, <3>2 DEF Parsed, Complete, HasBody
    <3>5. Parsed(req, n) \in {200, 400, 413}
      BY DEF Parsed
    <3> QED
      BY <3>1, <3>3, <3>4, <3>5
  <2>3. CASE ~HasBody(req, n)
    BY <1>1, <1>3, <1>4, <2>1, <2>3 DEF JudgeBody, Await, HasBody
  <2> QED
    BY <2>2, <2>3
<1>5. CASE wpc = "headers"
  <2>1. JudgeHeaders(n) /\ read < req.head /\ read < MaxHeader
    BY <1>5 DEF Recv, n, IInv, Progress
  <2>2. CASE OverLimit(req, n)
    <3>1. status' = 400 /\ wpc' = "send"
      BY <2>1, <2>2 DEF JudgeHeaders, Answered
    <3>2. written <= req.size
      BY DEF IInv, TypeOK
    <3>3. req.head > MaxHeader \/ NearLimit(req)
      BY <1>1, <1>2, <1>3, <2>1, <2>2, <3>2 DEF OverLimit, NearLimit
    <3>4. req.head > MaxHeader => Verdict(req) = 400
      BY DEF Verdict, Deserved
    <3> QED
      BY <1>3, <3>1, <3>3, <3>4 DEF n, Progress
  <2>3. CASE ~OverLimit(req, n) /\ n < req.head
    <3>1. wpc' = "headers" /\ status' = status
      BY <2>1, <2>3 DEF JudgeHeaders, Await
    <3>2. n < MaxHeader
      BY <1>1, <1>3, <2>3 DEF OverLimit
    <3> QED
      BY <1>2, <1>3, <1>5, <2>3, <3>1, <3>2 DEF n, Progress
  <2>4. CASE ~OverLimit(req, n) /\ ~(n < req.head)
    <3>1. req.head <= n /\ req.head <= MaxHeader
      BY <1>1, <1>3, <2>4 DEF OverLimit
    <3>2. CASE req.first = Unreadable
      BY <1>1, <1>3, <2>1, <2>4, <3>1, <3>2
         DEF JudgeHeaders, Answered, Verdict, Deserved, n, Progress
    <3>3. CASE req.first # Unreadable /\ req.first > MaxBody
      BY <1>1, <1>3, <2>1, <2>4, <3>1, <3>3
         DEF JudgeHeaders, Answered, Verdict, Deserved, n, Progress
    <3>4. CASE req.first # Unreadable /\ ~(req.first > MaxBody)
      <4>1. JudgeBody(n)
        BY <2>1, <2>4, <3>4 DEF JudgeHeaders
      <4>2. req.first <= MaxBody
        BY <1>1, <3>4
      <4> QED
        BY <1>2, <1>3, <1>4, <3>1, <3>4, <4>1, <4>2 DEF n, Progress
    <3> QED
      BY <3>2, <3>3, <3>4
  <2> QED
    BY <2>2, <2>3, <2>4
<1>6. CASE wpc = "body"
  <2>1. /\ JudgeBody(n)
        /\ req.head <= MaxHeader /\ req.head <= read
        /\ req.first # Unreadable /\ req.first <= MaxBody
    BY <1>6 DEF Recv, n, IInv, Progress
  <2>2. req.head <= n
    BY <1>1, <1>2, <1>3, <2>1
  <2> QED
    BY <1>2, <1>3, <1>4, <1>6, <2>1, <2>2 DEF n, Progress
<1> QED
  BY <1>5, <1>6 DEF Recv, Reading
------------------------------------------------------------------------------
(* The inductive step *)

\* A received portion keeps the types.
LEMMA RecvTyping == IInv /\ Recv => TypeOK'
<1> SUFFICES ASSUME IInv, Recv PROVE TypeOK'
  OBVIOUS
<1>1. /\ read' \in Nat /\ read' <= written
      /\ \/ wpc' = "headers" /\ status' = status /\ wpc = "headers"
         \/ wpc' = "body" /\ status' = status
         \/ wpc' = "send" /\ status' \in {200, 400, 413}
  BY JudgeCases
<1>2. /\ Reading /\ status = 0
      /\ UNCHANGED <<client, sent, taken, elapsed, signals>> /\ idle' = 0
  BY DEF Recv, IInv, TypeOK
<1>3. read' \in 0..written /\ (Reading' <=> status' = 0)
  BY <1>1, <1>2 DEF Reading, IInv, TypeOK
<1> QED
  BY <1>1, <1>2, <1>3, ConnectionAssumption DEF IInv, TypeOK, client

\* Every other step leaves the buffer alone: the worker goes on only to the answer.
LEMMA OtherSteps ==
  ASSUME IInv, [Next]_vars, ~Recv
  PROVE  /\ UNCHANGED <<req, read>>
         /\ wpc' = wpc \/ ~Reading'
         /\ status' = status \/ status' = 408 \/ (status' = 400 /\ line # "up")
         /\ line' = "up" => line = "up"
  BY DEF Next, vars, client, answer, clock, Write, HangUp, Collect, Tick, Interrupted,
         Work, RecvEnds, RecvTimesOut, AfterTimeout, Answered, Send, SendIsDone,
         SendFails, Count, Reading

\* ... which but for a timeout is given to a client that has left.
LEMMA OtherAnswers ==
  ASSUME [Next]_vars, ~Recv, ~RecvTimesOut
  PROVE  line' = "up" => status' = status
  BY DEF Next, vars, client, answer, clock, Write, HangUp, Collect, Tick, Interrupted,
         Work, RecvEnds, Answered, Send, SendIsDone, SendFails

\* ... and keeps the types.
LEMMA OtherTyping ==
  ASSUME IInv, [Next]_vars, ~Recv
  PROVE  TypeOK'
<1> USE ConnectionAssumption
<1>1. CASE \E n \in 1..req.size : Write(n)
  BY <1>1 DEF IInv, TypeOK, Write, Reading, answer, clock
<1>2. CASE HangUp
  BY <1>2 DEF IInv, TypeOK, HangUp, Reading, answer, clock
<1>3. CASE \E n \in 1..Payload : Collect(n)
  BY <1>3 DEF IInv, TypeOK, Collect, Reading, client, answer, clock
<1>4. CASE Tick
  BY <1>4 DEF IInv, TypeOK, Tick, Reading, Least, client, answer
<1>5. CASE Interrupted
  BY <1>5 DEF IInv, TypeOK, Interrupted, Reading, client, answer
<1>6. CASE RecvEnds
  BY <1>6 DEF IInv, TypeOK, RecvEnds, Answered, Reading, client
<1>7. CASE RecvTimesOut
  BY <1>7 DEF IInv, TypeOK, RecvTimesOut, AfterTimeout, Answered, Reading, client
<1>8. CASE \E n \in 1..Payload : Send(n)
  BY <1>8 DEF IInv, TypeOK, Send, Count, Unsent, Room, Least, Reading, client
<1>9. CASE SendIsDone
  BY <1>9 DEF IInv, TypeOK, SendIsDone, Reading, client, answer, clock
<1>10. CASE SendFails
  BY <1>10 DEF IInv, TypeOK, SendFails, Reading, client, answer
<1>11. CASE UNCHANGED vars
  BY <1>11 DEF IInv, TypeOK, vars, Reading, client, answer, clock
<1> QED
  BY <1>1, <1>2, <1>3, <1>4, <1>5, <1>6, <1>7, <1>8, <1>9, <1>10, <1>11 DEF Next, Work

\* The invariant is inductive.
LEMMA NextIInv == IInv /\ [Next]_vars => IInv'
<1> SUFFICES ASSUME IInv, [Next]_vars PROVE IInv'
  OBVIOUS
<1>1. CASE Recv
  BY <1>1, JudgeCases, RecvTyping DEF IInv
<1>2. CASE ~Recv
  <2>1. TypeOK'
    BY <1>2, OtherTyping
  <2>2. Progress'
    BY <1>2, OtherSteps DEF IInv, Progress, Reading
  <2> QED
    BY <2>1, <2>2 DEF IInv
<1> QED
  BY <1>1, <1>2
------------------------------------------------------------------------------
(* Theorems *)

\* Counters, stages and the answer are always of their types, and a status is set
\* exactly when reading is over.
THEOREM ConnectionTyping == Spec => []TypeOK
<1>1. IInv => TypeOK
  BY DEF IInv
<1> QED
  BY <1>1, InitIInv, NextIInv, PTL DEF Spec

\* The buffer of ReadFromSocket never holds more than the limits of headers and body
\* and one read, for any client and any limits.
THEOREM BufferStaysBounded == Spec => []BufferIsBounded
<1>1. Init => BufferIsBounded
  BY ConnectionAssumption DEF Init, BufferIsBounded
<1>2. IInv /\ BufferIsBounded /\ [Next]_vars => BufferIsBounded'
  <2> SUFFICES ASSUME IInv, BufferIsBounded, [Next]_vars PROVE BufferIsBounded'
    OBVIOUS
  <2>1. CASE Recv
    <3>1. read' <= read + ReadSize /\ read' \in Nat /\ read \in Nat
      BY <2>1, JudgeCases DEF IInv, TypeOK
    <3>2. read < MaxHeader + MaxBody
      <4>1. /\ req.head \in Nat /\ req.first \in Nat \cup {Unreadable}
            /\ {MaxHeader, MaxBody, ReadSize} \subseteq Nat \ {0}
        BY ConnectionAssumption DEF IInv, TypeOK, Lengths
      <4>2. wpc = "headers" \/ wpc = "body"
        BY <2>1 DEF Recv, Reading
      <4> QED
        BY <3>1, <4>1, <4>2 DEF IInv, Progress
    <3> QED
      BY <3>1, <3>2, ConnectionAssumption DEF BufferIsBounded
  <2>2. CASE ~Recv
    BY <2>2, OtherSteps DEF BufferIsBounded
  <2> QED
    BY <2>1, <2>2
<1> QED
  BY <1>1, <1>2, InitIInv, NextIInv, PTL DEF Spec

\* The verdict depends on what a request holds and not on the portions it arrives in, and
\* what is served is complete, for any limits and any two readings of the length.  What
\* is excepted costs an answer and serves nothing: headers near their limit, and silence.
THEOREM SegmentationDoesNotMatter == Spec => []JudgedByContent
<1>1. Init => JudgedByContent
  BY DEF Init, JudgedByContent
<1>2. IInv /\ JudgedByContent /\ [Next]_vars => JudgedByContent'
  <2> SUFFICES ASSUME IInv, JudgedByContent, [Next]_vars PROVE JudgedByContent'
    OBVIOUS
  <2>1. CASE Recv
    <3>1. req' = req /\ status = 0
      BY <2>1 DEF Recv, client, IInv, TypeOK
    <3>2. status' # 0 => wpc' = "send"
      BY <2>1, <3>1, JudgeCases
    <3>3. Verdict(req)' = Verdict(req) /\ NearLimit(req)' = NearLimit(req)
          /\ Complete(req, read)' = Complete(req, read')
      BY <3>1 DEF Verdict, Deserved, NearLimit, Complete
    <3> QED
      BY <2>1, <3>2, <3>3, JudgeCases DEF JudgedByContent
  <2>2. CASE RecvTimesOut
    <3>1. status' = 408 /\ req' = req /\ read' = read
      BY <2>2 DEF RecvTimesOut, AfterTimeout, Answered, client
    <3>2. Lacking(req, read)
      <4>1. req \in Requests /\ read \in Nat /\ Progress /\ wpc \in {"headers", "body"}
        BY <2>2 DEF RecvTimesOut, Reading, IInv, TypeOK
      <4>2. req.head \in Nat /\ req.first \in Nat \cup {Unreadable}
        BY <4>1, ConnectionAssumption DEF Lengths
      <4> QED
        BY <4>1, <4>2 DEF Progress, Lacking
    <3>3. Lacking(req, read)'
      BY <3>1, <3>2 DEF Lacking
    <3> QED
      BY <3>1, <3>3 DEF JudgedByContent
  <2>3. CASE ~Recv /\ ~RecvTimesOut
    <3>1. /\ UNCHANGED <<req, read>>
          /\ line' = "up" => line = "up" /\ status' = status
      BY <2>3, OtherSteps, OtherAnswers
    <3> QED
      BY <3>1 DEF JudgedByContent, Verdict, Deserved, NearLimit, Complete, Lacking
  <2> QED
    BY <2>1, <2>2, <2>3
<1> QED
  BY <1>1, <1>2, InitIInv, NextIInv, PTL DEF Spec
------------------------------------------------------------------------------
(* The worker counts down *)

\* What a worker has left to do at most, whatever it is sent: bytes to read until a limit
\* is reached, bytes to send, the two stages to leave, and calls to be interrupted; between
\* two of these it sleeps no longer than Timeout.
BytesLeft == (MaxHeader + MaxBody + ReadSize - read) + (Payload - sent)
StagesLeft == CASE Reading -> 2 [] wpc = "send" -> 1 [] OTHER -> 0
CallsLeft == BytesLeft + StagesLeft + (MaxSignals - signals)
WorkLeft == (Timeout + 1) * CallsLeft + (Timeout - idle)

\* Every step of the worker, every signal and every tick of the clock leaves less of it,
\* and nothing a client does adds to it.
WorkerCountsDown == [][/\ Work \/ Tick \/ Interrupted => WorkLeft' < WorkLeft
                       /\ WorkLeft' <= WorkLeft]_vars

LEMMA LessCalls ==
  ASSUME NEW t \in Nat, NEW m \in Nat, NEW n \in Nat, n < m, NEW i \in 0..t, NEW j \in 0..t
  PROVE  (t + 1) * n + (t - j) < (t + 1) * m + (t - i)
<1>1. (t + 1) * m = (t + 1) * n + (t + 1) * (m - n)
  OBVIOUS
<1>2. (t + 1) * (m - n) = (t + 1) + (t + 1) * (m - n - 1)
  OBVIOUS
<1>3. (t + 1) * (m - n - 1) \in Nat
  <2>1. m - n - 1 \in Nat /\ t + 1 \in Nat
    OBVIOUS
  <2>2. \A a, b \in Nat : a * b \in Nat
    OBVIOUS
  <2> QED BY <2>1, <2>2
<1>4. (t + 1) * n \in Nat
  <2>2. \A a, b \in Nat : a * b \in Nat
    OBVIOUS
  <2> QED BY <2>2
<1>5. ASSUME NEW x \in Nat, NEW y \in Nat, NEW z \in Nat, x = y + (t + 1) + z
      PROVE  y + (t - j) < x + (t - i)
  BY <1>5
<1>6. (t + 1) * m \in Nat /\ (t + 1) * m = (t + 1) * n + (t + 1) + (t + 1) * (m - n - 1)
  BY <1>1, <1>2, <1>3, <1>4
<1> QED BY <1>3, <1>4, <1>5, <1>6

LEMMA CallsType ==
  ASSUME IInv, BufferIsBounded
  PROVE  /\ read \in Nat /\ sent \in 0..Payload /\ signals \in 0..MaxSignals
         /\ idle \in 0..Timeout /\ Timeout \in Nat /\ MaxSignals \in Nat /\ Payload \in Nat
         /\ BytesLeft \in Nat /\ StagesLeft \in 0..2 /\ CallsLeft \in Nat
<1>1. /\ {MaxHeader, MaxBody, ReadSize, Payload, Timeout} \subseteq Nat /\ MaxSignals \in Nat
  BY ConnectionAssumption
<1>2. read \in Nat /\ sent \in 0..Payload /\ signals \in 0..MaxSignals /\ idle \in 0..Timeout
  BY DEF IInv, TypeOK
<1>3. BytesLeft \in Nat
  BY <1>1, <1>2 DEF BytesLeft, BufferIsBounded
<1>4. StagesLeft \in 0..2
  BY DEF StagesLeft
<1> QED BY <1>1, <1>2, <1>3, <1>4 DEF CallsLeft

CallsTyped == /\ read \in Nat /\ sent \in 0..Payload /\ signals \in 0..MaxSignals
              /\ idle \in 0..Timeout
              /\ BytesLeft \in Nat /\ StagesLeft \in 0..2 /\ CallsLeft \in Nat

LEMMA CallsNow == IInv /\ BufferIsBounded => CallsTyped
  BY CallsType DEF CallsTyped

LEMMA CallsNext == IInv' /\ BufferIsBounded' => CallsTyped'
  BY CallsNow, PTL

LEMMA WorkerStep ==
  ASSUME IInv, BufferIsBounded, IInv', BufferIsBounded', [Next]_vars
  PROVE  /\ Work \/ Tick \/ Interrupted => WorkLeft' < WorkLeft
         /\ WorkLeft' <= WorkLeft
<1> USE CallsType, CallsNext DEF CallsTyped
<1>0. {MaxHeader, MaxBody, ReadSize, Payload, Timeout} \subseteq Nat /\ MaxSignals \in Nat
  BY ConnectionAssumption
<1>1. CallsLeft' < CallsLeft => WorkLeft' < WorkLeft
  BY LessCalls DEF WorkLeft
<1>2. WorkLeft' < WorkLeft => WorkLeft' <= WorkLeft
  <2>1. \A a, b \in Nat : a * b \in Nat
    OBVIOUS
  <2>2. WorkLeft \in Nat /\ WorkLeft' \in Nat
    BY <1>0, <2>1 DEF WorkLeft
  <2> QED BY <2>2
<1>3. CASE Recv
  <2>1. read' > read
    BY <1>0, <1>3, ConnectionAssumption DEF Recv, Available, Least, IInv, TypeOK
  <2>2. StagesLeft' <= StagesLeft /\ sent' = sent /\ signals' = signals
    BY <1>3, JudgeCases DEF Recv, StagesLeft, Reading
  <2>3. CallsLeft' < CallsLeft
    BY <1>0, <2>1, <2>2 DEF CallsLeft, BytesLeft
  <2> QED BY <1>1, <1>2, <2>3
<1>4. CASE RecvEnds \/ RecvTimesOut \/ SendIsDone \/ SendFails
  <2>1. StagesLeft' < StagesLeft /\ read' = read /\ sent' = sent /\ signals' = signals
    BY <1>4 DEF RecvEnds, RecvTimesOut, AfterTimeout, Answered, SendIsDone, SendFails,
         StagesLeft, Reading, answer
  <2>2. CallsLeft' < CallsLeft
    BY <1>0, <2>1 DEF CallsLeft, BytesLeft
  <2> QED BY <1>1, <1>2, <2>2
<1>5. CASE \E n \in 1..Payload : Send(n)
  <2>1. sent' > sent /\ read' = read /\ wpc' = wpc /\ signals' = signals
    BY <1>0, <1>5 DEF Send, Count
  <2>2. CallsLeft' < CallsLeft
    BY <1>0, <2>1 DEF CallsLeft, BytesLeft, StagesLeft, Reading
  <2> QED BY <1>1, <1>2, <2>2
<1>6. CASE Interrupted
  <2>1. signals' = signals + 1 /\ read' = read /\ sent' = sent /\ wpc' = wpc
    BY <1>6 DEF Interrupted, answer
  <2>2. CallsLeft' < CallsLeft
    BY <1>0, <2>1 DEF CallsLeft, BytesLeft, StagesLeft, Reading
  <2> QED BY <1>1, <1>2, <2>2
<1>7. (Timeout + 1) * CallsLeft \in Nat
  <2>1. \A a, b \in Nat : a * b \in Nat
    OBVIOUS
  <2> QED BY <1>0, <2>1
<1>8. ASSUME UNCHANGED <<read, sent, wpc, signals>> PROVE CallsLeft' = CallsLeft
  BY <1>8 DEF CallsLeft, BytesLeft, StagesLeft, Reading
<1>9. CASE Tick
  <2>1. CallsLeft' = CallsLeft /\ idle' = idle + 1
    BY <1>8, <1>9 DEF Tick, answer
  <2>2. WorkLeft' < WorkLeft
    BY <1>0, <1>7, <2>1 DEF WorkLeft
  <2> QED BY <1>2, <2>2
<1>10. CASE ~(Work \/ Tick \/ Interrupted)
  <2>1. CallsLeft' = CallsLeft /\ idle' = idle
    BY <1>8, <1>10 DEF Next, Write, HangUp, Collect, answer, clock, vars
  <2> QED BY <1>0, <1>7, <1>10, <2>1 DEF WorkLeft
<1> QED BY <1>3, <1>4, <1>5, <1>6, <1>9, <1>10 DEF Work

\* For any limits, and however much a client writes, in whatever portions, and whether or not
\* it reads the answer, the worker takes a number of steps and ticks that the limits bound.
THEOREM WorkIsBounded == Spec => WorkerCountsDown
<1>1. /\ IInv /\ IInv' /\ BufferIsBounded /\ BufferIsBounded' /\ [Next]_vars
        => [/\ Work \/ Tick \/ Interrupted => WorkLeft' < WorkLeft
            /\ WorkLeft' <= WorkLeft]_vars
  BY WorkerStep
<1> QED BY <1>1, InitIInv, NextIInv, BufferStaysBounded, PTL DEF Spec, WorkerCountsDown
==============================================================================
