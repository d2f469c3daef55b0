---------------------------- MODULE HttpConnection ----------------------------
(***************************************************************************)
(* server/http_parser.cpp, ReadFromSocket, and HttpServer::SendResponse: a *)
(* worker thread reads one request from a socket and sends one answer, to  *)
(* a client that may write in any portions, fall silent, hang up or never  *)
(* read.  Bytes are counted, not spelled: of its content a request keeps   *)
(* what decides its fate.                                                  *)
(*                                                                         *)
(* The code looks for the length of the body twice: for the text           *)
(* "content-length:" anywhere in the headers, to know how much to read,    *)
(* and in the parsed headers, to know how much to keep.  The two need not  *)
(* agree: one finds X-Content-Length and the first of two headers, the     *)
(* other a name with a space behind it and the last of two.                *)
(***************************************************************************)
EXTENDS Integers

CONSTANTS Requests,    \* what the client may be about to write
          Unreadable,  \* a length std::stoull throws on
          MaxHeader,   \* max_header_bytes
          MaxBody,     \* max_body_bytes
          ReadSize,    \* kReadBufferSize
          Payload,     \* the bytes of the answer
          SendBuffer,  \* how many of them the kernel holds for a client
          Timeout,     \* kSocketTimeoutSeconds, in ticks of the clock
          MaxSignals   \* bound: how many calls a signal interrupts

Lengths == Nat \cup {Unreadable}

ASSUME ConnectionAssumption ==
  /\ {MaxHeader, MaxBody, ReadSize, Payload, SendBuffer, Timeout} \subseteq Nat \ {0}
  /\ MaxSignals \in Nat
  /\ \A r \in Requests :
       /\ r.head \in Nat \ {0}       \* the bytes up to the end of "\r\n\r\n"
       /\ r.size \in Nat             \* the bytes the client writes in all
       /\ r.malformed \in BOOLEAN    \* a bad line, a bad version, or chunked
       /\ r.first \in Lengths /\ r.last \in Lengths

VARIABLES req,      \* the client's request
          written,  \* how much of it the client has written
          line,     \* "up", "closed" by the client, or "reset"
          read,     \* how much the worker has received: the size of its buffer
          wpc,      \* where the worker is
          status,   \* the status of the answer, 0 while there is none
          sent,     \* total_sent
          taken,    \* how much of the answer has gone to the client
          idle,     \* how long the present call of recv or send has slept
          elapsed,  \* how long reading has taken, counted to one past Timeout
          signals   \* how many calls a signal has interrupted

client == <<req, written, line>>
answer == <<status, sent>>
clock == <<idle, elapsed>>
vars == <<client, read, wpc, answer, taken, clock, signals>>

Init == /\ req \in Requests /\ written = 0 /\ line = "up"
        /\ read = 0 /\ wpc = "headers"
        /\ status = 0 /\ sent = 0 /\ taken = 0
        /\ idle = 0 /\ elapsed = 0 /\ signals = 0

Least(a, b) == IF a < b THEN a ELSE b
Reading == wpc \in {"headers", "body"}
Available == written - read
Unsent == Payload - sent
Room == SendBuffer - (sent - taken)
------------------------------------------------------------------------------
(* The client and the clock *)

Write(n) == /\ line = "up" /\ written + n <= req.size
            /\ written' = written + n
            /\ UNCHANGED <<req, line, read, wpc, answer, taken, clock, signals>>

HangUp == /\ \/ line = "up" /\ line' \in {"closed", "reset"}
             \/ line = "closed" /\ line' = "reset"
          /\ UNCHANGED <<req, written, read, wpc, answer, taken, clock, signals>>

Collect(n) == /\ line # "reset" /\ taken + n <= sent
              /\ taken' = taken + n
              /\ UNCHANGED <<client, read, wpc, answer, clock, signals>>

\* The worker sleeps in recv or send, which gives up after Timeout.
Asleep == /\ line # "reset"
          /\ \/ Reading /\ Available = 0 /\ line = "up"
             \/ wpc = "send" /\ Unsent > 0 /\ Room = 0
Tick == /\ Asleep /\ idle < Timeout
        /\ idle' = idle + 1
        /\ elapsed' = IF Reading THEN Least(elapsed + 1, Timeout + 1) ELSE elapsed
        /\ UNCHANGED <<client, read, wpc, answer, taken, signals>>
------------------------------------------------------------------------------
(* ReadFromSocket *)

\* All the first reading of the length asks for is in a buffer of n bytes.
HasBody(r, n) == n - r.head >= r.first

\* Variant: the body is not compared with the length in the parsed headers.
ParsedUnchecked(r, n) == IF r.malformed \/ r.last = Unreadable THEN 400
                         ELSE IF r.last > MaxBody THEN 413 ELSE 200

\* ParseHeaderBlock, given as much of a buffer of n bytes as the first reading says.
Parsed(r, n) ==
  IF r.malformed \/ r.last = Unreadable THEN 400
  ELSE IF r.last > MaxBody THEN 413
  ELSE IF Least(r.first, n - r.head) < r.last THEN 400
  ELSE 200

\* Variant: no limit for what has no end of the headers in it.
TooLarge(r, n) == n > MaxHeader /\ n >= r.head

\* No end of the headers within the limit, or too much received with it.
OverLimit(r, n) == n > MaxHeader \/ (n < r.head /\ n >= MaxHeader)

Answered(code) == status' = code /\ wpc' = "send"
Await(stage) == wpc' = stage /\ UNCHANGED status

\* What the worker does once its buffer has n bytes.
JudgeBody(n) == IF HasBody(req, n) THEN Answered(Parsed(req, n)) ELSE Await("body")
JudgeHeaders(n) ==
  IF OverLimit(req, n) THEN Answered(400)
  ELSE IF n < req.head THEN Await("headers")
  ELSE IF req.first = Unreadable THEN Answered(400)
  ELSE IF req.first > MaxBody THEN Answered(413)
  ELSE JudgeBody(n)

Recv == /\ Reading /\ Available > 0
        /\ read' = read + Least(Available, ReadSize)
        /\ IF wpc = "headers" THEN JudgeHeaders(read') ELSE JudgeBody(read')
        /\ idle' = 0
        /\ UNCHANGED <<client, sent, taken, elapsed, signals>>

\* The client has closed its side and all it wrote is read, or the line is reset.
RecvEnds == /\ Reading
            /\ line = "reset" \/ (line = "closed" /\ Available = 0)
            /\ Answered(400)
            /\ idle' = 0
            /\ UNCHANGED <<client, read, sent, taken, elapsed, signals>>

\* Variant: a timeout is tried again like a signal.
TimeoutTriedAgain == wpc' = wpc /\ UNCHANGED status

AfterTimeout == Answered(408)

RecvTimesOut == /\ Reading /\ Asleep /\ idle = Timeout
                /\ AfterTimeout
                /\ idle' = 0
                /\ UNCHANGED <<client, read, sent, taken, elapsed, signals>>

\* EINTR: the call is made again, and its timeout starts anew.
Interrupted == /\ Asleep /\ signals < MaxSignals
               /\ signals' = signals + 1
               /\ idle' = 0
               /\ UNCHANGED <<client, read, wpc, answer, taken, elapsed>>
------------------------------------------------------------------------------
(* SendResponse, and the return of the handler *)

\* Variant: what was asked for is counted, not what was sent.
CountAll(n) == sent' = Payload

Count(n) == sent' = sent + n

Send(n) == /\ wpc = "send" /\ line # "reset"
           /\ n <= Least(Unsent, Room)
           /\ Count(n)
           /\ idle' = 0
           /\ UNCHANGED <<client, read, wpc, status, taken, elapsed, signals>>

SendIsDone == /\ wpc = "send" /\ Unsent = 0
              /\ wpc' = "answered"
              /\ UNCHANGED <<client, read, answer, taken, clock, signals>>

SendFails == /\ wpc = "send" /\ Unsent > 0
             /\ line = "reset" \/ (Asleep /\ idle = Timeout)
             /\ wpc' = "failed"
             /\ idle' = 0
             /\ UNCHANGED <<client, read, answer, taken, elapsed, signals>>
------------------------------------------------------------------------------
Work == \/ Recv \/ RecvEnds \/ RecvTimesOut
        \/ (\E n \in 1..Payload : Send(n)) \/ SendIsDone \/ SendFails

Next == \/ \E n \in 1..req.size : Write(n)
        \/ HangUp
        \/ \E n \in 1..Payload : Collect(n)
        \/ Tick \/ Interrupted
        \/ Work

Spec == Init /\ [][Next]_vars

\* Time passes and the worker goes on.  The client need do nothing.
FairSpec == Spec /\ WF_vars(Tick) /\ WF_vars(Work)
------------------------------------------------------------------------------
(* Properties *)

TypeOK == /\ req \in Requests
          /\ line \in {"up", "closed", "reset"}
          /\ wpc \in {"headers", "body", "send", "answered", "failed"}
          /\ status \in {0, 200, 400, 408, 413}
          /\ Reading <=> status = 0
          /\ read \in 0..written /\ written \in 0..req.size
          /\ taken \in 0..sent /\ sent \in 0..Payload
          /\ sent - taken <= SendBuffer
          /\ idle \in 0..Timeout /\ elapsed \in 0..(Timeout + 1)
          /\ signals \in 0..MaxSignals

\* What one client can make the server hold: the buffer never outgrows the headers,
\* the body and one read, however much the client writes and announces.
BufferIsBounded == read < MaxHeader + MaxBody + ReadSize

\* The verdict on a request whose body is len bytes long.
Deserved(r, len) == IF r.head > MaxHeader \/ len = Unreadable THEN 400
                    ELSE IF len > MaxBody THEN 413
                    ELSE IF r.malformed THEN 400
                    ELSE 200

\* Where the two readings of the length disagree, either may have the request refused,
\* and it is served only if the first, which is waited for, covers the last.
Verdict(r) == IF Deserved(r, r.first) # 200 THEN Deserved(r, r.first)
              ELSE IF Deserved(r, r.last) # 200 THEN Deserved(r, r.last)
              ELSE IF r.first < r.last THEN 400
              ELSE 200

\* The headers are within their limit, but one read can take what follows them over it.
NearLimit(r) == /\ r.head <= MaxHeader /\ r.size > MaxHeader
                /\ r.head + ReadSize > MaxHeader + 1

\* Of n bytes: the parsed headers and the length they state.
Complete(r, n) == r.last # Unreadable /\ n >= r.head + r.last

\* Of n bytes: something is missing by the first reading, the one that is waited for.
Lacking(r, n) == n < r.head \/ (r.first # Unreadable /\ n < r.head + r.first)

\* The verdict depends on the content and not on the portions it arrives in, and what
\* is served is complete, whichever way the length is read.  Three things cost a client
\* that stays its due answer: headers near their limit with more behind them, a length
\* that the two readings disagree on, and silence before the announced end.
JudgedByContent ==
  line = "up" /\ status # 0 =>
    /\ status = 200 => Complete(req, read)
    /\ \/ status = Verdict(req)
       \/ status = 400 /\ NearLimit(req)
       \/ status = 408 /\ Lacking(req, read)

\* No client can keep a worker for ever: the handler returns whatever is written,
\* and whether or not the answer is read.
WorkerIsFreed == []<>(wpc \in {"answered", "failed"})

\* README: a client that does not send a complete request before the socket receive
\* timeout gets 408.
SlowClientsTimeOut == status = 200 => elapsed <= Timeout
==============================================================================
