-------------------------------- MODULE Http --------------------------------
(***************************************************************************)
(* The HTTP codec of tache/src/protocol/http/http.rs on one connection:    *)
(* Framed reads a client's pipelined requests, however they are cut up on  *)
(* the way, a loop takes them one by one, and each response carries the    *)
(* date its thread has cached.                                             *)
(*                                                                         *)
(* The loop is that of single_run_http, which leaves at the first request  *)
(* it has no rule for, or the one Engine::respond is written for, which    *)
(* answers and goes on: a step for each, in any order.  At this commit     *)
(* run_rule refuses everything, so that only the first of them happens.    *)
(*                                                                         *)
(* A request head is a sequence of units: the request line, its headers in *)
(* blocks, and the empty line that ends it.  Time runs in half seconds, so *)
(* that a clock can stand inside a second.                                 *)
(***************************************************************************)
EXTENDS Naturals, Sequences, FiniteSetsExt, SequencesExt

CONSTANTS
    Threads,       \* worker threads, each with its own LAST
    Lines,         \* what request lines say
    Versions,      \* the minor versions of HTTP/1 in use
    HeaderBlocks,  \* the headers of a request: sequences of block sizes
    MaxRequests,   \* bound: requests a client sends
    MaxTime        \* bound: the clock, in half seconds

ASSUME LinesAssumption == Lines \subseteq {"plaintext", "json", "other", "baduri", "malformed"}
ASSUME VersionsAssumption == Versions \subseteq {0, 1}
ASSUME BlocksAssumption == \A b \in HeaderBlocks : b \in Seq(Nat)
ASSUME BoundsAssumption == MaxRequests \in Nat /\ MaxTime \in Nat

VARIABLES
    heads,   \* the requests the client means to send
    todo,    \* units it has not sent yet
    closed,  \* it has closed its side
    sock,    \* units that have arrived
    buf,     \* the read buffer of Framed
    eof,     \* Framed has seen the end of the stream
    pc,      \* "decode", "read", "got", or how the loop ended: "none", "err", "left"
    reqs,    \* the requests the loop has got
    out,     \* the dates of the responses sent, and where the clock stood
    last,    \* LAST of each thread
    now,     \* the system clock
    high     \* the latest time the clock has shown

net == <<heads, todo, closed, sock>>
framed == <<buf, eof, pc>>
clock == <<now, high>>
vars == <<net, framed, reqs, out, last, clock>>
-----------------------------------------------------------------------------
Heads == [line : Lines, version : Versions, headers : HeaderBlocks]

Line(h) == [tag |-> "line", line |-> h.line, version |-> h.version, count |-> 0]
Headers(n) == [tag |-> "headers", count |-> n]
Blank == [tag |-> "end", count |-> 0]

Units(h) == <<Line(h)>> \o [i \in 1..Len(h.headers) |-> Headers(h.headers[i])] \o <<Blank>>
Bytes(hs) == FlattenSeq([i \in 1..Len(hs) |-> Units(hs[i])])

\* The sum of the first n of f.
Total(f, n) == LET sum[i \in 0..n] == IF i = 0 THEN 0 ELSE sum[i - 1] + f[i]
               IN  sum[n]

HEADERS == 16   \* the length of decode's arrays

Second(t) == t \div 2
NoDate == [date |-> 0, next_update |-> 0]

Init ==
    /\ heads \in UNION {[1..n -> Heads] : n \in 0..MaxRequests}
    /\ todo = Bytes(heads) /\ closed = FALSE /\ sock = <<>>
    /\ buf = <<>> /\ eof = FALSE /\ pc = "read"
    /\ reqs = <<>> /\ out = <<>>
    /\ last = [t \in Threads |-> NoDate]
    /\ now = 0 /\ high = 0
-----------------------------------------------------------------------------
(***************************************************************************)
(* The client and the clock (external).                                    *)
(***************************************************************************)

ClientSends ==
    /\ ~closed
    /\ \E n \in 1..Len(todo) :
          /\ sock' = sock \o SubSeq(todo, 1, n)
          /\ todo' = SubSeq(todo, n + 1, Len(todo))
    /\ UNCHANGED <<heads, closed, framed, reqs, out, last, clock>>

\* At the end of its requests or anywhere before.
ClientCloses ==
    /\ ~closed /\ closed' = TRUE
    /\ UNCHANGED <<heads, todo, sock, framed, reqs, out, last, clock>>

\* The clock is read when a response is written; where it stands in between
\* makes no difference, so it moves when one is due.
Tick ==
    /\ pc = "got" /\ now < MaxTime
    /\ now' = now + 1 /\ high' = Max({high, now + 1})
    /\ UNCHANGED <<net, framed, reqs, out, last>>

\* The system clock is set back.
StepBack ==
    /\ pc = "got"
    /\ \E t \in 0..MaxTime : t < now /\ now' = t
    /\ UNCHANGED <<net, framed, reqs, out, last, high>>
-----------------------------------------------------------------------------
(***************************************************************************)
(* Framed and the decoder.                                                 *)
(***************************************************************************)

\* httparse (external) reads the buffer from the front.  It fails at a line it
\* cannot read and at the first header the array of the caller has no room for,
\* as soon as that has arrived, and needs the whole head for anything else.
Blanks == {i \in 1..Len(buf) : buf[i] = Blank}
HeadLen == IF Blanks = {} THEN Len(buf) ELSE Min(Blanks)
HeaderCount == Total([i \in 1..Len(buf) |-> buf[i].count], HeadLen)

Parse ==
    CASE buf = <<>> -> "partial"
      [] buf # <<>> /\ (buf[1].tag # "line" \/ buf[1].line = "malformed") -> "error"
      [] OTHER -> IF HeaderCount > HEADERS THEN "error"
                  ELSE IF Blanks = {} THEN "partial" ELSE "complete"

\* Mutant: the buffer is emptied where only the head should go.
TakeAll ==
    /\ buf' = <<>>
    /\ IF buf[1].line = "baduri"
       THEN pc' = "err" /\ UNCHANGED reqs
       ELSE pc' = "got" /\ reqs' = Append(reqs, buf[1].line)

\* Mutant: the builder's error is not looked at.
TakeUnchecked ==
    /\ buf' = SubSeq(buf, HeadLen + 1, Len(buf))
    /\ pc' = "got" /\ reqs' = Append(reqs, buf[1].line)

\* split_to(amt) and the builder: a path http::Uri does not take is an error
\* after the head has left the buffer.
Take ==
    /\ buf' = SubSeq(buf, HeadLen + 1, Len(buf))
    /\ IF buf[1].line = "baduri"
       THEN pc' = "err" /\ UNCHANGED reqs
       ELSE pc' = "got" /\ reqs' = Append(reqs, buf[1].line)

\* Mutant: the end of the stream passes for the end of the requests.
decodeLenient ==
    /\ pc = "decode"
    /\ \/ Parse = "error" /\ pc' = "err" /\ UNCHANGED <<buf, reqs>>
       \/ Parse = "partial" /\ ~eof /\ pc' = "read" /\ UNCHANGED <<buf, reqs>>
       \/ Parse = "partial" /\ eof /\ pc' = "none" /\ UNCHANGED <<buf, reqs>>
       \/ Parse = "complete" /\ buf[1].version # 1 /\ pc' = "err" /\ UNCHANGED <<buf, reqs>>
       \/ Parse = "complete" /\ buf[1].version = 1 /\ Take
    /\ UNCHANGED <<net, eof, out, last, clock>>

\* Mutant: Framed reads on at the end of the stream.
decodeIgnoresEof ==
    /\ pc = "decode"
    /\ \/ Parse = "error" /\ pc' = "err" /\ UNCHANGED <<buf, reqs>>
       \/ Parse = "partial" /\ pc' = "read" /\ UNCHANGED <<buf, reqs>>
       \/ Parse = "complete" /\ buf[1].version # 1 /\ pc' = "err" /\ UNCHANGED <<buf, reqs>>
       \/ Parse = "complete" /\ buf[1].version = 1 /\ Take
    /\ UNCHANGED <<net, eof, out, last, clock>>

\* Http::decode, called by Framed, or at the end of the stream by decode_eof:
\* then what is left of a request is an error.
decode ==
    /\ pc = "decode"
    /\ \/ Parse = "error" /\ pc' = "err" /\ UNCHANGED <<buf, reqs>>
       \/ Parse = "partial" /\ ~eof /\ pc' = "read" /\ UNCHANGED <<buf, reqs>>
       \/ Parse = "partial" /\ eof /\ buf = <<>> /\ pc' = "none" /\ UNCHANGED <<buf, reqs>>
       \/ Parse = "partial" /\ eof /\ buf # <<>> /\ pc' = "err" /\ UNCHANGED <<buf, reqs>>
       \/ Parse = "complete" /\ buf[1].version # 1 /\ pc' = "err" /\ UNCHANGED <<buf, reqs>>
       \/ Parse = "complete" /\ buf[1].version = 1 /\ Take
    /\ UNCHANGED <<net, eof, out, last, clock>>

\* Framed (external) reads what has arrived, or the end of the stream.
Read ==
    /\ pc = "read" /\ pc' = "decode"
    /\ \/ /\ sock # <<>>
          /\ buf' = buf \o sock /\ sock' = <<>> /\ eof' = eof
       \/ /\ sock = <<>> /\ closed
          /\ eof' = TRUE /\ UNCHANGED <<buf, sock>>
    /\ UNCHANGED <<heads, todo, closed, reqs, out, last, clock>>
-----------------------------------------------------------------------------
(***************************************************************************)
(* Responses.                                                              *)
(***************************************************************************)

\* Mutant: next_update keeps the fraction of the second.
updateUnaligned(t) == [date |-> Second(t), next_update |-> t + 2]

\* LastRenderedNow::update: the date, good until the next full second.
update(t) == [date |-> Second(t), next_update |-> 2 * (Second(t) + 1)]

\* Display for Now.
fmt(cache) == IF now >= cache.next_update THEN update(now) ELSE cache

\* build_connection_meta or run_rule fails: the task returns.
Leave ==
    /\ pc = "got" /\ pc' = "left"
    /\ UNCHANGED <<net, buf, eof, reqs, out, last, clock>>

\* The task, on whatever thread it runs now, answers the request it got: encode
\* writes a head, with the date, and the body behind it.  Which answer it is makes
\* no difference here.
encode(t) ==
    /\ pc = "got" /\ pc' = "decode"
    /\ LET cache == fmt(last[t]) IN
       /\ last' = [last EXCEPT ![t] = cache]
       /\ out' = Append(out, [date |-> cache.date, from |-> Second(now), to |-> Second(high)])
    /\ UNCHANGED <<net, buf, eof, reqs, clock>>

Server == decode \/ Read \/ Leave \/ \E t \in Threads : encode(t)

Next == ClientSends \/ ClientCloses \/ Tick \/ StepBack \/ Server

Spec == Init /\ [][Next]_vars

\* The task is polled while it can go on; the client and the clock owe nothing.
FairSpec == Spec /\ WF_vars(Server)
-----------------------------------------------------------------------------
(***************************************************************************)
(* Properties.                                                             *)
(***************************************************************************)
Ended == {"none", "err"}   \* by what the stream held

\* Every variable has its type.
TypeOK ==
    /\ heads \in Seq(Heads) /\ closed \in BOOLEAN /\ eof \in BOOLEAN
    /\ pc \in {"decode", "read", "got", "left"} \cup Ended
    /\ reqs \in Seq(Lines \ {"baduri", "malformed"})
    /\ out \in Seq([date : Nat, from : Nat, to : Nat])
    /\ now \in 0..MaxTime /\ high \in now..MaxTime
    /\ last \in [Threads -> [date : Nat, next_update : 0..(MaxTime + 2)]]

\* What a reader that had the whole stream at once would say of a request.
Acceptable(h) ==
    /\ h.line \notin {"baduri", "malformed"} /\ h.version = 1
    /\ Total(h.headers, Len(h.headers)) <= HEADERS

\* Where the k-th request ends in the stream, and how much of it was sent.
EndOf(k) == Len(Bytes(SubSeq(heads, 1, k)))
SentLen == Len(Bytes(heads)) - Len(todo)

\* The requests that can be answered, of what the client has sent.
Answerable ==
    {k \in 0..Len(heads) : EndOf(k) <= SentLen /\ \A i \in 1..k : Acceptable(heads[i])}

\* However the stream is cut into segments, and wherever it ends, the loop gets
\* the client's requests in order up to the first one decode must refuse; when
\* it has ended it got all of those, and it ended cleanly just when the client
\* had closed between two requests.
RequestsAsSent ==
    /\ Len(reqs) \in Answerable
    /\ \A i \in 1..Len(reqs) : reqs[i] = heads[i].line
    /\ pc \in Ended => Len(reqs) = Max(Answerable)
    /\ pc = "none" => closed /\ SentLen = EndOf(Len(reqs))
    /\ pc = "err" => SentLen > EndOf(Len(reqs))

\* decode takes exactly the heads it returns out of the buffer: what is in the
\* buffer and the socket is the rest of what was sent.
BufferInStep ==
    pc \notin Ended => buf \o sock = SubSeq(Bytes(heads), EndOf(Len(reqs)) + 1, SentLen)

\* Whichever thread answers, the Date of a response is never behind the clock,
\* and never ahead of the latest time the clock has shown: it is exact as long
\* as the clock has not been set back.
DateWithinClock == \A i \in 1..Len(out) : out[i].date \in out[i].from..out[i].to

\* A client that closes its side is never left with a task that waits for it.
TaskEnds == closed ~> pc \in Ended \cup {"left"}
=============================================================================
