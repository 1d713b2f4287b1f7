----------------------------- MODULE HttpParser -----------------------------
(***************************************************************************)
(* cppws::http::HttpParser (src/http/parser.cpp), fed by the read callback *)
(* of main.cpp with whatever pieces recv makes of a client's messages.     *)
(*                                                                         *)
(* The client sends one message at a time and waits for its answer.  A     *)
(* message is a sequence of tokens: words, "SP", ":", "CR" and "LF".  A    *)
(* piece can end between any two tokens.  Lengths count tokens.            *)
(***************************************************************************)
EXTENDS Naturals, Sequences, FiniteSets, SequencesExt

CONSTANTS
    Messages,                   \* what clients send
    MaxRequestLine,             \* MAX_REQUEST_LINE
    MaxHeaderSize,              \* MAX_HEADER_SIZE
    MaxHeaderCount,             \* MAX_HEADER_COUNT
    MaxBodySize,                \* max_body_size_
    MaxSize                     \* the largest std::size_t

Digits == {"0", "1", "2", "3"}
Methods == {"GET", "HEAD", "POST", "PUT", "DELETE", "OPTIONS", "PATCH"}
Tokens == Digits \cup Methods \cup
          {"/", "HTTP/1.1", "HTTP/1.0", "host", "content-length", "connection", "close",
           "keep-alive", "x", "SP", ":", "CR", "LF"}

ASSUME ParserAssumption ==
    /\ Messages \subseteq Seq(Tokens) \ {<<>>}
    /\ {MaxRequestLine, MaxHeaderSize, MaxHeaderCount, MaxBodySize, MaxSize}
           \subseteq Nat

VARIABLES
    parser,                     \* the HttpParser
    data,                       \* what feed() still has to look at
    pc,                         \* "idle", or "feed": inside feed()
    message,                    \* the message the client is sending
    fed,                        \* how much of it has been fed
    answers,                    \* what feed() returned for it, except Incomplete
    lawful,                     \* history: the messages so far were what a client should send
    aligned                     \* history: no piece ended inside a line

vars == <<parser, data, pc, message, fed, answers, lawful, aligned>>

NoRequest == [method |-> "UNKNOWN", path |-> <<>>, version |-> <<>>,
              headers |-> <<>>, body |-> <<>>]

\* line_buf_ is left out: feed() clears it in every turn of its loop, whether or
\* not consume_line() found the end of a line.
NewParser == [state |-> "RequestLine", request |-> NoRequest, body_remaining |-> 0,
              error |-> FALSE]

Init ==
    /\ parser = NewParser
    /\ data = <<>> /\ pc = "idle"
    /\ message = <<>> /\ fed = 0 /\ answers = <<>>
    /\ lawful = TRUE /\ aligned = TRUE

-----------------------------------------------------------------------------
(* The text of lines. *)

\* find(token, from): the first position, 0 if there is none
Find(s, token, from) ==
    LET found == {i \in from .. Len(s) : s[i] = token}
    IN  IF found = {} THEN 0 ELSE Min(found)

Trim(s) ==
    LET words == {i \in DOMAIN s : s[i] # "SP"}
    IN  IF words = {} THEN <<>> ELSE SubSeq(s, Min(words), Max(words))

\* line_buf_ without its trailing LF, or CR LF
WithoutEnd(line) ==
    LET cut == IF line # <<>> /\ Last(line) = "LF" THEN Front(line) ELSE line
    IN  IF cut # <<>> /\ Last(cut) = "CR" THEN Front(cut) ELSE cut

DigitValue == [d \in Digits |-> CASE d = "0" -> 0 [] d = "1" -> 1 [] d = "2" -> 2 [] OTHER -> 3]

\* from_chars: the digits in front; nothing if there are none or they overflow
Number(s) ==
    LET end == Min({i \in 1 .. Len(s) : s[i] \notin Digits} \cup {Len(s) + 1})
        n == FoldLeft(LAMBDA sum, d : 10 * sum + DigitValue[d], 0, SubSeq(s, 1, end - 1))
    IN  IF n \in 0 .. MaxSize THEN n ELSE 0

ContentLength(headers) ==
    IF <<"content-length">> \in DOMAIN headers THEN Number(headers[<<"content-length">>]) ELSE 0

\* wants_keep_alive(): what the connection header says, or the version's default
WantsKeepAlive(request) ==
    LET says == IF <<"connection">> \in DOMAIN request.headers
                THEN request.headers[<<"connection">>] ELSE <<>>
    IN  IF request.version = <<"HTTP/1.1">> THEN says # <<"close">> ELSE says = <<"keep-alive">>

StringToMethod(text) ==
    IF \E method \in Methods : text = <<method>> THEN text[1] ELSE "UNKNOWN"

-----------------------------------------------------------------------------
(* The parsers of the states: from a parser and its input to the parser      *)
(* after it and the result.                                                  *)

Fails(p) ==
    [parser |-> [p EXCEPT !.error = TRUE, !.state = "Complete"], result |-> "Error"]

Continues(p, state) == [parser |-> [p EXCEPT !.state = state], result |-> "Incomplete"]

Completes(p) == [parser |-> [p EXCEPT !.state = "Complete"], result |-> "Complete"]

ParseRequestLine(p, line) ==
    LET sp1 == Find(line, "SP", 1)
        sp2 == Find(line, "SP", sp1 + 1)
        q == [p EXCEPT !.request.method = StringToMethod(SubSeq(line, 1, sp1 - 1)),
                       !.request.path = SubSeq(line, sp1 + 1, sp2 - 1),
                       !.request.version = SubSeq(line, sp2 + 1, Len(line))]
    IN  CASE Len(line) > MaxRequestLine \/ sp1 = 0 \/ sp2 = 0 -> Fails(p)
          [] q.request.method = "UNKNOWN"
             \/ q.request.version \notin {<<"HTTP/1.1">>, <<"HTTP/1.0">>} -> Fails(q)
          [] OTHER -> Continues(q, "Headers")

\* headers[name] = value, in an unordered_map
Set(headers, name, value) ==
    [n \in DOMAIN headers \cup {name} |-> IF n = name THEN value ELSE headers[n]]

\* Mutant: any body is accepted.
EndOfHeaders_Unlimited(p) ==
    LET length == ContentLength(p.request.headers)
        q == [p EXCEPT !.body_remaining = length]
    IN  IF length = 0 THEN Completes(q) ELSE Continues(q, "Body")

EndOfHeaders(p) ==
    LET length == ContentLength(p.request.headers)
        q == [p EXCEPT !.body_remaining = length]
    IN  CASE length = 0 -> Completes(q)
          [] length > MaxBodySize -> Fails(q)
          [] OTHER -> Continues(q, "Body")

\* Mutant: any number of headers is accepted.
HeaderField_Unlimited(p, line) ==
    LET colon == Find(line, ":", 1)
        value == Trim(SubSeq(line, colon + 1, Len(line)))
    IN  IF colon = 0 THEN Fails(p)
        ELSE Continues([p EXCEPT !.request.headers = Set(@, SubSeq(line, 1, colon - 1), value)],
                       "Headers")

HeaderField(p, line) ==
    LET colon == Find(line, ":", 1)
        value == Trim(SubSeq(line, colon + 1, Len(line)))
    IN  IF Cardinality(DOMAIN p.request.headers) >= MaxHeaderCount \/ colon = 0 THEN Fails(p)
        ELSE Continues([p EXCEPT !.request.headers = Set(@, SubSeq(line, 1, colon - 1), value)],
                       "Headers")

\* Mutant: the last token of a body is not waited for.
ParseBody_Impatient(p, remaining) ==
    LET take == Min({Len(remaining), p.body_remaining})
        q == [p EXCEPT !.request.body = @ \o SubSeq(remaining, 1, take),
                       !.body_remaining = @ - take]
    IN  IF q.body_remaining <= 1 THEN Completes(q) ELSE Continues(q, "Body")

ParseBody(p, remaining) ==
    LET take == Min({Len(remaining), p.body_remaining})
        q == [p EXCEPT !.request.body = @ \o SubSeq(remaining, 1, take),
                       !.body_remaining = @ - take]
    IN  IF q.body_remaining = 0 THEN Completes(q) ELSE Continues(q, "Body")

\* After an error, feed() still takes the input apart, and ignores it.
ParseLine(p, line) ==
    CASE p.state = "RequestLine" -> ParseRequestLine(p, line)
      [] p.state = "Headers" -> IF line = <<>> THEN EndOfHeaders(p) ELSE HeaderField(p, line)
      [] OTHER -> Continues(p, p.state)

\* Mutant: the headers of the last request survive.
Reset_KeepsHeaders(p) == [NewParser EXCEPT !.request.headers = p.request.headers]

Reset(p) == NewParser

-----------------------------------------------------------------------------
(* What a message means: the reference, from the message as a whole. *)

LineEnds(m) == SetToSortSeq({i \in DOMAIN m : m[i] = "LF"}, <)

Lines(m) ==
    LET ends == LineEnds(m)
    IN  [k \in DOMAIN ends |->
            WithoutEnd(SubSeq(m, IF k = 1 THEN 1 ELSE ends[k - 1] + 1, ends[k]))]

Fits(m) ==
    LET ends == LineEnds(m)
    IN  \A k \in DOMAIN ends :
            ends[k] - (IF k = 1 THEN 0 ELSE ends[k - 1]) <= MaxHeaderSize

\* The line that ends the headers; one more than there are lines if it is missing.
Blank(m) == Min({k \in 2 .. Len(Lines(m)) : Lines(m)[k] = <<>>} \cup {Len(Lines(m)) + 1})

HeadIsWhole(m) == Blank(m) <= Len(Lines(m))

IsRequestLine(l) ==
    /\ Len(l) >= 4 /\ l[1] \in Methods /\ l[2] = "SP"
    /\ l[Len(l) - 1] = "SP" /\ l[Len(l)] \in {"HTTP/1.1", "HTTP/1.0"}
    /\ \A i \in 3 .. Len(l) - 2 : l[i] # "SP"

Name(l) == SubSeq(l, 1, Find(l, ":", 1) - 1)
Value(l) == Trim(SubSeq(l, Find(l, ":", 1) + 1, Len(l)))

\* The last header of a name counts.
Headers(m) ==
    LET fields == 2 .. Blank(m) - 1
    IN  [n \in {Name(Lines(m)[k]) : k \in fields} |->
            Value(Lines(m)[Max({k \in fields : Name(Lines(m)[k]) = n})])]

IsMalformed(m) ==
    \/ Lines(m) # <<>> /\ ~IsRequestLine(Lines(m)[1])
    \/ \E k \in 2 .. Blank(m) - 1 :
           \/ ":" \notin ToSet(Lines(m)[k])
           \/ Cardinality({Name(Lines(m)[j]) : j \in 2 .. k - 1}) >= MaxHeaderCount
    \/ HeadIsWhole(m) /\ ContentLength(Headers(m)) > MaxBodySize

\* What follows the headers.
Rest(m) == SubSeq(m, LineEnds(m)[Blank(m)] + 1, Len(m))

IsWhole(m) == HeadIsWhole(m) /\ Len(Rest(m)) >= ContentLength(Headers(m))

Request(m) ==
    LET line == Lines(m)[1]
    IN  [method |-> line[1], path |-> SubSeq(line, 3, Len(line) - 2),
         version |-> <<Last(line)>>, headers |-> Headers(m),
         body |-> SubSeq(Rest(m), 1, ContentLength(Headers(m)))]

\* Does the message leave the connection open?
MayStay(m) ==
    LET about == {k \in 2 .. Blank(m) - 1 : Name(Lines(m)[k]) = <<"connection">>}
        said == IF about = {} THEN <<>> ELSE Value(Lines(m)[Max(about)])
    IN  CASE said = <<"close">> -> FALSE
          [] said = <<"keep-alive">> -> TRUE
          [] OTHER -> Last(Lines(m)[1]) = "HTTP/1.1"

-----------------------------------------------------------------------------
(* The client, and the read callback: feed(), and what main.cpp does with    *)
(* its result.                                                               *)

\* The next message, after an answer to the last one.
Send(m) ==
    /\ pc = "idle" /\ fed = Len(message)
    /\ message = <<>> \/ answers # <<>>
    /\ message' = m /\ fed' = 0 /\ answers' = <<>>
    /\ lawful' = /\ lawful /\ Fits(m)
                 /\ answers # <<>> => Len(answers) = 1 /\ answers[1].result = "Complete"
    /\ UNCHANGED <<parser, data, pc, aligned>>

\* One recv: n more tokens
Feed(n) ==
    /\ pc = "idle" /\ n <= Len(message) - fed
    /\ pc' = "feed"
    /\ data' = SubSeq(message, fed + 1, fed + n)
    /\ fed' = fed + n
    /\ aligned' = /\ aligned
                  /\ message[fed'] = "LF" \/ (HeadIsWhole(message)
                                              /\ fed' > LineEnds(message)[Blank(message)])
    /\ UNCHANGED <<parser, message, answers, lawful>>

\* take_result() and reset() follow a Complete; what is left of data is dropped.
Returns(p, result) ==
    /\ pc' = "idle" /\ data' = <<>>
    /\ answers' = IF result = "Incomplete" THEN answers
                  ELSE Append(answers, [result |-> result, request |-> p.request,
                                        keep_alive |-> WantsKeepAlive(p.request),
                                        failed |-> p.error])
    /\ parser' = IF result = "Complete" THEN Reset(p) ELSE p

Feeding ==
    /\ pc = "feed"
    /\ UNCHANGED <<message, fed, lawful, aligned>>

\* The tokens consume_line() appends to line_buf_
Chunk ==
    LET lf == Find(data, "LF", 1)
    IN  IF lf = 0 THEN data ELSE SubSeq(data, 1, lf)

\* The loop goes on, or returns.
Then(step, rest) ==
    IF step.result = "Incomplete" /\ rest # <<>>
    THEN parser' = step.parser /\ data' = rest /\ UNCHANGED <<pc, answers>>
    ELSE Returns(step.parser,
                 IF step.parser.state = "Complete" /\ step.result = "Incomplete"
                 THEN "Complete" ELSE step.result)

\* consume_line() says how much it took, not whether it found the end of a line.
FeedLine ==
    /\ Feeding /\ parser.state # "Body" /\ Len(Chunk) <= MaxHeaderSize
    /\ Then(ParseLine(parser, IF Last(Chunk) = "LF" THEN WithoutEnd(Chunk) ELSE Chunk),
            SubSeq(data, Len(Chunk) + 1, Len(data)))

\* "header line too long": consume_line() takes nothing, and feed() returns by
\* the state that set_error() left.
FeedTooLong ==
    /\ Feeding /\ parser.state # "Body" /\ Len(Chunk) > MaxHeaderSize
    /\ Returns(Fails(parser).parser, "Complete")

FeedBody ==
    /\ Feeding /\ parser.state = "Body"
    /\ LET step == ParseBody(parser, data) IN Returns(step.parser, step.result)

Next ==
    \/ \E m \in Messages : Send(m)
    \/ \E n \in 1 .. Len(message) : Feed(n)
    \/ FeedLine \/ FeedTooLong \/ FeedBody

Spec == Init /\ [][Next]_vars

-----------------------------------------------------------------------------
(* Types.  A body is being waited for exactly in state Body, and is within   *)
(* its limit.                                                                *)
TypeOK ==
    /\ parser.state \in {"RequestLine", "Headers", "Body", "Complete"}
    /\ parser.body_remaining \in Nat /\ parser.error \in BOOLEAN
    /\ parser.state = "Body" => parser.body_remaining \in 1 .. MaxBodySize
    /\ parser.state = "Complete" => parser.error
    /\ pc \in {"idle", "feed"} /\ (pc = "feed" => data # <<>>)
    /\ fed \in 0 .. Len(message)
    /\ lawful \in BOOLEAN /\ aligned \in BOOLEAN

\* A message that arrives in pieces that end with a line, or in the body, is
\* understood as what it says as a whole, however many pieces there are, and
\* whatever the messages before it on the same connection were, as long as they
\* could be answered (feed, reset).
Understood ==
    pc = "idle" /\ message # <<>> /\ fed = Len(message) =>
        CASE IsMalformed(message) -> answers # <<>> /\ answers[1].result = "Error"
          [] ~IsMalformed(message) /\ IsWhole(message) ->
                 /\ Len(answers) = 1
                 /\ answers[1].result = "Complete"
                 /\ answers[1].request = Request(message)
                 /\ answers[1].keep_alive = MayStay(message)
          [] OTHER -> answers = <<>>

AlignedIsUnderstood == lawful /\ aligned => Understood

\* Wherever the input is cut and whatever went wrong before, no request that is
\* handed to a handler exceeds the limits on headers and body.
LimitsKept ==
    \A k \in DOMAIN answers : answers[k].result = "Complete" =>
        /\ Cardinality(DOMAIN answers[k].request.headers) <= MaxHeaderCount
        /\ Len(answers[k].request.body) <= MaxBodySize

\* Wherever the input is cut, a request is complete only with the whole of the
\* body it announces, and no more, unless an error came before.
BodyIsWhole ==
    \A k \in DOMAIN answers : answers[k].result = "Complete" /\ ~answers[k].failed =>
        Len(answers[k].request.body) = ContentLength(answers[k].request.headers)

-----------------------------------------------------------------------------
\* "Incremental design: feed(data) can be called multiple times with partial
\* data" (parser.hpp:16-17), and feed("GET /index") is Incomplete
\* (test_http_parser.cpp:72): where the input is cut makes no difference.
CutIsUnderstood == lawful => Understood

=============================================================================
