-------------------------- MODULE HttpParserProofs --------------------------
(***************************************************************************)
(* No request beyond the limits reaches a handler, and none without the    *)
(* body it announces, for all messages, all ways to cut them, and all      *)
(* values of the limits.                                                   *)
(***************************************************************************)
EXTENDS HttpParser, FiniteSetTheorems, WellFoundedInduction, TLAPS

(* What a request has used of its limits; while its body is being read, what *)
(* is still to come counts too, and before that there is no body.            *)
RequestInLimits(request) ==
    /\ IsFiniteSet(DOMAIN request.headers)
    /\ Cardinality(DOMAIN request.headers) <= MaxHeaderCount
    /\ request.body \in Seq(Tokens) /\ Len(request.body) <= MaxBodySize

Shape(p) ==
    /\ p = [state |-> p.state, request |-> p.request,
            body_remaining |-> p.body_remaining, error |-> p.error]
    /\ p.request = [method |-> p.request.method, path |-> p.request.path,
                    version |-> p.request.version, headers |-> p.request.headers,
                    body |-> p.request.body]

ParserInLimits(p) ==
    /\ Shape(p) /\ RequestInLimits(p.request)
    /\ p.state \in {"RequestLine", "Headers"} => p.request.body = <<>>
    /\ p.state = "Body" =>
           /\ p.body_remaining \in Nat
           /\ Len(p.request.body) + p.body_remaining <= MaxBodySize

LEMMA Limits == {MaxHeaderCount, MaxBodySize, MaxSize} \subseteq Nat
BY ParserAssumption

-----------------------------------------------------------------------------
LEMMA NewParserInLimits == ParserInLimits(NewParser)
<1>1. DOMAIN NewParser.request.headers = {}
  BY DEF NewParser, NoRequest
<1>2. IsFiniteSet({}) /\ Cardinality({}) = 0
  BY FS_EmptySet
<1>3. NewParser.request.body = <<>> /\ NewParser.state = "RequestLine" /\ Shape(NewParser)
  BY DEF NewParser, NoRequest, Shape
<1> QED
  BY <1>1, <1>2, <1>3, Limits DEF ParserInLimits, RequestInLimits

(* The ways to go on, and to end, leave the request alone. *)
LEMMA FailsInLimits ==
    ASSUME NEW p, ParserInLimits(p)
    PROVE  ParserInLimits(Fails(p).parser)
BY DEF Fails, ParserInLimits, Shape, RequestInLimits

(* Changing a field of the request leaves the others as they are. *)
LEMMA FieldOfRequest ==
    ASSUME NEW p, Shape(p), NEW v
    PROVE  /\ LET q == [p EXCEPT !.request.method = v]
              IN  Shape(q) /\ q.state = p.state
                  /\ q.body_remaining = p.body_remaining /\ q.error = p.error
                  /\ q.request.headers = p.request.headers /\ q.request.body = p.request.body
           /\ LET q == [p EXCEPT !.request.path = v]
              IN  Shape(q) /\ q.state = p.state
                  /\ q.body_remaining = p.body_remaining /\ q.error = p.error
                  /\ q.request.headers = p.request.headers /\ q.request.body = p.request.body
           /\ LET q == [p EXCEPT !.request.version = v]
              IN  Shape(q) /\ q.state = p.state
                  /\ q.body_remaining = p.body_remaining /\ q.error = p.error
                  /\ q.request.headers = p.request.headers /\ q.request.body = p.request.body
BY DEF Shape

LEMMA RequestLineCases ==
    ASSUME NEW p, ParserInLimits(p), p.state = "RequestLine", NEW line
    PROVE  \E q : /\ ParserInLimits(q) /\ q.request.body = <<>>
                  /\ q.body_remaining = p.body_remaining /\ q.error = p.error
                  /\ ParseRequestLine(p, line)
                         \in {Fails(p), Fails(q), Continues(q, "Headers")}
<1> DEFINE sp1 == Find(line, "SP", 1)
           sp2 == Find(line, "SP", sp1 + 1)
           method == StringToMethod(SubSeq(line, 1, sp1 - 1))
           path == SubSeq(line, sp1 + 1, sp2 - 1)
           version == SubSeq(line, sp2 + 1, Len(line))
           q == [p EXCEPT !.request.method = method, !.request.path = path,
                          !.request.version = version]
<1>1. \/ ParseRequestLine(p, line) = Fails(p)
      \/ ParseRequestLine(p, line) = Fails(q)
      \/ ParseRequestLine(p, line) = Continues(q, "Headers")
  BY DEF ParseRequestLine
<1> HIDE DEF method, path, version
<1>2. /\ Shape(q) /\ q.state = p.state /\ q.request.headers = p.request.headers
      /\ q.body_remaining = p.body_remaining /\ q.error = p.error
      /\ q.request.body = p.request.body
  <2> DEFINE q1 == [p EXCEPT !.request.method = method]
             q2 == [q1 EXCEPT !.request.path = path]
  <2>1. q = [q2 EXCEPT !.request.version = version]
    OBVIOUS
  <2>2. /\ Shape(q1) /\ q1.state = p.state
        /\ q1.body_remaining = p.body_remaining /\ q1.error = p.error
        /\ q1.request.headers = p.request.headers /\ q1.request.body = p.request.body
    BY FieldOfRequest DEF ParserInLimits
  <2> HIDE DEF q1
  <2>3. LET r == [q1 EXCEPT !.request.path = path]
        IN  Shape(r) /\ r.state = q1.state
            /\ r.body_remaining = q1.body_remaining /\ r.error = q1.error
            /\ r.request.headers = q1.request.headers /\ r.request.body = q1.request.body
    BY <2>2, FieldOfRequest
  <2>4. /\ Shape(q2) /\ q2.state = p.state
        /\ q2.body_remaining = p.body_remaining /\ q2.error = p.error
        /\ q2.request.headers = p.request.headers /\ q2.request.body = p.request.body
    BY <2>2, <2>3
  <2> HIDE DEF q2, q
  <2>5. LET r == [q2 EXCEPT !.request.version = version]
        IN  Shape(r) /\ r.state = q2.state
            /\ r.body_remaining = q2.body_remaining /\ r.error = q2.error
            /\ r.request.headers = q2.request.headers /\ r.request.body = q2.request.body
    BY <2>4, FieldOfRequest
  <2> QED
    BY <2>1, <2>4, <2>5
<1> HIDE DEF q
<1>3. ParserInLimits(q) /\ q.request.body = <<>>
  BY <1>2 DEF ParserInLimits, RequestInLimits
<1> QED
  BY <1>1, <1>2, <1>3

LEMMA RequestLineInLimits ==
    ASSUME NEW p, ParserInLimits(p), p.state = "RequestLine", NEW line
    PROVE  ParserInLimits(ParseRequestLine(p, line).parser)
<1>1. PICK q : /\ ParserInLimits(q) /\ q.request.body = <<>>
               /\ ParseRequestLine(p, line) \in {Fails(p), Fails(q), Continues(q, "Headers")}
  BY RequestLineCases
<1>2. ParserInLimits(Continues(q, "Headers").parser)
  BY <1>1 DEF ParserInLimits, Shape, RequestInLimits, Continues
<1> QED
  BY <1>1, <1>2, FailsInLimits

(* What does not fit into a std::size_t counts as nothing. *)
LEMMA NumberIsNat ==
    ASSUME NEW s
    PROVE  Number(s) \in Nat
<1> DEFINE end == Min({i \in 1 .. Len(s) : s[i] \notin Digits} \cup {Len(s) + 1})
           n == FoldLeft(LAMBDA sum, d : 10 * sum + DigitValue[d], 0, SubSeq(s, 1, end - 1))
<1>1. Number(s) = IF n \in 0 .. MaxSize THEN n ELSE 0
  BY DEF Number
<1> HIDE DEF n
<1> QED
  BY <1>1, Limits

LEMMA EndOfHeadersInLimits ==
    ASSUME NEW p, ParserInLimits(p), p.state = "Headers"
    PROVE  ParserInLimits(EndOfHeaders(p).parser)
<1> DEFINE length == ContentLength(p.request.headers)
           q == [p EXCEPT !.body_remaining = length]
<1>1. length \in Nat
  BY NumberIsNat DEF ContentLength
<1>2. \/ EndOfHeaders(p) = Completes(q)
      \/ EndOfHeaders(p) = Fails(q)
      \/ EndOfHeaders(p) = Continues(q, "Body") /\ ~(length > MaxBodySize)
  BY DEF EndOfHeaders
<1> HIDE DEF length
<1>3. ParserInLimits(q)
  BY DEF ParserInLimits, Shape, RequestInLimits
<1>4. q.request.body = <<>> /\ q.body_remaining = length
  BY DEF ParserInLimits, Shape
<1> HIDE DEF q
<1>5. ParserInLimits(Completes(q).parser)
  BY <1>3 DEF ParserInLimits, Shape, RequestInLimits, Completes
<1>6. ASSUME ~(length > MaxBodySize) PROVE ParserInLimits(Continues(q, "Body").parser)
  BY <1>1, <1>3, <1>4, <1>6, Limits DEF ParserInLimits, Shape, RequestInLimits, Continues
<1> QED
  BY <1>2, <1>3, <1>5, <1>6, FailsInLimits

LEMMA HeaderFieldInLimits ==
    ASSUME NEW p, ParserInLimits(p), p.state = "Headers", NEW line
    PROVE  ParserInLimits(HeaderField(p, line).parser)
<1> DEFINE name == SubSeq(line, 1, Find(line, ":", 1) - 1)
           value == Trim(SubSeq(line, Find(line, ":", 1) + 1, Len(line)))
           headers == Set(p.request.headers, name, value)
           q == [p EXCEPT !.request.headers = headers]
<1>1. \/ HeaderField(p, line) = Fails(p)
      \/ /\ ~(Cardinality(DOMAIN p.request.headers) >= MaxHeaderCount)
         /\ HeaderField(p, line) = Continues(q, "Headers")
  BY DEF HeaderField, Shape, ParserInLimits
<1>2. DOMAIN headers = DOMAIN p.request.headers \cup {name}
  BY DEF Set
<1> HIDE DEF name, value, headers
<1>3. ASSUME ~(Cardinality(DOMAIN p.request.headers) >= MaxHeaderCount)
      PROVE  ParserInLimits(Continues(q, "Headers").parser)
  <2>1. IsFiniteSet(DOMAIN p.request.headers)
    BY DEF ParserInLimits, RequestInLimits
  <2>2. /\ IsFiniteSet(DOMAIN headers)
        /\ Cardinality(DOMAIN headers) <= Cardinality(DOMAIN p.request.headers) + 1
        /\ Cardinality(DOMAIN p.request.headers) \in Nat
    <3> DEFINE S == DOMAIN p.request.headers
    <3>1. IsFiniteSet(S) /\ Cardinality(S) \in Nat
      BY <2>1, FS_CardinalityType
    <3> HIDE DEF S
    <3>2. /\ IsFiniteSet(S \cup {name})
          /\ Cardinality(S \cup {name}) = IF name \in S THEN Cardinality(S)
                                                        ELSE Cardinality(S) + 1
      BY <3>1, FS_AddElement
    <3> QED
      BY <1>2, <3>1, <3>2 DEF S
  <2>3. Cardinality(DOMAIN headers) \in Nat
    BY <2>2, FS_CardinalityType
  <2>4. Cardinality(DOMAIN headers) <= MaxHeaderCount
    BY <1>3, <2>2, <2>3, Limits
  <2>5. Shape(q) /\ q.request.headers = headers /\ q.request.body = p.request.body
        /\ p.request.body = <<>>
    BY DEF ParserInLimits, Shape
  <2>6. RequestInLimits(q.request)
    BY <2>2, <2>4, <2>5 DEF ParserInLimits, RequestInLimits
  <2> HIDE DEF q
  <2> QED
    BY <2>5, <2>6 DEF ParserInLimits, Shape, Continues
<1> QED
  BY <1>1, <1>3, FailsInLimits

LEMMA ParseLineInLimits ==
    ASSUME NEW p, ParserInLimits(p), p.state # "Body", NEW line
    PROVE  ParserInLimits(ParseLine(p, line).parser)
<1>1. CASE p.state = "RequestLine"
  BY <1>1, RequestLineInLimits DEF ParseLine
<1>2. CASE p.state = "Headers"
  BY <1>2, EndOfHeadersInLimits, HeaderFieldInLimits DEF ParseLine
<1>3. CASE p.state \notin {"RequestLine", "Headers"}
  <2>1. ParseLine(p, line) = Continues(p, p.state)
    BY <1>3 DEF ParseLine
  <2>2. Continues(p, p.state).parser = p
    BY DEF Continues, ParserInLimits, Shape
  <2> QED
    BY <2>1, <2>2
<1> QED
  BY <1>1, <1>2, <1>3

LEMMA MinOfTwo ==
    ASSUME NEW a \in Nat, NEW b \in Nat
    PROVE  Min({a, b}) \in Nat /\ Min({a, b}) <= a /\ Min({a, b}) <= b
<1>1. \E x \in {a, b} : \A y \in {a, b} : x <= y
  OBVIOUS
<1> QED
  BY <1>1 DEF Min

(* A piece of body takes no more than is still to come. *)
LEMMA BodyIsTaken ==
    ASSUME NEW p, ParserInLimits(p), p.state = "Body", NEW piece \in Seq(Tokens)
    PROVE  \E q : /\ ParserInLimits(q) /\ q.state = "Body" /\ q.error = p.error
                  /\ q.request.headers = p.request.headers
                  /\ Len(q.request.body) + q.body_remaining
                         = Len(p.request.body) + p.body_remaining
                  /\ ParseBody(p, piece) = IF q.body_remaining = 0 THEN Completes(q)
                                                                   ELSE Continues(q, "Body")
<1> DEFINE take == Min({Len(piece), p.body_remaining})
           body == p.request.body \o SubSeq(piece, 1, take)
           left == p.body_remaining - take
           q == [p EXCEPT !.request.body = body, !.body_remaining = left]
<1>1. ParseBody(p, piece) = IF q.body_remaining = 0 THEN Completes(q) ELSE Continues(q, "Body")
  BY DEF ParseBody, ParserInLimits, Shape
<1>2. take \in Nat /\ take <= Len(piece) /\ take <= p.body_remaining /\ p.body_remaining \in Nat
  BY MinOfTwo DEF ParserInLimits
<1> HIDE DEF take
<1>3. SubSeq(piece, 1, take) \in Seq(Tokens) /\ Len(SubSeq(piece, 1, take)) = take
  BY <1>2
<1>4. /\ p.request.body \in Seq(Tokens)
      /\ Len(p.request.body) + p.body_remaining <= MaxBodySize
  BY DEF ParserInLimits, RequestInLimits
<1>5. body \in Seq(Tokens) /\ Len(body) = Len(p.request.body) + take
  BY <1>3, <1>4
<1>6. /\ left \in Nat /\ Len(body) + left <= MaxBodySize /\ Len(body) <= MaxBodySize
      /\ Len(body) + left = Len(p.request.body) + p.body_remaining
  <2> DEFINE before == Len(p.request.body)
             after == Len(body)
             total == p.body_remaining
  <2>1. before \in Nat /\ MaxBodySize \in Nat
    BY <1>4, Limits
  <2>2. after = before + take /\ before + total <= MaxBodySize /\ total \in Nat
    BY <1>2, <1>4, <1>5
  <2> HIDE DEF before, after, total
  <2>3. /\ total - take \in Nat /\ after + (total - take) = before + total
        /\ after <= MaxBodySize
    BY <1>2, <2>1, <2>2 DEF total
  <2> QED
    BY <2>2, <2>3 DEF before, after, total
<1> HIDE DEF body, left
<1>7. /\ Shape(q) /\ q.state = "Body" /\ q.error = p.error
      /\ q.request.headers = p.request.headers
      /\ q.request.body = body /\ q.body_remaining = left
  <2> DEFINE q1 == [p EXCEPT !.request.body = body]
  <2>1. q = [q1 EXCEPT !.body_remaining = left]
    OBVIOUS
  <2>2. Shape(p)
    BY DEF ParserInLimits
  <2>3. /\ Shape(q1) /\ q1.state = "Body" /\ q1.error = p.error
        /\ q1.request.headers = p.request.headers /\ q1.request.body = body
    BY <2>2 DEF Shape
  <2> HIDE DEF q1, q
  <2> QED
    BY <2>1, <2>3 DEF Shape
<1>8. RequestInLimits(q.request)
  BY <1>5, <1>6, <1>7 DEF ParserInLimits, RequestInLimits
<1> HIDE DEF q
<1>9. ParserInLimits(q)
  BY <1>5, <1>6, <1>7, <1>8 DEF ParserInLimits
<1> QED
  BY <1>1, <1>6, <1>7, <1>9

LEMMA ParseBodyInLimits ==
    ASSUME NEW p, ParserInLimits(p), p.state = "Body", NEW piece \in Seq(Tokens)
    PROVE  ParserInLimits(ParseBody(p, piece).parser)
<1>1. PICK q : /\ ParserInLimits(q) /\ q.state = "Body"
               /\ ParseBody(p, piece) \in {Completes(q), Continues(q, "Body")}
  BY BodyIsTaken
<1>2. ParserInLimits(Completes(q).parser)
  BY <1>1 DEF ParserInLimits, Shape, RequestInLimits, Completes
<1>3. ParserInLimits(Continues(q, "Body").parser)
  BY <1>1 DEF ParserInLimits, Shape, RequestInLimits, Continues
<1> QED
  BY <1>1, <1>2, <1>3

-----------------------------------------------------------------------------
(* A search returns a position, so the tokens of a line can be counted. *)
LEMMA LeastExists ==
    ASSUME NEW T, T \subseteq Nat, T # {}
    PROVE  Min(T) \in T
<1> DEFINE less == OpToRel(<, Nat)
<1>1. IsWellFoundedOn(less, Nat)
  BY NatLessThanWellFounded
<1>2. \A x, y \in Nat : y < x => <<y, x>> \in less
  BY DEF OpToRel
<1> HIDE DEF less
<1>3. PICK x \in T : \A y \in T : ~(<<y, x>> \in less)
  BY <1>1, WFMin
<1>4. ASSUME NEW y \in T PROVE x <= y
  <2>1. x \in Nat /\ y \in Nat
    OBVIOUS
  <2>2. ~(y < x)
    BY <1>2, <1>3, <2>1
  <2> QED
    BY <2>1, <2>2
<1> QED
  BY <1>3, <1>4 DEF Min

LEMMA ChunkIsFinite ==
    ASSUME data \in Seq(Tokens)
    PROVE  Len(Chunk) \in Nat
<1> DEFINE found == {i \in 1 .. Len(data) : data[i] = "LF"}
<1>1. found \subseteq Nat
  OBVIOUS
<1>2. found = {} \/ Min(found) \in found
  <2> HIDE DEF found
  <2> QED
    BY <1>1, LeastExists
<1>3. Find(data, "LF", 1) \in 0 .. Len(data)
  BY <1>2 DEF Find
<1> QED
  BY <1>3 DEF Chunk

(* Across the calls of feed(): the parser, and what it has handed out. *)
AnswersInLimits ==
    /\ answers = [k \in 1 .. Len(answers) |-> answers[k]] /\ Len(answers) \in Nat
    /\ \A k \in 1 .. Len(answers) : RequestInLimits(answers[k].request)

LimitsInv ==
    /\ ParserInLimits(parser)
    /\ AnswersInLimits
    /\ message \in Seq(Tokens) /\ data \in Seq(Tokens)
    /\ fed \in 0 .. Len(message)

LEMMA ReturnsInLimits ==
    ASSUME AnswersInLimits, NEW p, ParserInLimits(p), NEW result, Returns(p, result)
    PROVE  ParserInLimits(parser') /\ AnswersInLimits' /\ data' = <<>>
<1>1. ParserInLimits(parser')
  BY NewParserInLimits DEF Returns, Reset
<1>2. CASE answers' = answers
  BY <1>1, <1>2 DEF AnswersInLimits, Returns
<1>3. CASE answers' # answers
  <2> DEFINE answer == [result |-> result, request |-> p.request,
                        keep_alive |-> WantsKeepAlive(p.request), failed |-> p.error]
  <2>1. answers' = Append(answers, answer)
    BY <1>3 DEF Returns
  <2>2. answer.request = p.request
    OBVIOUS
  <2> HIDE DEF answer
  <2> DEFINE given == {answers[k] : k \in 1 .. Len(answers)} \cup {answer}
  <2>3. answers \in Seq(given)
    BY DEF AnswersInLimits
  <2>4. /\ answers' \in Seq(given) /\ Len(answers') = Len(answers) + 1
        /\ answers'[Len(answers) + 1] = answer
        /\ \A k \in 1 .. Len(answers) : answers'[k] = answers[k]
    BY <2>1, <2>3
  <2>5. RequestInLimits(answer.request)
    BY <2>2 DEF ParserInLimits
  <2>6. \A k \in 1 .. Len(answers') : RequestInLimits(answers'[k].request)
    BY <2>4, <2>5 DEF AnswersInLimits
  <2> QED
    BY <1>1, <2>4, <2>6 DEF AnswersInLimits, Returns
<1> QED
  BY <1>2, <1>3

LEMMA ThenInLimits ==
    ASSUME AnswersInLimits, NEW step, ParserInLimits(step.parser),
           NEW rest \in Seq(Tokens), Then(step, rest)
    PROVE  ParserInLimits(parser') /\ AnswersInLimits' /\ data' \in Seq(Tokens)
<1> DEFINE result == IF step.parser.state = "Complete" /\ step.result = "Incomplete"
                     THEN "Complete" ELSE step.result
<1>1. CASE parser' = step.parser /\ data' = rest /\ UNCHANGED <<pc, answers>>
  BY <1>1 DEF AnswersInLimits
<1>2. CASE Returns(step.parser, result)
  <2> HIDE DEF result
  <2>1. ParserInLimits(parser') /\ AnswersInLimits' /\ data' = <<>>
    BY <1>2, ReturnsInLimits
  <2> QED
    BY <2>1
<1> QED
  BY <1>1, <1>2 DEF Then

LEMMA LimitsStep == LimitsInv /\ [Next]_vars => LimitsInv'
<1> SUFFICES ASSUME LimitsInv, [Next]_vars PROVE LimitsInv'
  OBVIOUS
<1>1. ASSUME NEW m \in Messages, Send(m) PROVE LimitsInv'
  <2>1. m \in Seq(Tokens) /\ fed' = 0 /\ message' = m /\ answers' = <<>>
    BY <1>1, ParserAssumption DEF Send
  <2>2. AnswersInLimits'
    BY <2>1 DEF AnswersInLimits
  <2> QED
    BY <1>1, <2>1, <2>2 DEF Send, LimitsInv
<1>2. ASSUME NEW n \in 1 .. Len(message), Feed(n) PROVE LimitsInv'
  <2>1. message \in Seq(Tokens) /\ fed \in 0 .. Len(message) /\ n <= Len(message) - fed
    BY <1>2 DEF Feed, LimitsInv
  <2>2. data' \in Seq(Tokens) /\ fed' \in 0 .. Len(message)
    BY <1>2, <2>1 DEF Feed
  <2> QED
    BY <1>2, <2>2 DEF Feed, LimitsInv, AnswersInLimits
<1>3. CASE FeedLine
  <2>1. ParserInLimits(parser) /\ parser.state # "Body" /\ AnswersInLimits
        /\ data \in Seq(Tokens)
    BY <1>3 DEF FeedLine, LimitsInv
  <2> DEFINE line == IF Last(Chunk) = "LF" THEN WithoutEnd(Chunk) ELSE Chunk
             rest == SubSeq(data, Len(Chunk) + 1, Len(data))
  <2>2. Then(ParseLine(parser, line), rest)
    BY <1>3 DEF FeedLine
  <2>3. ParserInLimits(ParseLine(parser, line).parser)
    BY <2>1, ParseLineInLimits
  <2>4. rest \in Seq(Tokens)
    <3>1. Len(Chunk) \in Nat
      BY <2>1, ChunkIsFinite
    <3> QED
      BY <2>1, <3>1
  <2> HIDE DEF line, rest
  <2>5. ParserInLimits(parser') /\ AnswersInLimits' /\ data' \in Seq(Tokens)
    BY <2>1, <2>2, <2>3, <2>4, ThenInLimits
  <2> QED
    BY <1>3, <2>5 DEF FeedLine, Feeding, LimitsInv
<1>4. CASE FeedTooLong
  <2>1. ParserInLimits(Fails(parser).parser)
    BY FailsInLimits DEF LimitsInv
  <2>2. ParserInLimits(parser') /\ AnswersInLimits' /\ data' = <<>>
    BY <1>4, <2>1, ReturnsInLimits DEF FeedTooLong, LimitsInv
  <2> QED
    BY <1>4, <2>2 DEF FeedTooLong, Feeding, LimitsInv
<1>5. CASE FeedBody
  <2>1. ParserInLimits(ParseBody(parser, data).parser)
    BY <1>5, ParseBodyInLimits DEF FeedBody, LimitsInv
  <2>2. ParserInLimits(parser') /\ AnswersInLimits' /\ data' = <<>>
    BY <1>5, <2>1, ReturnsInLimits DEF FeedBody, LimitsInv
  <2> QED
    BY <1>5, <2>2 DEF FeedBody, Feeding, LimitsInv
<1>6. CASE UNCHANGED vars
  BY <1>6 DEF vars, LimitsInv, AnswersInLimits
<1> QED
  BY <1>1, <1>2, <1>3, <1>4, <1>5, <1>6 DEF Next

LEMMA InitInLimits == Init => LimitsInv
<1> SUFFICES ASSUME Init PROVE LimitsInv
  OBVIOUS
<1>1. parser = NewParser /\ data = <<>> /\ message = <<>> /\ fed = 0 /\ answers = <<>>
  BY DEF Init
<1>2. AnswersInLimits
  BY <1>1 DEF AnswersInLimits
<1> QED
  BY <1>1, <1>2, NewParserInLimits DEF LimitsInv

(* However the input is cut and whatever went wrong before, no request that   *)
(* feed() reports as complete has more headers or a longer body than allowed  *)
(* (parser.cpp:78-106, 148-199).                                              *)
THEOREM LimitsAreKept == Spec => []LimitsKept
<1>1. LimitsInv => LimitsKept
  BY DEF LimitsInv, AnswersInLimits, RequestInLimits, LimitsKept
<1> QED
  BY <1>1, InitInLimits, LimitsStep, PTL DEF Spec

-----------------------------------------------------------------------------
(* While the body is being read, what is there and what is still to come are *)
(* together what the headers announce; when the request is complete it is    *)
(* all there.  After an error neither is true.                               *)
Announced(p) == ContentLength(p.request.headers)

BodyAccounted(p) ==
    ~p.error => /\ p.state = "Body" => Len(p.request.body) + p.body_remaining = Announced(p)
                /\ p.state = "Complete" => Len(p.request.body) = Announced(p)

(* feed() reports what the state says. *)
StepAccounted(step) ==
    /\ BodyAccounted(step.parser)
    /\ step.result = "Complete" => step.parser.state = "Complete"

LEMMA FailsAccounted ==
    ASSUME NEW p, ParserInLimits(p)
    PROVE  StepAccounted(Fails(p))
<1>1. Fails(p).parser.error /\ Fails(p).result = "Error"
  BY DEF Fails, ParserInLimits, Shape
<1> QED
  BY <1>1 DEF StepAccounted, BodyAccounted

LEMMA HeadAccounted ==
    ASSUME NEW p, ParserInLimits(p)
    PROVE  StepAccounted(Continues(p, "Headers"))
<1>1. Continues(p, "Headers").parser.state = "Headers" /\ Continues(p, "Headers").result = "Incomplete"
  BY DEF Continues, ParserInLimits, Shape
<1> QED
  BY <1>1 DEF StepAccounted, BodyAccounted

LEMMA EndOfHeadersAccounted ==
    ASSUME NEW p, ParserInLimits(p), p.state = "Headers"
    PROVE  StepAccounted(EndOfHeaders(p))
<1> DEFINE length == Announced(p)
           q == [p EXCEPT !.body_remaining = length]
<1>1. length \in Nat
  BY NumberIsNat DEF ContentLength, Announced
<1>2. \/ length = 0 /\ EndOfHeaders(p) = Completes(q)
      \/ EndOfHeaders(p) = Fails(q)
      \/ EndOfHeaders(p) = Continues(q, "Body")
  BY DEF EndOfHeaders, Announced
<1> HIDE DEF length
<1>3. /\ ParserInLimits(q) /\ q.request = p.request /\ p.request.body = <<>>
      /\ q.body_remaining = length
  BY DEF ParserInLimits, Shape, RequestInLimits
<1> HIDE DEF q
<1>4. Announced(q) = length /\ Len(q.request.body) = 0
  BY <1>3 DEF Announced, length
<1>5. ASSUME length = 0 PROVE StepAccounted(Completes(q))
  <2>1. /\ Completes(q).parser.state = "Complete" /\ Completes(q).parser.request = q.request
    BY <1>3 DEF Completes, ParserInLimits, Shape
  <2> QED
    BY <1>4, <1>5, <2>1 DEF StepAccounted, BodyAccounted, Announced
<1>6. StepAccounted(Continues(q, "Body"))
  <2>1. /\ Continues(q, "Body").parser.state = "Body" /\ Continues(q, "Body").result = "Incomplete"
        /\ Continues(q, "Body").parser.request = q.request
        /\ Continues(q, "Body").parser.body_remaining = length
    BY <1>3 DEF Continues, ParserInLimits, Shape
  <2> QED
    BY <1>1, <1>4, <2>1 DEF StepAccounted, BodyAccounted, Announced
<1> QED
  BY <1>2, <1>3, <1>5, <1>6, FailsAccounted

LEMMA ParseLineAccounted ==
    ASSUME NEW p, ParserInLimits(p), BodyAccounted(p), p.state # "Body", NEW line
    PROVE  StepAccounted(ParseLine(p, line))
<1>1. CASE p.state = "RequestLine"
  <2>1. PICK q : /\ ParserInLimits(q)
                 /\ ParseRequestLine(p, line) \in {Fails(p), Fails(q), Continues(q, "Headers")}
    BY <1>1, RequestLineCases
  <2> QED
    BY <1>1, <2>1, FailsAccounted, HeadAccounted DEF ParseLine
<1>2. CASE p.state = "Headers"
  <2>1. StepAccounted(HeaderField(p, line))
    <3> DEFINE value == Trim(SubSeq(line, Find(line, ":", 1) + 1, Len(line)))
               headers == Set(p.request.headers, SubSeq(line, 1, Find(line, ":", 1) - 1), value)
               q == [p EXCEPT !.request.headers = headers]
    <3>1. HeaderField(p, line) \in {Fails(p), Continues(q, "Headers")}
      BY DEF HeaderField, Shape, ParserInLimits
    <3> HIDE DEF value, headers
    <3>2. Shape(q)
      BY DEF ParserInLimits, Shape
    <3> HIDE DEF q
    <3>3. /\ Continues(q, "Headers").parser.state = "Headers"
          /\ Continues(q, "Headers").result = "Incomplete"
      BY <3>2 DEF Continues, Shape
    <3> QED
      BY <3>1, <3>3, FailsAccounted DEF StepAccounted, BodyAccounted
  <2> QED
    BY <1>2, <2>1, EndOfHeadersAccounted DEF ParseLine
<1>3. CASE p.state \notin {"RequestLine", "Headers"}
  <2>1. ParseLine(p, line) = Continues(p, p.state)
    BY <1>3 DEF ParseLine
  <2>2. Continues(p, p.state).parser = p /\ Continues(p, p.state).result = "Incomplete"
    BY DEF Continues, ParserInLimits, Shape
  <2> QED
    BY <2>1, <2>2 DEF StepAccounted
<1> QED
  BY <1>1, <1>2, <1>3

LEMMA ParseBodyAccounted ==
    ASSUME NEW p, ParserInLimits(p), BodyAccounted(p), p.state = "Body", NEW piece \in Seq(Tokens)
    PROVE  StepAccounted(ParseBody(p, piece))
<1>1. PICK q : /\ ParserInLimits(q) /\ q.state = "Body" /\ q.error = p.error
               /\ q.request.headers = p.request.headers
               /\ Len(q.request.body) + q.body_remaining
                      = Len(p.request.body) + p.body_remaining
               /\ ParseBody(p, piece) = IF q.body_remaining = 0 THEN Completes(q)
                                                                ELSE Continues(q, "Body")
  BY BodyIsTaken
<1>2. ~q.error => Len(q.request.body) + q.body_remaining = Announced(q)
  BY <1>1 DEF BodyAccounted, Announced
<1>3. Len(q.request.body) \in Nat
  BY <1>1 DEF ParserInLimits, RequestInLimits
<1>4. ASSUME q.body_remaining = 0 PROVE StepAccounted(Completes(q))
  <2>1. /\ Completes(q).parser.state = "Complete" /\ Completes(q).parser.request = q.request
        /\ Completes(q).parser.error = q.error
    BY <1>1 DEF Completes, ParserInLimits, Shape
  <2>2. ~q.error => Len(q.request.body) = Announced(q)
    BY <1>2, <1>3, <1>4
  <2> QED
    BY <2>1, <2>2 DEF StepAccounted, BodyAccounted, Announced
<1>5. StepAccounted(Continues(q, "Body"))
  <2>1. /\ Continues(q, "Body").parser.state = "Body" /\ Continues(q, "Body").result = "Incomplete"
        /\ Continues(q, "Body").parser.request = q.request
        /\ Continues(q, "Body").parser.body_remaining = q.body_remaining
        /\ Continues(q, "Body").parser.error = q.error
    BY <1>1 DEF Continues, ParserInLimits, Shape
  <2> QED
    BY <1>2, <2>1 DEF StepAccounted, BodyAccounted, Announced
<1> QED
  BY <1>1, <1>4, <1>5

-----------------------------------------------------------------------------
WholeBodies ==
    \A k \in 1 .. Len(answers) : answers[k].result = "Complete" /\ ~answers[k].failed =>
        Len(answers[k].request.body) = ContentLength(answers[k].request.headers)

LEMMA ReturnsAccounted ==
    ASSUME AnswersInLimits, WholeBodies, NEW p, BodyAccounted(p), NEW result,
           result = "Complete" => p.state = "Complete" \/ p.error, Returns(p, result)
    PROVE  BodyAccounted(parser') /\ WholeBodies'
<1>1. BodyAccounted(NewParser)
  BY DEF BodyAccounted, NewParser
<1>2. BodyAccounted(parser')
  BY <1>1 DEF Returns, Reset
<1>3. CASE answers' = answers
  BY <1>2, <1>3 DEF WholeBodies
<1>4. CASE answers' # answers
  <2> DEFINE answer == [result |-> result, request |-> p.request,
                        keep_alive |-> WantsKeepAlive(p.request), failed |-> p.error]
  <2>1. answers' = Append(answers, answer)
    BY <1>4 DEF Returns
  <2>2. answer.request = p.request /\ answer.result = result /\ answer.failed = p.error
    OBVIOUS
  <2> HIDE DEF answer
  <2> DEFINE given == {answers[k] : k \in 1 .. Len(answers)} \cup {answer}
  <2>3. answers \in Seq(given)
    BY DEF AnswersInLimits
  <2>4. /\ Len(answers') = Len(answers) + 1 /\ answers'[Len(answers) + 1] = answer
        /\ \A k \in 1 .. Len(answers) : answers'[k] = answers[k]
        /\ Len(answers) \in Nat
    BY <2>1, <2>3
  <2>5. answer.result = "Complete" /\ ~answer.failed =>
            Len(answer.request.body) = ContentLength(answer.request.headers)
    BY <2>2 DEF BodyAccounted, Announced
  <2> QED
    BY <1>2, <2>4, <2>5 DEF WholeBodies
<1> QED
  BY <1>3, <1>4

BodyInv == BodyAccounted(parser) /\ WholeBodies

LEMMA BodyStep == LimitsInv /\ BodyInv /\ [Next]_vars => BodyInv'
<1> SUFFICES ASSUME LimitsInv, BodyInv, [Next]_vars PROVE BodyInv'
  OBVIOUS
<1>1. ASSUME NEW m \in Messages, Send(m) PROVE BodyInv'
  <2>1. Len(answers') = 0 /\ UNCHANGED parser
    BY <1>1 DEF Send
  <2> QED
    BY <2>1 DEF BodyInv, WholeBodies, BodyAccounted, Announced
<1>2. ASSUME NEW n \in 1 .. Len(message), Feed(n) PROVE BodyInv'
  BY <1>2 DEF Feed, BodyInv, WholeBodies
<1>3. CASE FeedLine
  <2> DEFINE line == IF Last(Chunk) = "LF" THEN WithoutEnd(Chunk) ELSE Chunk
             rest == SubSeq(data, Len(Chunk) + 1, Len(data))
             step == ParseLine(parser, line)
             result == IF step.parser.state = "Complete" /\ step.result = "Incomplete"
                       THEN "Complete" ELSE step.result
  <2>1. Then(step, rest)
    BY <1>3 DEF FeedLine
  <2>2. StepAccounted(step)
    BY <1>3, ParseLineAccounted DEF FeedLine, LimitsInv, BodyInv
  <2> HIDE DEF line, rest, step
  <2>3. CASE parser' = step.parser /\ UNCHANGED answers
    BY <2>2, <2>3 DEF StepAccounted, BodyInv, WholeBodies
  <2>4. CASE Returns(step.parser, result)
    <3>1. result = "Complete" => step.parser.state = "Complete"
      BY <2>2 DEF StepAccounted
    <3> HIDE DEF result
    <3> QED
      BY <2>2, <2>4, <3>1, ReturnsAccounted DEF StepAccounted, LimitsInv, BodyInv
  <2> QED
    BY <2>1, <2>3, <2>4 DEF Then
<1>4. CASE FeedTooLong
  <2>1. BodyAccounted(Fails(parser).parser) /\ Fails(parser).parser.error
    BY FailsAccounted DEF LimitsInv, StepAccounted, Fails, ParserInLimits, Shape
  <2> QED
    BY <1>4, <2>1, ReturnsAccounted DEF FeedTooLong, LimitsInv, BodyInv
<1>5. CASE FeedBody
  <2>1. StepAccounted(ParseBody(parser, data))
    BY <1>5, ParseBodyAccounted DEF FeedBody, LimitsInv, BodyInv
  <2> QED
    BY <1>5, <2>1, ReturnsAccounted DEF FeedBody, StepAccounted, LimitsInv, BodyInv
<1>6. CASE UNCHANGED vars
  BY <1>6 DEF vars, BodyInv, WholeBodies
<1> QED
  BY <1>1, <1>2, <1>3, <1>4, <1>5, <1>6 DEF Next

(* However the input is cut, a request that feed() reports as complete has    *)
(* the whole of the body its headers announce and no more, unless an error    *)
(* came before (parser.cpp:78-106, 148-165, 185-199).                         *)
THEOREM BodiesAreWhole == Spec => []BodyIsWhole
<1>1. Init => LimitsInv /\ BodyInv
  <2> SUFFICES ASSUME Init PROVE LimitsInv /\ BodyInv
    OBVIOUS
  <2>1. parser = NewParser /\ Len(answers) = 0
    BY DEF Init
  <2>2. BodyInv
    BY <2>1 DEF BodyInv, WholeBodies, BodyAccounted, NewParser
  <2> QED
    BY <2>2, InitInLimits
<1>2. LimitsInv /\ BodyInv => BodyIsWhole
  BY DEF LimitsInv, AnswersInLimits, BodyInv, WholeBodies, BodyIsWhole
<1> QED
  BY <1>1, <1>2, LimitsStep, BodyStep, PTL DEF Spec

-----------------------------------------------------------------------------
(* Types.  A step of the parser that does not complete a request leaves a    *)
(* parser that is not "Complete", unless there was an error.                 *)
ParserTyped(p) ==
    /\ p.state \in {"RequestLine", "Headers", "Body", "Complete"}
    /\ p.body_remaining \in Nat /\ p.error \in BOOLEAN
    /\ p.state = "Body" => p.body_remaining \in 1 .. MaxBodySize

ParserRests(p) == ParserTyped(p) /\ (p.state = "Complete" => p.error)

StepTyped(step) ==
    /\ ParserTyped(step.parser)
    /\ step.result \in {"Incomplete", "Complete", "Error"}
    /\ step.parser.state = "Complete" =>
           step.parser.error \/ step.result = "Complete"

LEMMA FailsTyped ==
    ASSUME NEW p, Shape(p), p.body_remaining \in Nat
    PROVE  StepTyped(Fails(p))
<1>1. /\ Fails(p).parser.error = TRUE /\ Fails(p).parser.state = "Complete"
      /\ Fails(p).parser.body_remaining = p.body_remaining /\ Fails(p).result = "Error"
  BY DEF Fails, Shape
<1> QED
  BY <1>1 DEF StepTyped, ParserTyped

LEMMA ContinuesTyped ==
    ASSUME NEW p, Shape(p), p.body_remaining \in Nat, p.error \in BOOLEAN,
           NEW state \in {"RequestLine", "Headers", "Body", "Complete"},
           state = "Body" => p.body_remaining \in 1 .. MaxBodySize,
           state = "Complete" => p.error
    PROVE  StepTyped(Continues(p, state))
<1>1. /\ Continues(p, state).parser.error = p.error
      /\ Continues(p, state).parser.state = state
      /\ Continues(p, state).parser.body_remaining = p.body_remaining
      /\ Continues(p, state).result = "Incomplete"
  BY DEF Continues, Shape
<1> QED
  BY <1>1 DEF StepTyped, ParserTyped

LEMMA CompletesTyped ==
    ASSUME NEW p, Shape(p), p.body_remaining \in Nat, p.error \in BOOLEAN
    PROVE  StepTyped(Completes(p))
<1>1. /\ Completes(p).parser.error = p.error /\ Completes(p).parser.state = "Complete"
      /\ Completes(p).parser.body_remaining = p.body_remaining
      /\ Completes(p).result = "Complete"
  BY DEF Completes, Shape
<1> QED
  BY <1>1 DEF StepTyped, ParserTyped

LEMMA ParseLineTyped ==
    ASSUME NEW p, ParserInLimits(p), ParserRests(p), p.state # "Body", NEW line
    PROVE  StepTyped(ParseLine(p, line))
<1>0. Shape(p) /\ p.body_remaining \in Nat /\ p.error \in BOOLEAN
  BY DEF ParserInLimits, ParserRests, ParserTyped
<1>1. CASE p.state = "RequestLine"
  <2>1. PICK q : /\ ParserInLimits(q)
                 /\ q.body_remaining = p.body_remaining /\ q.error = p.error
                 /\ ParseRequestLine(p, line) \in {Fails(p), Fails(q), Continues(q, "Headers")}
    BY <1>1, RequestLineCases
  <2>2. Shape(q) /\ q.body_remaining \in Nat /\ q.error \in BOOLEAN
    BY <1>0, <2>1 DEF ParserInLimits
  <2>3. StepTyped(Fails(p)) /\ StepTyped(Fails(q)) /\ StepTyped(Continues(q, "Headers"))
    BY <1>0, <2>2, FailsTyped, ContinuesTyped
  <2>4. ParseLine(p, line) = ParseRequestLine(p, line)
    BY <1>1 DEF ParseLine
  <2> QED
    BY <2>1, <2>3, <2>4
<1>2. CASE p.state = "Headers"
  <2>1. StepTyped(HeaderField(p, line))
    <3> DEFINE value == Trim(SubSeq(line, Find(line, ":", 1) + 1, Len(line)))
               headers == Set(p.request.headers, SubSeq(line, 1, Find(line, ":", 1) - 1), value)
               q == [p EXCEPT !.request.headers = headers]
    <3>1. HeaderField(p, line) \in {Fails(p), Continues(q, "Headers")}
      BY DEF HeaderField, Shape, ParserInLimits
    <3> HIDE DEF value, headers
    <3>2. Shape(q) /\ q.body_remaining = p.body_remaining /\ q.error = p.error
      BY <1>0 DEF Shape
    <3> HIDE DEF q
    <3>3. StepTyped(Continues(q, "Headers")) /\ StepTyped(Fails(p))
      BY <1>0, <3>2, FailsTyped, ContinuesTyped
    <3> QED
      BY <3>1, <3>3
  <2>2. StepTyped(EndOfHeaders(p))
    <3> DEFINE length == ContentLength(p.request.headers)
               q == [p EXCEPT !.body_remaining = length]
    <3>1. length \in Nat
      BY NumberIsNat DEF ContentLength
    <3>2. \/ EndOfHeaders(p) \in {Completes(q), Fails(q)}
          \/ /\ EndOfHeaders(p) = Continues(q, "Body")
             /\ length # 0 /\ ~(length > MaxBodySize)
      BY DEF EndOfHeaders
    <3> HIDE DEF length
    <3>3. Shape(q) /\ q.body_remaining = length /\ q.error = p.error
      BY <1>0 DEF Shape
    <3> HIDE DEF q
    <3>4. StepTyped(Completes(q)) /\ StepTyped(Fails(q))
      BY <1>0, <3>1, <3>3, CompletesTyped, FailsTyped
    <3>5. ASSUME length # 0 /\ ~(length > MaxBodySize) PROVE StepTyped(Continues(q, "Body"))
      <4>1. q.body_remaining \in 1 .. MaxBodySize
        BY <3>1, <3>3, <3>5, Limits
      <4> QED
        BY <1>0, <3>1, <3>3, <4>1, ContinuesTyped
    <3> QED
      BY <3>2, <3>4, <3>5
  <2> QED
    BY <1>2, <2>1, <2>2 DEF ParseLine
<1>3. CASE p.state = "Complete"
  <2>1. ParseLine(p, line) = Continues(p, "Complete") /\ p.error
    BY <1>3 DEF ParseLine, ParserRests
  <2> QED
    BY <1>0, <2>1, ContinuesTyped
<1> QED
  BY <1>1, <1>2, <1>3 DEF ParserRests, ParserTyped

LEMMA ParseBodyTyped ==
    ASSUME NEW p, ParserInLimits(p), ParserRests(p), p.state = "Body",
           NEW piece \in Seq(Tokens)
    PROVE  StepTyped(ParseBody(p, piece))
<1>1. PICK q : /\ ParserInLimits(q) /\ q.state = "Body" /\ q.error = p.error
               /\ ParseBody(p, piece) = IF q.body_remaining = 0 THEN Completes(q)
                                                                ELSE Continues(q, "Body")
  BY BodyIsTaken
<1>2. /\ Shape(q) /\ q.body_remaining \in Nat /\ q.error \in BOOLEAN
      /\ Len(q.request.body) \in Nat /\ Len(q.request.body) + q.body_remaining <= MaxBodySize
  BY <1>1 DEF ParserInLimits, RequestInLimits, ParserRests, ParserTyped
<1>3. q.body_remaining # 0 => q.body_remaining \in 1 .. MaxBodySize
  BY <1>2, Limits
<1>4. StepTyped(Completes(q))
  BY <1>2, CompletesTyped
<1>5. q.body_remaining # 0 => StepTyped(Continues(q, "Body"))
  BY <1>2, <1>3, ContinuesTyped
<1> QED
  BY <1>1, <1>4, <1>5

(* feed() hands out a request and takes a new parser, or keeps this one.     *)
LEMMA ReturnsTyped ==
    ASSUME NEW p, ParserTyped(p), NEW result, Returns(p, result),
           p.state = "Complete" => p.error \/ result = "Complete"
    PROVE  ParserRests(parser') /\ pc' = "idle" /\ data' = <<>>
<1>1. ParserRests(NewParser)
  BY DEF ParserRests, ParserTyped, NewParser
<1> QED
  BY <1>1 DEF Returns, Reset, ParserRests

TypeInv ==
    /\ ParserRests(parser)
    /\ pc \in {"idle", "feed"} /\ (pc = "feed" => data # <<>>)
    /\ lawful \in BOOLEAN /\ aligned \in BOOLEAN

LEMMA ParserTypeStep == LimitsInv /\ TypeInv /\ [Next]_vars => TypeInv'
<1> SUFFICES ASSUME LimitsInv, TypeInv, [Next]_vars PROVE TypeInv'
  OBVIOUS
<1>1. ASSUME NEW m \in Messages, Send(m) PROVE TypeInv'
  <2>1. lawful' \in BOOLEAN
    BY <1>1 DEF Send
  <2>2. UNCHANGED <<parser, data, pc, aligned>>
    BY <1>1 DEF Send
  <2> QED
    BY <2>1, <2>2 DEF TypeInv, ParserRests, ParserTyped
<1>2. ASSUME NEW n \in 1 .. Len(message), Feed(n) PROVE TypeInv'
  <2>1. /\ message \in Seq(Tokens) /\ fed \in 0 .. Len(message)
        /\ n <= Len(message) - fed /\ n \in Nat \ {0}
    BY <1>2 DEF Feed, LimitsInv
  <2>2. data' # <<>>
    <3>1. data' = SubSeq(message, fed + 1, fed + n)
      BY <1>2 DEF Feed
    <3>2. Len(SubSeq(message, fed + 1, fed + n)) = n
      BY <2>1
    <3> QED
      BY <2>1, <3>1, <3>2
  <2>3. aligned' \in BOOLEAN /\ pc' = "feed" /\ UNCHANGED <<parser, lawful>>
    BY <1>2 DEF Feed
  <2> QED
    BY <2>2, <2>3 DEF TypeInv, ParserRests, ParserTyped
<1>3. CASE FeedLine
  <2> DEFINE line == IF Last(Chunk) = "LF" THEN WithoutEnd(Chunk) ELSE Chunk
             rest == SubSeq(data, Len(Chunk) + 1, Len(data))
             step == ParseLine(parser, line)
             result == IF step.parser.state = "Complete" /\ step.result = "Incomplete"
                       THEN "Complete" ELSE step.result
  <2>1. Then(step, rest)
    BY <1>3 DEF FeedLine
  <2>2. StepTyped(step)
    BY <1>3, ParseLineTyped DEF FeedLine, LimitsInv, TypeInv
  <2>3. UNCHANGED <<lawful, aligned>> /\ pc = "feed"
    BY <1>3 DEF FeedLine, Feeding
  <2> HIDE DEF line, rest, step
  <2>4. CASE step.result = "Incomplete" /\ rest # <<>>
    <3>1. parser' = step.parser /\ data' = rest /\ pc' = pc
      BY <2>1, <2>4 DEF Then
    <3>2. ParserRests(step.parser)
      BY <2>2, <2>4 DEF StepTyped, ParserRests
    <3> QED
      BY <2>3, <2>4, <3>1, <3>2 DEF TypeInv, ParserRests, ParserTyped
  <2>5. CASE ~(step.result = "Incomplete" /\ rest # <<>>)
    <3>1. Returns(step.parser, result)
      BY <2>1, <2>5 DEF Then
    <3>2. ParserTyped(step.parser)
      BY <2>2 DEF StepTyped
    <3>3. step.parser.state = "Complete" => step.parser.error \/ result = "Complete"
      BY <2>2 DEF StepTyped
    <3> HIDE DEF result
    <3>4. ParserRests(parser') /\ pc' = "idle" /\ data' = <<>>
      BY <3>1, <3>2, <3>3, ReturnsTyped
    <3> QED
      BY <2>3, <3>4 DEF TypeInv
  <2> QED
    BY <2>4, <2>5
<1>4. CASE FeedTooLong
  <2>1. Shape(parser) /\ parser.body_remaining \in Nat
    BY DEF LimitsInv, ParserInLimits, TypeInv, ParserRests, ParserTyped
  <2>2. ParserTyped(Fails(parser).parser)
    BY <2>1, FailsTyped DEF StepTyped
  <2>3. Returns(Fails(parser).parser, "Complete") /\ UNCHANGED <<lawful, aligned>>
    BY <1>4 DEF FeedTooLong, Feeding
  <2>4. ParserRests(parser') /\ pc' = "idle" /\ data' = <<>>
    BY <2>2, <2>3, ReturnsTyped
  <2> QED
    BY <2>3, <2>4 DEF TypeInv
<1>5. CASE FeedBody
  <2> DEFINE step == ParseBody(parser, data)
  <2>1. Returns(step.parser, step.result) /\ UNCHANGED <<lawful, aligned>>
    BY <1>5 DEF FeedBody, Feeding
  <2>2. StepTyped(step)
    BY <1>5, ParseBodyTyped DEF FeedBody, LimitsInv, TypeInv
  <2> HIDE DEF step
  <2>3. ParserRests(parser') /\ pc' = "idle" /\ data' = <<>>
    BY <2>1, <2>2, ReturnsTyped DEF StepTyped
  <2> QED
    BY <2>1, <2>3 DEF TypeInv
<1>6. CASE UNCHANGED vars
  BY <1>6 DEF vars, TypeInv, ParserRests, ParserTyped
<1> QED
  BY <1>1, <1>2, <1>3, <1>4, <1>5, <1>6 DEF Next

(* However the input is cut, the parser waits for a body exactly while there  *)
(* is some to come, within the limit, and is found complete between two calls *)
(* only after an error (parser.cpp:78-106, 148-199).                          *)
THEOREM ParserTypeCorrect == Spec => []TypeOK
<1>1. Init => LimitsInv /\ TypeInv
  <2> SUFFICES ASSUME Init PROVE TypeInv
    BY InitInLimits
  <2>1. /\ parser = NewParser /\ data = <<>> /\ pc = "idle"
        /\ lawful = TRUE /\ aligned = TRUE
    BY DEF Init
  <2> QED
    BY <2>1 DEF TypeInv, ParserRests, ParserTyped, NewParser
<1>2. LimitsInv /\ TypeInv => TypeOK
  BY DEF LimitsInv, TypeInv, ParserRests, ParserTyped, TypeOK
<1> QED
  BY <1>1, <1>2, LimitsStep, ParserTypeStep, PTL DEF Spec

=============================================================================
