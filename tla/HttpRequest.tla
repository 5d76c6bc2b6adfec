---------------------------- MODULE HttpRequest ------------------------------
(***************************************************************************)
(* How one connection of HttpServer reads and answers a request            *)
(* (src/http/http_server.cpp: handle_connection_impl, read_line,           *)
(* read_body, parse_content_length, parse_chat_request, handle_chat up to  *)
(* the submission).                                                        *)
(*                                                                         *)
(* The client puts the bytes of a request on the wire; each read returns   *)
(* some of the bytes that are there, so the boundaries between reads fall  *)
(* anywhere.  A byte is a symbol: the text of a line is one symbol, CR and *)
(* LF are symbols of their own, and so is each byte of the body.  The JSON *)
(* document that the body holds is chosen when the whole body is there.    *)
(* HttpServer runs several of these beside a shutdown.                     *)
(***************************************************************************)
EXTENDS Integers, Sequences, SequencesExt, FiniteSetsExt

CONSTANTS Requests,       \* the requests clients send (see Wire)
          Docs,           \* the JSON documents a body may hold (see ParseChat)
          kMaxHeaderSize  \* bytes of request line and headers

VARIABLES req,            \* the request the client sends
          pos,            \* how many of its bytes have been read
          cuts,           \* history: reads that ended between a CR and its LF
          gone,           \* whether the client has closed its side
          pc,             \* "line", "headers", "body" or "done"
          want,           \* whether the coroutine waits for async_read_some
          buf,            \* the streambuf
          line,           \* read_line's partial line
          target,         \* the request line: method and path
          header_bytes, has_content_length, content_length,
          body,           \* what read_body has so far
          doc,            \* the document of a chat request, or NoDoc
          answer          \* the status written, "submitted", "silent" or "none"

reading == <<pos, cuts, buf, line, want>>
parsed == <<target, header_bytes, has_content_length, content_length>>
vars == <<req, gone, pc, reading, parsed, body, doc, answer>>

-----------------------------------------------------------------------------
(* The wire. *)

(* Request lines: their method and path, the query already cut off.  The   *)
(* last one has no second space.                                           *)
RequestLines == [
  GET_health   |-> [ok |-> TRUE, method |-> "GET", path |-> "/health"],
  POST_health  |-> [ok |-> TRUE, method |-> "POST", path |-> "/health"],
  GET_metrics  |-> [ok |-> TRUE, method |-> "GET", path |-> "/metrics"],
  GET_other    |-> [ok |-> TRUE, method |-> "GET", path |-> "/other"],
  GET_chat     |-> [ok |-> TRUE, method |-> "GET", path |-> "/v1/chat/completions"],
  POST_chat    |-> [ok |-> TRUE, method |-> "POST", path |-> "/v1/chat/completions"],
  nospace      |-> [ok |-> FALSE, method |-> "", path |-> ""]]

(* Content-Length headers and what parse_content_length reads in them; -1  *)
(* is Invalid: no digit, something after the digits, or over kMaxBodySize. *)
LengthHeaders == [length_0 |-> 0, length_2 |-> 2, length_3 |-> 3, length_x |-> -1]

(* A request is [line, headers, body, eol] where eol is what ends a line.  *)
HeadOf(r) == FlattenSeq([i \in 1 .. Len(r.headers) |-> r.headers[i] \o r.eol])
Wire(r) == <<r.line>> \o r.eol \o HeadOf(r) \o r.eol \o r.body

NoDoc == [none |-> TRUE]

Init == /\ req \in Requests /\ pos = 0 /\ cuts = {} /\ gone = FALSE
        /\ pc = "line" /\ want = FALSE /\ buf = <<>> /\ line = <<>>
        /\ target = RequestLines.nospace /\ header_bytes = 0
        /\ has_content_length = FALSE /\ content_length = 0
        /\ body = <<>> /\ doc = NoDoc /\ answer = "none"

-----------------------------------------------------------------------------
(* Parsing. *)

IsSpace(s) == s = "CR"

(* parse_content_length of a line: NotPresent, Valid or Invalid. *)
ParseContentLength(l) ==
  IF l[1] \notin DOMAIN LengthHeaders THEN [state |-> "NotPresent", value |-> 0]
  ELSE IF LengthHeaders[l[1]] >= 0 /\ \A i \in 2 .. Len(l) : IsSpace(l[i])
       THEN [state |-> "Valid", value |-> LengthHeaders[l[1]]]
       ELSE [state |-> "Invalid", value |-> 0]

(* A field is [state |-> "Missing" | "Valid" | "Invalid", value |-> ...]:  *)
(* safe_json_get leaves the default of SamplingParams when it is missing.  *)
Field(f, default) == IF f.state = "Valid" THEN f.value ELSE default

(* Sampling parameters in halves: top_p = 2 is 1.0.                        *)
Sampling(d) == [max_tokens |-> Field(d.max_tokens, 256),
                temperature |-> Field(d.temperature, 0),
                top_p |-> Field(d.top_p, 2), top_k |-> Field(d.top_k, 0)]

InRange(p) == /\ p.max_tokens >= 0 /\ p.temperature >= 0
              /\ p.top_p > 0 /\ p.top_p <= 2 /\ p.top_k >= 0

(* Faulty variant: top_p is not looked at. *)
IsGreedyTopK(p) == p.temperature <= 0 /\ p.top_k <= 0

IsGreedy(p) == p.temperature <= 0 /\ p.top_p >= 2 /\ p.top_k <= 0

(* The first message that is malformed or that the tokenizer rejects.      *)
FirstBad(ms) == {i \in DOMAIN ms : ~ms[i].text \/ ~ms[i].encodes}

ParseMessages(ms) ==
  IF FirstBad(ms) # {}
  THEN [ok |-> FALSE, error |-> IF ms[Min(FirstBad(ms))].text THEN "InternalError"
                                                              ELSE "InvalidArgument"]
  ELSE LET tokens == FlattenSeq([i \in DOMAIN ms |-> ms[i].tokens])
       IN  [ok |-> TRUE, tokens |-> IF tokens = <<>> THEN <<1, 2, 3>> ELSE tokens]

Fields == {"max_tokens", "temperature", "top_p", "top_k"}

(* parse_chat_request of a document [object, array, messages, <fields>,    *)
(* max_context_len]; a missing "messages" is an empty array.               *)
ParseChat(d) ==
  LET failure(e) == [ok |-> FALSE, error |-> e]
      prompt == ParseMessages(d.messages)
      sampling == Sampling(d)
  IN  IF ~d.object \/ ~d.array THEN failure("InvalidArgument")
      ELSE IF ~prompt.ok THEN prompt
      ELSE IF \/ \E f \in Fields : d[f].state = "Invalid"
              \/ ~InRange(sampling) \/ ~IsGreedy(sampling)
              \/ d.max_context_len.state = "Invalid"
              \/ d.max_context_len.state = "Valid" /\ d.max_context_len.value <= 0
           THEN failure("InvalidArgument")
      ELSE [ok |-> TRUE, tokens |-> prompt.tokens, sampling |-> sampling,
            max_context_len |-> Field(d.max_context_len, 0)]

-----------------------------------------------------------------------------
(* handle_connection_impl between two reads. *)

Finish(a) == /\ pc' = "done" /\ answer' = a /\ UNCHANGED <<parsed, body, doc>>

(* handle_chat: the document is parsed and the request submitted. *)
HandleChat == \E d \in Docs :
  /\ doc' = d
  /\ answer' = IF ParseChat(d).ok THEN "submitted"
               ELSE IF ParseChat(d).error = "InternalError" THEN "500" ELSE "400"
  /\ pc' = "done"

(* The routes, taken when the headers have been read. *)
Route ==
  IF target.path \in {"/health", "/metrics"}
  THEN Finish(IF target.method = "GET" THEN "200" ELSE "405")
  ELSE IF target.path # "/v1/chat/completions" THEN Finish("404")
  ELSE IF target.method # "POST" THEN Finish("405")
  ELSE IF ~has_content_length \/ content_length = 0 THEN Finish("400")
  ELSE pc' = "body" /\ UNCHANGED <<parsed, body, doc, answer>>

RequestLine(l) ==
  IF l = <<>> THEN Finish("silent")
  ELSE IF l[1] \notin DOMAIN RequestLines \/ ~RequestLines[l[1]].ok THEN Finish("400")
  ELSE /\ target' = RequestLines[l[1]]
       /\ header_bytes' = Len(l) + 2
       /\ pc' = "headers"
       /\ UNCHANGED <<has_content_length, content_length, body, doc, answer>>

LengthsAgree(value) == has_content_length => content_length = value

HeaderLine(l) ==
  LET cl == ParseContentLength(l)
      bytes == header_bytes + Len(l) + 2
  IN  IF l = <<>> THEN Route
      ELSE IF \/ bytes > kMaxHeaderSize
              \/ cl.state = "Invalid"
              \/ cl.state = "Valid" /\ ~LengthsAgree(cl.value)
           THEN Finish("400")
      ELSE /\ header_bytes' = bytes
           /\ has_content_length' = (has_content_length \/ cl.state = "Valid")
           /\ content_length' = IF cl.state = "Valid" THEN cl.value ELSE content_length
           /\ UNCHANGED <<pc, target, body, doc, answer>>

(* What read_line returns when its caller is resumed. *)
LineRead(l) == IF pc = "line" THEN RequestLine(l) ELSE HeaderLine(l)

TooLong == [i \in 1 .. kMaxHeaderSize + 1 |-> "x"]
LineEnds == {i \in DOMAIN buf : buf[i] = "LF"}

(* Faulty variant: the bytes after the line are not put back. *)
PutBackNothing(n) == <<>>

(* The text before the LF at n: a CR is cut off if it is in buf as well.   *)
TextBefore(n) == SubSeq(buf, 1, IF n > 1 /\ buf[n - 1] = "CR" THEN n - 2 ELSE n - 1)

PutBack(n) == SubSeq(buf, n + 1, Len(buf))

(* read_line over what is in the buffer: the line is complete, too long,   *)
(* or kept until the next read.                                            *)
ReadLine ==
  /\ pc \in {"line", "headers"} /\ ~want
  /\ IF LineEnds # {}
     THEN LET n == Min(LineEnds)
              text == line \o TextBefore(n)
          IN  /\ line' = <<>> /\ want' = FALSE
              /\ IF Len(text) > kMaxHeaderSize
                 THEN buf' = <<>> /\ LineRead(TooLong)
                 ELSE buf' = PutBack(n) /\ LineRead(text)
     ELSE IF Len(line) + Len(buf) > kMaxHeaderSize
     THEN line' = <<>> /\ buf' = <<>> /\ want' = FALSE /\ LineRead(TooLong)
     ELSE /\ line' = line \o buf /\ buf' = <<>> /\ want' = TRUE
          /\ UNCHANGED <<pc, parsed, body, doc, answer>>
  /\ UNCHANGED <<req, pos, cuts, gone>>

(* Faulty variant: one byte more than Content-Length is awaited. *)
ReadBodyOneMore ==
  /\ pc = "body" /\ ~want
  /\ LET take == Min({Len(buf), content_length - Len(body)})
     IN  /\ body' = body \o SubSeq(buf, 1, take)
         /\ buf' = SubSeq(buf, take + 1, Len(buf))
  /\ IF Len(body') > content_length
     THEN want' = FALSE /\ HandleChat
     ELSE want' = TRUE /\ UNCHANGED <<pc, doc, answer>>
  /\ UNCHANGED <<req, pos, cuts, gone, line, parsed>>

(* read_body over what is in the buffer, and its end when all is there.    *)
ReadBody ==
  /\ pc = "body" /\ ~want
  /\ LET take == Min({Len(buf), content_length - Len(body)})
     IN  /\ body' = body \o SubSeq(buf, 1, take)
         /\ buf' = SubSeq(buf, take + 1, Len(buf))
  /\ IF Len(body') = content_length
     THEN want' = FALSE /\ HandleChat
     ELSE want' = TRUE /\ UNCHANGED <<pc, doc, answer>>
  /\ UNCHANGED <<req, pos, cuts, gone, line, parsed>>

-----------------------------------------------------------------------------
(* The socket. *)

(* read_body asks for no more than it lacks. *)
Limit == IF pc = "body" THEN content_length - Len(body) ELSE Len(Wire(req))

(* Where the CR of the blank line is, when lines end with CR LF. *)
BlankCR(r) == Len(Wire(r)) - Len(r.body) - 1

(* A read that ends at p parts a CR from its LF: that of the blank line or *)
(* that of another line.                                                   *)
Cut(p) == IF p = 0 \/ p >= Len(Wire(req)) \/ Wire(req)[p] # "CR" THEN {}
          ELSE IF p = BlankCR(req) THEN {"blank"} ELSE {"line"}

(* async_read_some completes with the next n bytes. *)
Arrive(n) ==
  /\ want /\ pos + n <= Len(Wire(req)) /\ n <= Limit /\ ~gone
  /\ pos' = pos + n
  /\ cuts' = cuts \union Cut(pos + n)
  /\ buf' = buf \o SubSeq(Wire(req), pos + 1, pos + n)
  /\ want' = FALSE
  /\ UNCHANGED <<req, gone, pc, line, parsed, body, doc, answer>>

(* The client closes its side, having sent everything or not. *)
Leave == ~gone /\ gone' = TRUE
         /\ UNCHANGED <<req, pc, reading, parsed, body, doc, answer>>

(* The read ends with an error: read_line returns "", read_body nothing.   *)
ReadFails ==
  /\ want /\ gone
  /\ want' = FALSE /\ line' = <<>>
  /\ IF pc = "body" THEN Finish("400") ELSE LineRead(<<>>)
  /\ UNCHANGED <<req, pos, cuts, gone, buf>>

Next == ReadLine \/ ReadBody \/ ReadFails \/ Leave
        \/ \E n \in 1 .. Len(Wire(req)) : Arrive(n)

Spec == Init /\ [][Next]_vars

(* The coroutine runs when it can, and the bytes of a client that stays    *)
(* arrive.                                                                 *)
FairSpec == /\ Spec
            /\ WF_vars(ReadLine) /\ WF_vars(ReadBody) /\ WF_vars(ReadFails)
            /\ WF_vars(\E n \in 1 .. Len(Wire(req)) : Arrive(n))

-----------------------------------------------------------------------------
(* What the request itself calls for, whatever the reads. *)

Lengths(r) == {LengthHeaders[h[1]] :
                 h \in {g \in Range(r.headers) : g[1] \in DOMAIN LengthHeaders}}

HeaderSize(r) == 3 + Len(FlattenSeq(r.headers)) + 2 * Len(r.headers)

Expected(r) ==
  LET t == RequestLines[r.line]
  IN  IF \/ ~t.ok \/ HeaderSize(r) > kMaxHeaderSize
         \/ -1 \in Lengths(r) \/ Cardinality(Lengths(r)) > 1 THEN "400"
      ELSE IF t.path \in {"/health", "/metrics"}
      THEN IF t.method = "GET" THEN "200" ELSE "405"
      ELSE IF t.path = "/other" THEN "404"
      ELSE IF t.method # "POST" THEN "405"
      ELSE IF Lengths(r) \subseteq {0} THEN "400" ELSE "chat"

(* Whether a CR that is counted with its line makes the headers too long.  *)
AtLimit(r) == /\ HeaderSize(r) <= kMaxHeaderSize
              /\ HeaderSize(r) + 1 + Len(r.headers) > kMaxHeaderSize

(* How TCP cuts a request into reads does not show in the answer: read_line *)
(* and read_body together see the lines and the body that were sent, with  *)
(* CR LF or LF, and bytes read too early are not lost.  Two cuts do show:  *)
(* between the CR and the LF of the blank line, which is then no blank     *)
(* line, and inside another line end when the headers are within a few     *)
(* bytes of kMaxHeaderSize.                                                *)
AnswerIgnoresReads ==
  pc = "done" /\ ~gone /\ "blank" \notin cuts /\ (cuts # {} => ~AtLimit(req)) =>
    IF Expected(req) = "chat" THEN doc # NoDoc ELSE answer = Expected(req)

(* ModelRunner::inference returns Unsupported for any batch that is not    *)
(* greedy.                                                                 *)
RunnerSupports(p) == ~(p.temperature > 0 \/ p.top_p < 2 \/ p.top_k > 0)

(* parse_chat_request rejects "unsupported sampling configurations at the  *)
(* HTTP boundary instead of failing mid-stream": what is submitted the     *)
(* runner can execute and the scheduler can admit.                         *)
SubmittedIsServable ==
  answer = "submitted" =>
    LET p == ParseChat(doc)
    IN  p.ok /\ RunnerSupports(p.sampling) /\ p.tokens # <<>>
        /\ p.sampling.max_tokens >= 0 /\ p.max_context_len >= 0

(* A request that was sent as a whole is answered, unless a read ended     *)
(* inside its blank line: then the body is read as headers and the server  *)
(* waits for more of them.                                                 *)
RequestIsAnswered == <>(pc = "done" \/ "blank" \in cuts)
==============================================================================
