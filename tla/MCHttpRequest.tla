---------------------------- MODULE MCHttpRequest ----------------------------
(* Instances of HttpRequest for TLC. *)
EXTENDS HttpRequest

CRLF == <<"CR", "LF">>
Bare == <<"LF">>

MCRequest(l, hs, b, e) == [line |-> l, headers |-> hs, body |-> b, eol |-> e]

(* Bodies: plain, with a line end in it, starting with one, and with bytes *)
(* beyond Content-Length.                                                  *)
MCBodies == {<<"b", "c">>, <<"b", "LF">>, <<"LF", "b">>, <<"b", "c", "LF">>}

MCLong == [i \in 1 .. kMaxHeaderSize + 1 |-> "y"]

MCRequests ==
  {MCRequest("POST_chat", hs, b, e) :
     hs \in {<<<<"length_2">>>>, <<<<"other">>, <<"length_2">>>>, <<<<"length_2">>, <<"length_2">>>>},
     b \in MCBodies, e \in {CRLF, Bare}}
  \union {MCRequest("POST_chat", hs, <<"b", "c", "d">>, CRLF) :
     hs \in {<<<<"length_2">>, <<"length_3">>>>, <<<<"length_x">>>>, <<<<"length_0">>>>, <<<<"other">>>>,
             <<<<"length_3">>, <<"length_3">>>>, <<<<"other">>, <<"other">>, <<"other">>, <<"other">>>>,
             <<MCLong, <<"length_3">>>>, <<<<"length_3">>, MCLong>>}}
  \union {MCRequest(l, <<<<"other">>>>, <<>>, e) :
     l \in DOMAIN RequestLines, e \in {CRLF, Bare}}

MCValid(v) == [state |-> "Valid", value |-> v]
MCMissing == [state |-> "Missing", value |-> 0]
MCInvalid == [state |-> "Invalid", value |-> 0]
MCText(ts) == [text |-> TRUE, encodes |-> TRUE, tokens |-> ts]
MCBad == [text |-> FALSE, encodes |-> FALSE, tokens |-> <<>>]
MCFails == [text |-> TRUE, encodes |-> FALSE, tokens |-> <<>>]

MCDoc == [object |-> TRUE, array |-> TRUE, messages |-> <<MCText(<<7>>)>>,
          max_tokens |-> MCMissing, temperature |-> MCMissing, top_p |-> MCMissing,
          top_k |-> MCMissing, max_context_len |-> MCMissing]

MCDocs ==
  {MCDoc} \union {[MCDoc EXCEPT !.object = FALSE], [MCDoc EXCEPT !.array = FALSE]}
  \union {[MCDoc EXCEPT !.messages = ms] :
            ms \in {<<>>, <<MCText(<<>>)>>, <<MCText(<<7>>), MCText(<<8>>)>>,
                    <<MCBad, MCFails>>, <<MCText(<<7>>), MCFails, MCBad>>}}
  \union {[[MCDoc EXCEPT ![f] = MCValid(v)] EXCEPT ![g] = x] :
            f \in Fields, v \in -1 .. 3, g \in {"top_k", "max_context_len"},
            x \in {MCMissing, MCInvalid, MCValid(0), MCValid(1)}}
==============================================================================
