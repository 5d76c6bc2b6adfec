----------------------------- MODULE Tokenizer ------------------------------
(***************************************************************************)
(* ByteLevelBpeTokenizer: the two loaders, encode with its pre-tokenizer   *)
(* loop, byte-pair merging, and decode                                     *)
(* (src/tokenizer/byte_level_bpe_tokenizer.cpp).                           *)
(*                                                                         *)
(* A string is a sequence of bytes, positions count from 0 as in the code. *)
(* A tokenizer is a record: vocab (string -> id), id_to_token, merge_rank  *)
(* (pair of strings -> rank), special (string -> id) and unk (-1 if none). *)
(* The eos and pad ids are read by nothing here and are left out, and so   *)
(* is the shape of the JSON document apart from the ids in it.             *)
(***************************************************************************)
EXTENDS Integers, FiniteSets, Sequences, SequencesExt, TLC

CONSTANTS Tokenizers,  \* the tokenizers the loaders may have filled
          Texts        \* bound: the texts to encode

VARIABLES tk,            \* vocab, id_to_token, merge_rank, special and unk id
          text,          \* the argument of encode
          pos, segment_start, ids,
          segments,      \* history: the segments given to BPE, <<begin, end>>
          status         \* "run", "done" or "error"

vars == <<tk, text, pos, segment_start, ids, segments, status>>

-----------------------------------------------------------------------------
(* The byte map. *)

Printable == (33 .. 126) \union (161 .. 172) \union (174 .. 255)

(* The code point that stands for byte b: itself, or the next one from 256. *)
Codepoint(b) ==
  IF b \in Printable THEN b
  ELSE 256 + Cardinality((0 .. b - 1) \ Printable)

(* utf8_from_codepoint; the code points of the map are below 0x800. *)
Utf8(cp) == IF cp < 128 THEN <<cp>> ELSE <<192 + cp \div 64, 128 + (cp % 64)>>

ByteToStr == [b \in 0 .. 255 |-> Utf8(Codepoint(b))]

(* str_to_byte_, filled in the same loop. *)
StrToByte == [s \in Range(ByteToStr) |-> CHOOSE b \in 0 .. 255 : ByteToStr[b] = s]

-----------------------------------------------------------------------------
(* Loading. *)

(* The map that inserting these <<key, value>> entries in order leaves. *)
Inserted(entries) ==
  [k \in {entries[i][1] : i \in DOMAIN entries} |->
     entries[Max({i \in DOMAIN entries : entries[i][1] = k})][2]]

Swapped(entries) == [i \in DOMAIN entries |-> <<entries[i][2], entries[i][1]>>]

(* A merge line without a space has one part and is skipped, rank included; *)
(* a repeated pair takes its later rank.                                    *)
MergeRanks(merges) ==
  LET pairs == SelectSeq(merges, LAMBDA m : Len(m) = 2)
  IN  Inserted([i \in DOMAIN pairs |-> <<pairs[i], i - 1>>])

(* load_from_vocab_and_merges: ids are places, types from 3 on are special, *)
(* the first token of type 2 is the unknown one.                            *)
LoadGguf(tokens, merges, types) ==
  LET entries == [i \in DOMAIN tokens |-> <<tokens[i], i - 1>>]
      typed   == DOMAIN tokens \intersect DOMAIN types
      unks    == {i \in typed : types[i] = 2}
  IN  [vocab       |-> Inserted(entries),
       id_to_token |-> Inserted(Swapped(entries)),
       merge_rank  |-> MergeRanks(merges),
       special     |-> Inserted(SelectSeq(entries, LAMBDA e :
                          e[2] + 1 \in typed /\ types[e[2] + 1] >= 3)),
       unk         |-> IF unks = {} THEN -1 ELSE Min(unks) - 1]

IdInRange(id) == 0 <= id /\ id < 2147483647

(* parse_added_tokens: the tokens with an id out of range are dropped. *)
Added(added) == SelectSeq(added, LAMBDA tok : IdInRange(tok.id))

(* The unknown token, one of the names unks: the last added one, or else    *)
(* one that the vocabulary has (resolve_special_tokens).                    *)
ResolveUnk(vocab, added, unks) ==
  LET named == {i \in DOMAIN added : added[i].content \in unks}
      known == unks \intersect DOMAIN vocab
  IN  IF named # {} THEN added[Max(named)].id
      ELSE IF known # {} THEN vocab[CHOOSE s \in known : TRUE] ELSE -1

(* load: an id out of range in the vocabulary fails it, and                 *)
(* create_tokenizer drops the tokenizer (no vocabulary).                    *)
LoadJson(json_vocab, merges, added_tokens, unks) ==
  LET added   == Added(added_tokens)
      entry(tok) == <<tok.content, tok.id>>
      entries == json_vocab \o [i \in DOMAIN added |-> entry(added[i])]
      special == SelectSeq(added, LAMBDA tok : tok.special)
      ok      == \A i \in DOMAIN json_vocab : IdInRange(json_vocab[i][2])
      vocab   == IF ok THEN Inserted(entries) ELSE <<>>
  IN  [vocab       |-> vocab,
       id_to_token |-> Inserted(Swapped(entries)),
       merge_rank  |-> MergeRanks(merges),
       special     |-> Inserted([i \in DOMAIN special |-> entry(special[i])]),
       unk         |-> ResolveUnk(vocab, added, unks)]

-----------------------------------------------------------------------------
(* Byte-pair merging of one segment. *)

Ranks(symbols) ==
  {tk.merge_rank[p] : p \in {<<symbols[i], symbols[i + 1]>> :
                              i \in 1 .. Len(symbols) - 1}
                            \intersect DOMAIN tk.merge_rank}

HasRank(a, b, rank) ==
  <<a, b>> \in DOMAIN tk.merge_rank /\ tk.merge_rank[<<a, b>>] = rank

(* Faulty variant: a symbol just merged is merged again with its neighbour. *)
MergeOverlapping(symbols, rank) ==
  FoldLeft(LAMBDA next, s :
             IF next # <<>> /\ HasRank(SubSeq(Last(next), Len(Last(next)) - Len(s) + 1,
                                              Len(Last(next))), s, rank)
             THEN Append(Front(next), Last(next) \o s) ELSE Append(next, s),
           <<>>, symbols)

(* One pass: left to right, every pair of this rank that does not overlap   *)
(* one merged before it.                                                    *)
MergePass(symbols, rank) ==
  LET step(acc, s) ==
        IF ~acc.fresh /\ acc.next # <<>> /\ HasRank(Last(acc.next), s, rank)
        THEN [next |-> Append(Front(acc.next), Last(acc.next) \o s), fresh |-> TRUE]
        ELSE [next |-> Append(acc.next, s), fresh |-> FALSE]
  IN  FoldLeft(step, [next |-> <<>>, fresh |-> FALSE], symbols).next

RECURSIVE ApplyBpe(_)
ApplyBpe(symbols) ==
  IF Ranks(symbols) = {} THEN symbols
  ELSE ApplyBpe(MergePass(symbols, Min(Ranks(symbols))))

ByteEncodeSegment(s) == [i \in DOMAIN s |-> ByteToStr[s[i]]]

(* encode_normal_segment: one id per symbol, or the unknown id, or an error. *)
EncodeNormalSegment(s) ==
  LET symbols == ApplyBpe(ByteEncodeSegment(s))
      known(i) == symbols[i] \in DOMAIN tk.vocab
  IN  [ok  |-> tk.unk >= 0 \/ \A i \in DOMAIN symbols : known(i),
       ids |-> [i \in DOMAIN symbols |-> IF known(i) THEN tk.vocab[symbols[i]]
                                                     ELSE tk.unk]]

-----------------------------------------------------------------------------
(* encode: one step of the pre-tokenizer loop per action. *)

Char(p) == text[p + 1]
SpaceChars == {32, 9}
NewlineChars == {10, 13}
IsSpace(c) == c \in SpaceChars
IsNewline(c) == c \in NewlineChars
IsWord(c) == ~IsSpace(c) /\ ~IsNewline(c)

StartsWithAt(p, s) ==
  p + Len(s) <= Len(text) /\ SubSeq(text, p + 1, p + Len(s)) = s

Matches(p) == {s \in DOMAIN tk.special : s # <<>> /\ StartsWithAt(p, s)}

(* try_match_special: the longest special token at p. *)
MatchedToken(p) == CHOOSE s \in Matches(p) : \A r \in Matches(p) : Len(r) <= Len(s)

(* The end of the run of characters in C from p on. *)
RunEnd(p, C) ==
  CHOOSE e \in p .. Len(text) :
    /\ \A k \in p .. e - 1 : Char(k) \in C
    /\ e < Len(text) => Char(e) \notin C

Init == /\ tk \in Tokenizers
        /\ text \in Texts
        /\ pos = 0 /\ segment_start = 0
        /\ ids = <<>> /\ segments = <<>>
        /\ status = IF tk.vocab = <<>> THEN "error" ELSE "run"

(* flush_if_any of the ranges in order, and the ids that follow them; the   *)
(* first segment that fails makes encode return its error.                  *)
Flush(ranges, more) ==
  LET full == SelectSeq(ranges, LAMBDA r : r[1] < r[2])
      out  == [i \in DOMAIN full |->
                 EncodeNormalSegment(SubSeq(text, full[i][1] + 1, full[i][2]))]
  IN  IF \A i \in DOMAIN out : out[i].ok
      THEN /\ ids' = FoldLeft(LAMBDA acc, r : acc \o r.ids, ids, out) \o more
           /\ segments' = segments \o full
           /\ UNCHANGED status
      ELSE /\ status' = "error"
           /\ UNCHANGED <<ids, segments>>

Continue(p, start) == /\ pos' = p
                      /\ segment_start' = start
                      /\ UNCHANGED <<tk, text>>

AtPos == status = "run" /\ pos < Len(text)

EncodeSpecial ==
  /\ AtPos /\ Matches(pos) # {}
  /\ Flush(<<<<segment_start, pos>>>>, <<tk.special[MatchedToken(pos)]>>)
  /\ LET end == pos + Len(MatchedToken(pos)) IN Continue(end, end)

EncodeNewlines ==
  /\ AtPos /\ Matches(pos) = {} /\ IsNewline(Char(pos))
  /\ LET end == RunEnd(pos, NewlineChars)
     IN  /\ Flush(<<<<segment_start, pos>>, <<pos, end>>>>, <<>>)
         /\ Continue(end, end)

(* Faulty variant: only the next character is looked at. *)
HasNextAdjacent(e) == e + 1 < Len(text) /\ IsWord(Char(e + 1))

(* A word follows position e after nothing but whitespace. *)
HasNext(e) ==
  \E k \in e .. Len(text) - 1 :
    /\ IsWord(Char(k))
    /\ \A j \in e .. k : Matches(j) = {}
    /\ \A j \in e .. k - 1 : ~IsWord(Char(j))

(* Faulty variant: the space that belongs to the word is skipped. *)
SpacesDropOne ==
  /\ AtPos /\ Matches(pos) = {} /\ IsSpace(Char(pos))
  /\ LET end   == RunEnd(pos, SpaceChars)
         split == IF HasNext(end) THEN end - 1 ELSE end
     IN  /\ Flush(<<<<segment_start, pos>>, <<pos, split>>>>, <<>>)
         /\ Continue(end, end)

(* All spaces but the one that goes with the next word form a segment. *)
EncodeSpaces ==
  /\ AtPos /\ Matches(pos) = {} /\ IsSpace(Char(pos))
  /\ LET end   == RunEnd(pos, SpaceChars)
         split == IF HasNext(end) THEN end - 1 ELSE end
     IN  /\ Flush(<<<<segment_start, pos>>, <<pos, split>>>>, <<>>)
         /\ Continue(end, split)

EncodeOther ==
  /\ AtPos /\ Matches(pos) = {} /\ IsWord(Char(pos))
  /\ Continue(pos + 1, segment_start)
  /\ UNCHANGED <<ids, segments, status>>

EncodeReturns ==
  /\ status = "run" /\ pos = Len(text)
  /\ LET last == EncodeNormalSegment(SubSeq(text, segment_start + 1, pos))
     IN  IF segment_start < pos /\ ~last.ok
         THEN status' = "error" /\ UNCHANGED <<ids, segments>>
         ELSE /\ status' = "done"
              /\ ids' = IF segment_start < pos THEN ids \o last.ids ELSE ids
              /\ segments' = IF segment_start < pos
                             THEN Append(segments, <<segment_start, pos>>)
                             ELSE segments
  /\ Continue(pos, pos)

Next == \/ EncodeSpecial
        \/ EncodeNewlines
        \/ EncodeSpaces
        \/ EncodeOther
        \/ EncodeReturns

Spec == Init /\ [][Next]_vars

-----------------------------------------------------------------------------
(* decode *)

(* Faulty variant: special tokens are never skipped. *)
SymbolsOfAny(id, skip) == tk.id_to_token[id]

(* The text of an id before the byte map is undone. *)
SymbolsOf(id, skip) ==
  IF id \in Range(tk.special) THEN IF skip THEN <<>> ELSE tk.id_to_token[id]
  ELSE tk.id_to_token[id]

(* The length of a UTF-8 character by its first byte, 0 if it is not one. *)
CharLen(c) == CASE c < 128 -> 1
                [] c \in 192 .. 223 -> 2
                [] c \in 224 .. 239 -> 3
                [] c \in 240 .. 247 -> 4
                [] OTHER -> 0

(* A character that is not in the byte map is kept literally, or an error   *)
(* when special tokens are skipped.                                         *)
RECURSIVE DecodeStream(_, _)
DecodeStream(s, skip) ==
  IF s = <<>> THEN [ok |-> TRUE, text |-> <<>>]
  ELSE LET len  == CharLen(Head(s))
           ch   == SubSeq(s, 1, len)
           rest == DecodeStream(SubSeq(s, len + 1, Len(s)), skip)
       IN  IF len = 0 \/ len > Len(s) \/ (skip /\ ch \notin DOMAIN StrToByte)
           THEN [ok |-> FALSE, text |-> <<>>]
           ELSE [ok   |-> rest.ok,
                 text |-> (IF ch \in DOMAIN StrToByte THEN <<StrToByte[ch]>>
                                                      ELSE ch) \o rest.text]

Decode(token_ids, skip) ==
  IF \E i \in DOMAIN token_ids : token_ids[i] \notin DOMAIN tk.id_to_token
  THEN [ok |-> FALSE, text |-> <<>>]
  ELSE DecodeStream(FoldLeft(LAMBDA acc, id : acc \o SymbolsOf(id, skip),
                             <<>>, token_ids), skip)

-----------------------------------------------------------------------------
(* decode undoes encode: the flushed segments and the special tokens tile   *)
(* the text, the merged symbols spell it, and the byte map is undone        *)
(* without loss, unless the unknown token stood in for something.           *)
RoundTrip ==
  status = "done" /\ tk.unk \notin Range(ids) =>
    Decode(ids, FALSE) = [ok |-> TRUE, text |-> text]

(* With skip_special_tokens, decode returns exactly the text of the         *)
(* segments that went through BPE.                                          *)
SkippingKeepsTheRest ==
  status = "done" /\ tk.unk \notin Range(ids) =>
    Decode(ids, TRUE) =
      [ok   |-> TRUE,
       text |-> FoldLeft(LAMBDA acc, r : acc \o SubSeq(text, r[1] + 1, r[2]),
                         <<>>, segments)]

(* decode says of a special token appended literally: "preserve literal     *)
(* bytes" (byte_level_bpe_tokenizer.cpp:583).  A text of special tokens     *)
(* alone comes back as it was.                                              *)
SpecialTokensPreserved ==
  status = "done" /\ segments = <<>> =>
    Decode(ids, FALSE) = [ok |-> TRUE, text |-> text]

(* Where the rules of the pre-tokenizer's comment cut a text, before the    *)
(* character at p: around newlines (rule 2), before a space that follows a  *)
(* word, and in a run of spaces before its last one when a word follows the *)
(* run (rule 3); other runs of spaces stay whole (rule 4).                  *)
RulesCut(p) ==
  LET c == Char(p - 1)
      d == Char(p)
  IN  \/ IsNewline(c) # IsNewline(d)
      \/ IsWord(c) /\ IsSpace(d)
      \/ /\ IsSpace(c) /\ IsSpace(d)
         /\ p + 1 < Len(text) /\ IsWord(Char(p + 1)) /\ Matches(p + 1) = {}

InSegment(p) == \E i \in DOMAIN segments : p \in segments[i][1] .. segments[i][2] - 1

(* Segments meet exactly where the rules cut, at the places in P. *)
CutAsRuled(P) ==
  \A p \in P : InSegment(p - 1) /\ InSegment(p) =>
    ((\E i \in DOMAIN segments : segments[i][1] = p) <=> RulesCut(p))

(* The last of several spaces before a newline. *)
SpaceBeforeNewline(p) ==
  /\ IsSpace(Char(p - 1)) /\ IsSpace(Char(p))
  /\ p + 1 < Len(text) /\ IsNewline(Char(p + 1))

(* The pre-tokenizer cuts a text where rules 2 to 4 of its comment cut it   *)
(* and nowhere else (byte_level_bpe_tokenizer.cpp:450-455), but for one     *)
(* place that they leave whole: the last of several spaces before a newline *)
(* is cut off when a word comes after the newlines, since the search for    *)
(* the next word looks past them.                                           *)
PretokenizerRules ==
  status = "done" => CutAsRuled({p \in 1 .. Len(text) - 1 : ~SpaceBeforeNewline(p)})

(* The same without the exception, which encode does not satisfy.           *)
RulesToTheLetter == status = "done" => CutAsRuled(1 .. Len(text) - 1)

(* Byte-pair encoding as it is defined: merge the leftmost pair of the      *)
(* lowest rank, one pair at a time.                                         *)
RECURSIVE MergeOneByOne(_)
MergeOneByOne(symbols) ==
  IF Ranks(symbols) = {} THEN symbols
  ELSE LET at == Min({i \in 1 .. Len(symbols) - 1 :
                        HasRank(symbols[i], symbols[i + 1], Min(Ranks(symbols)))})
       IN  MergeOneByOne(SubSeq(symbols, 1, at - 1)
                         \o <<symbols[at] \o symbols[at + 1]>>
                         \o SubSeq(symbols, at + 2, Len(symbols)))

(* apply_bpe, which merges every occurrence of a pair in one pass, computes *)
(* what merging pair by pair computes.                                      *)
PassesMergeAsDefined ==
  status = "done" =>
    \A i \in DOMAIN segments :
      LET s == ByteEncodeSegment(SubSeq(text, segments[i][1] + 1, segments[i][2]))
      IN  ApplyBpe(s) = MergeOneByOne(s)
=============================================================================
