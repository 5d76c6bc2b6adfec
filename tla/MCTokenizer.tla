---------------------------- MODULE MCTokenizer -----------------------------
(* Small vocabularies over a, b, space, newline and '<': the GGUF one has   *)
(* nothing else, the JSON one has every byte but c, and an unknown token.   *)
EXTENDS Tokenizer

a == <<97>>
b == <<98>>
sp == ByteToStr[32]
nl == ByteToStr[10]

MCMerges == << <<a, a>>, <<a>>, <<a, b>>, <<a \o b, a \o b>>, <<sp, a>>,
               <<nl, nl>>, <<sp \o a, b>> >>

MCPlain == << a, b, sp, nl, <<60>>, a \o a, a \o b, a \o b \o a \o b,
              sp \o a, nl \o nl, sp \o a \o b >>

(* "<a" and "<ab" are special: the longer one must win. *)
MCSpecial == << <<60, 97>>, <<60, 97, 98>> >>
MCTokens == MCPlain \o MCSpecial
MCTypes == [i \in DOMAIN MCTokens |-> IF i > Len(MCPlain) THEN 3 ELSE 1]

MCUnk == <<60, 117, 62>>
MCBytes == [i \in 1 .. 255 |-> ByteToStr[IF i <= 99 THEN i - 1 ELSE i]]
MCVocab == [i \in DOMAIN (MCBytes \o MCPlain) |-> <<(MCBytes \o MCPlain)[i], i + 40>>]
MCAdded == << [content |-> MCSpecial[1], id |-> 30, special |-> TRUE],
              [content |-> MCSpecial[2], id |-> 31, special |-> TRUE],
              [content |-> a \o b \o b, id |-> -1, special |-> TRUE],
              [content |-> MCUnk, id |-> 0, special |-> FALSE] >>

MCTokenizers == {LoadGguf(MCTokens, MCMerges, MCTypes),
                 LoadJson(MCVocab, MCMerges, MCAdded, {MCUnk})}

(* Texts of up to five characters, and every byte by itself. *)
MCAlphabet == {97, 98, 99, 32, 9, 10, 60}
MCTexts == UNION {[1 .. n -> MCAlphabet] : n \in 0 .. 5}
             \union {<<c>> : c \in 0 .. 255}

(* A special token with a character outside ASCII, here U+00E9. *)
AccentTokenizers == {LoadGguf(Append(MCTokens, <<60, 195, 169>>), MCMerges,
                              Append(MCTypes, 3))}
AccentTexts == UNION {[1 .. n -> {60, 97, 195, 169}] : n \in 0 .. 3}
=============================================================================
