-------------------------------- MODULE Utf8 --------------------------------
(***************************************************************************)
(* How the program evens out spellings (utf8tolower and its helpers in     *)
(* helper.cpp).  A text is a sequence of Unicode characters, which are     *)
(* numbers; its bytes are UTF-8 and well-formed.                           *)
(***************************************************************************)
EXTENDS Integers, SequencesExt

Bytes(c) == IF c < 128 THEN 1 ELSE IF c < 2048 THEN 2 ELSE IF c < 65536 THEN 3 ELSE 4
ByteLength(text) == SumFunction([i \in DOMAIN text |-> Bytes(text[i])])

\* handleCombiningDiacriticalMark: a letter and the acute accent, diaeresis or
\* ring behind it become one character.
Acute     == 769
Diaeresis == 776
Ring      == 778
Combined ==
  { <<101, Acute, 233>>, <<97, Diaeresis, 228>>, <<111, Diaeresis, 246>>, <<97, Ring, 229>>,
    <<69, Acute, 201>>, <<65, Diaeresis, 196>>, <<79, Diaeresis, 214>>, <<65, Ring, 197>> }

\* extendedLatinToAscii, for the characters utf8tolower passes to it, with
\* capitals lowered, as they are in the same step or in the next: Latin-1, ...
For(letters, chars) == [letters |-> letters, chars |-> chars]
Latin1 ==
  { For(<<97>>, 192..195 \cup 224..227), For(<<97, 101>>, {198, 230}), For(<<99>>, {199, 231}),
    For(<<100>>, {208, 240}), For(<<101>>, 200..203 \cup 232..235),
    For(<<105>>, 204..207 \cup 217..220 \cup 236..239 \cup 249..252), For(<<110>>, {209, 241}),
    For(<<111>>, 210..213 \cup 242..245 \cup {216, 248}), For(<<115, 115>>, {223}), For(<<121>>, {221, 253}) }

\* ... Latin Extended A, ...
LatinExtendedA ==
  { For(<<97>>, 256..261), For(<<99>>, 262..269), For(<<100>>, 270..273), For(<<101>>, 274..283),
    For(<<103>>, 284..291), For(<<104>>, 292..305), For(<<105, 106>>, 306..307), For(<<106>>, 308..309),
    For(<<108>>, 313..318), For(<<110>>, 323..328 \cup 330..331), For(<<111>>, 332..337), For(<<115>>, 346..353) }

\* ... and Latin Extended Additional.
LatinAdditional ==
  { For(<<97>>, 7840..7863), For(<<101>>, 7864..7879), For(<<105>>, 7880..7883), For(<<111>>, 7884..7907),
    For(<<117>>, 7908..7921), For(<<121>>, 7922..7929) }

\* correctutf8mistakes: trademarks go, quotation marks and bullets are simple.
Mistakes ==
  { For(<<>>, {174, 8482}), For(<<34>>, 8220..8223 \cup {8243, 8246}), For(<<39>>, 8216..8219 \cup {8242, 8245}),
    For(<<46>>, {8226}) }

\* symbolsToAscii: dashes, arrows and the minus sign are hyphens.
Symbols ==
  { For(<<33>>, {161}), For(<<>>, {176}), For(<<50>>, {178}), For(<<39>>, {180}),
    For(<<45>>, 8210..8213 \cup 8592..8703 \cup {8722}), For(<<46, 46, 46>>, {8230}) }

Rewriting == Latin1 \cup LatinExtendedA \cup LatinAdditional \cup Mistakes \cup Symbols
Rewritten == [c \in UNION {r.chars : r \in Rewriting} |-> (CHOOSE r \in Rewriting : c \in r.chars).letters]

\* utf8tolower of a character: "poor man's lower case".
LowerCase(c) ==
  CASE c \in 65..90 \cup (192..222 \ {215}) -> c + 32
    [] c \in 256..311 \cup 330..382        -> c - (c % 2) + 1
    [] OTHER -> c

\* What c becomes behind the characters that are done.
Marked(done, c) == {t \in Combined : done # <<>> /\ t[1] = Last(done) /\ t[2] = c}
LoweredWith(done, c) ==
  IF Marked(done, c) # {} THEN Append(Front(done), (CHOOSE t \in Marked(done, c) : TRUE)[3])
  ELSE done \o (IF c \in DOMAIN Rewritten THEN Rewritten[c] ELSE <<LowerCase(c)>>)

\* Mutant: only the letters of ASCII are lowered.
LoweredAscii(text) ==
  LET done[i \in 0..Len(text)] ==
        IF i = 0 THEN <<>>
        ELSE IF text[i] < 128 \/ text[i] \in DOMAIN Rewritten \/ Marked(done[i - 1], text[i]) # {}
             THEN LoweredWith(done[i - 1], text[i])
        ELSE Append(done[i - 1], text[i])
  IN  done[Len(text)]

\* utf8tolower of a text, from its beginning to its end, in place.
Lowered(text) ==
  LET done[i \in 0..Len(text)] == IF i = 0 THEN <<>> ELSE LoweredWith(done[i - 1], text[i])
  IN  done[Len(text)]
=============================================================================
