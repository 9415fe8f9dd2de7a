----------------------------- MODULE Tokenizer -----------------------------
(***************************************************************************)
(* Tokenizer (tokenizer.cpp): names and texts become words, and the words  *)
(* of a text become the combinations that are looked up.  A line is a      *)
(* sequence of characters and so is a word; a text is a sequence of lines. *)
(***************************************************************************)
EXTENDS Utf8, FiniteSets

CONSTANTS
  StopWords,     \* the lines of the stop word file
  Blacklisted    \* blacklistedSingleWords

Blank == 32
Hash  == 35
Gaps  == {Blank, 63, 33, 34, 39, Hash, 37, 42, 38, 40, 41, 61, 44, 59, 46, 95, 10, 13, 9, 47}
Letters     == 97..122
Digits      == 48..57
Punctuation == 33..47 \cup 58..64 \cup 91..96 \cup 123..126

\* All characters but those of two bytes that do not begin with 0xc3, and
\* longer ones.
Supported == 0..127 \cup 192..255

\* The order of std::string::compare; that of bytes is that of characters.
Before(u, v) ==
  \/ IsStrictPrefix(u, v)
  \/ \E i \in 1..Len(u) : /\ i <= Len(v) /\ u[i] < v[i]
                          /\ SubSeq(u, 1, i - 1) = SubSeq(v, 1, i - 1)

ASSUME TextAssumption == \A i \in 1..(Len(StopWords) - 1) : Before(StopWords[i], StopWords[i + 1])

\* The entries of a sequence that are in a set, in their order (the provers
\* have no facts on SelectSeq).
Within(seq, S) ==
  LET taken[i \in 0..Len(seq)] ==
        IF i = 0 THEN <<>> ELSE IF seq[i] \in S THEN Append(taken[i - 1], seq[i]) ELSE taken[i - 1]
  IN  taken[Len(seq)]

\* Whether a sequence has another one in it.
Occurs(b, a) == \E i \in 0..(Len(a) - Len(b)) : SubSeq(a, i + 1, i + Len(b)) = b

\* Sequences of characters between gaps.
Ended(read) == IF read.last = <<>> THEN read ELSE [words |-> Append(read.words, read.last), last |-> <<>>]
Split(line) ==
  LET read[i \in 0..Len(line)] ==
        IF i = 0 THEN [words |-> <<>>, last |-> <<>>]
        ELSE IF line[i] \in Gaps THEN Ended(read[i - 1])
        ELSE [words |-> read[i - 1].words, last |-> Append(read[i - 1].last, line[i])]
  IN  Ended(read[Len(line)]).words

\* tokenize_input: the words of a line, with duplicates, as the program asks
\* for them.
Tokens(line) == Split(Within(Lowered(line), Supported))

\* Words with blanks in between.
Joined(words) == Tail(FlattenSeq([i \in DOMAIN words |-> <<Blank>> \o words[i]]))

\* is_stopword: binary search between the positions a and b.
IsStopword(word) ==
  LET n == Len(StopWords)
      search[a \in 1..n, b \in 1..n] ==
        LET p == (a + b) \div 2
        IN  IF a + 1 >= b THEN word \in {StopWords[a], StopWords[b]}
            ELSE IF Before(word, StopWords[p]) THEN search[a, p]
            ELSE IF Before(StopWords[p], word) THEN search[p, b]
            ELSE TRUE
  IN  n > 0 /\ search[1, n]

\* read_words
IsComment(line) == line = <<>> \/ line[1] = Hash
ReadWords(text) ==
  LET lines == Within(text, {line \in Range(text) : ~IsComment(line)})
      words == FlattenSeq([i \in DOMAIN lines |-> Tokens(lines[i])])
  IN  Within(words, {w \in Range(words) : ~IsStopword(w) /\ ~(Len(w) = 1 /\ w[1] \in Punctuation)})

-----------------------------------------------------------------------------
(* Word combinations.                                                      *)

\* Single letters and numbers are not looked up.
IsSkipped(w) == \/ Len(w) = 1 /\ w[1] \in Letters
                \/ \A i \in 1..Len(w) : w[i] \in Digits

\* add_grammar_cases: a word, and what it may be the definite form or the
\* genitive of.  The lengths are in bytes.
ShortWord == 4
DoubleLetterEndings == { <<229, 114, 101, 116>>, <<229, 114, 101, 110>> }
Forms(w) ==
  LET n == Len(w)
  IN  {w} \cup (IF ByteLength(w) <= ShortWord THEN {}
                ELSE IF w[n] \in {110, 116} /\ w[n - 1] \in {97, 101}
                THEN {SubSeq(w, 1, n - 2)} \cup (IF w \in DoubleLetterEndings THEN {} ELSE {SubSeq(w, 1, n - 1)})
                ELSE IF w[n] = 115 THEN {SubSeq(w, 1, n - 1)} ELSE {})

\* generate_word_combinations: neighbouring words, the last one in all forms.
Combinations(words, maxWords, minWords) ==
  LET list == Within(words, {w \in Range(words) : ~IsSkipped(w)})
      n    == Len(list)
      Sizes == Max({1, minWords})..Max({1, Min({maxWords, n})})
      From(i, s) == {Joined(Append(SubSeq(list, i, i + s - 2), form)) :
                       form \in {f \in Forms(list[i + s - 1]) : s > 1 \/ f \notin Blacklisted}}
  IN  UNION {UNION {From(i, s) : i \in 1..(n - s + 1)} : s \in Sizes}
=============================================================================
