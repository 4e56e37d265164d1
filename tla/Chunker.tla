------------------------------ MODULE Chunker ------------------------------
(***************************************************************************)
(* How a file is cut into the chunks that are embedded: the Chunker of     *)
(* processing/chunker.py.  A code file gives one chunk per function and    *)
(* one per run of lines outside functions, a text file is cut at headings, *)
(* keys or blank lines; what is too long is cut again, at control-flow     *)
(* boundaries, paragraphs, lines and, at last, tokens.  The indexer passes *)
(* every chunk through ensure_chunk_fits before it is embedded.            *)
(*                                                                         *)
(* A text is a sequence of tokens: <<l, k>> is the k-th token of line l of *)
(* the file and Newline the break between two lines, counted as one token. *)
(* The wording is left out: a line is the number of its tokens and whether *)
(* it opens a block (a control-flow keyword, a heading, a top-level key).  *)
(***************************************************************************)
EXTENDS Naturals, Sequences, FiniteSets, SequencesExt

CONSTANTS
  MaxTokens,   \* the limit of the embedding model
  Sizes,       \* the lengths a line can have, in tokens
  MaxLines,    \* the longest file
  Outlines     \* what the symbol extractor can report of a code file

ASSUME ChunkerAssumption == MaxTokens \in Nat \ {0, 1} /\ <<>> \notin Outlines

VARIABLES
  file,        \* the file: its type, its lines and its symbols
  chunks,      \* what chunk_code or chunk_text returned
  fitted,      \* the same chunks after ensure_chunk_fits
  chunking     \* how far the file has come: "read", "chunked" or "fitted"

chunkVars == <<file, chunks, fitted, chunking>>

Newline == <<0, 0>>
TextTypes == {"markdown", "yaml", "json", "text"}
SafeTokens == (95 * MaxTokens) \div 100

FileLines == UNION {[1..n -> {s \in [size : Sizes, opens : BOOLEAN] : s.size = 0 => ~s.opens}]
                    : n \in 1..MaxLines}

\* The symbols of a file lie inside it; a code file in which none was found is
\* chunked as text.
Files == {f \in [type : TextTypes, lines : FileLines, symbols : {<<>>}]
               \cup [type : {"code"}, lines : FileLines, symbols : Outlines] :
            \A i \in DOMAIN f.symbols : f.symbols[i].last <= Len(f.lines)}

(***************************************************************************)
(* Texts: lines joined by newlines, and cut again.                         *)
(***************************************************************************)
LineText(l) == [k \in 1..file.lines[l].size |-> <<l, k>>]
Join(texts, gap) == FoldLeft(LAMBDA joined, t : joined \o gap \o t, Head(texts), Tail(texts))
JoinLines(texts) == Join(texts, <<Newline>>)
LinesOf(text) ==
  FoldLeft(LAMBDA cut, token :
             IF token = Newline THEN Append(cut, <<>>)
             ELSE [cut EXCEPT ![Len(cut)] = Append(@, token)],
           <<<<>>>>, text)
Slice(first, last) == JoinLines([i \in 1..(last - first + 1) |-> LineText(first + i - 1)])
Words(text) == ToSet(text) \ {Newline}
OpensBlock(line) == line # <<>> /\ file.lines[Head(line)[1]].opens

\* content.split("\n\n"): an empty line ends a paragraph unless it is the
\* first or the last line of what is left.
ParagraphsOf(text) ==
  LET lines == LinesOf(text)
      Step(cut, i) ==
        IF lines[i] = <<>> /\ i > cut.first /\ i < Len(lines)
        THEN [done |-> Append(cut.done, JoinLines(SubSeq(lines, cut.first, i - 1))), first |-> i + 1]
        ELSE cut
      cut == FoldLeftDomain(Step, [done |-> <<>>, first |-> 1], lines)
  IN  Append(cut.done, JoinLines(SubSeq(lines, cut.first, Len(lines))))

\* A chunk: its text, the lines it says it covers, the symbols it defines.
NewChunk(text, first, last, defines) ==
  [text |-> text, first |-> first, last |-> last, defines |-> defines]

(***************************************************************************)
(* Cutting what is too long.                                               *)
(***************************************************************************)
SplitTextByTokens(text) ==
  IF Len(text) <= MaxTokens THEN <<text>>
  ELSE [p \in 1..((Len(text) + SafeTokens - 1) \div SafeTokens) |->
          SubSeq(text, (p - 1) * SafeTokens + 1,
                 IF p * SafeTokens < Len(text) THEN p * SafeTokens ELSE Len(text))]

\* Lines are packed up to the safe limit; a line beyond the limit closes the
\* chunk at hand and is cut by tokens.  The chunk that begins with the first
\* line defines the symbol.
PackLines(text, base, symbol) ==
  LET lines == LinesOf(text)
      Close(acc) ==
        IF acc.held = <<>> THEN acc.done
        ELSE Append(acc.done,
               NewChunk(JoinLines(acc.held), base + acc.start, base + acc.start + Len(acc.held) - 1,
                        IF acc.start = 0 THEN symbol ELSE {}))
      Parts(i) == LET parts == SplitTextByTokens(lines[i])
                  IN  [p \in DOMAIN parts |-> NewChunk(parts[p], base + i - 1, base + i - 1, {})]
      Step(acc, i) ==
        IF Len(lines[i]) > MaxTokens
        THEN [done |-> Close(acc) \o Parts(i), held |-> <<>>, start |-> i]
        ELSE IF Len(JoinLines(Append(acc.held, lines[i]))) <= SafeTokens
        THEN [acc EXCEPT !.held = Append(@, lines[i])]
        ELSE [done |-> Close(acc), held |-> <<lines[i]>>, start |-> i - 1]
  IN  Close(FoldLeftDomain(Step, [done |-> <<>>, held |-> <<>>, start |-> 0], lines))

\* Mutant: the chunk at hand is not saved after the last line.
SplitByLinesOpen(text) == Front(PackLines(text, 1, {}))
SplitByLines(text) == PackLines(text, 1, {})
SplitFunctionByLines(text, s) == PackLines(text, s.first, {s})

\* Segments between control-flow lines are packed up to the safe limit; a
\* segment that is too long by itself stays whole.
SplitLargeFunction(text, s) ==
  LET lines == LinesOf(text)
      points == SetToSortSeq({1} \cup {i \in 2..Len(lines) : OpensBlock(lines[i])}, <)
      ends == Append(Tail(points), Len(lines) + 1)
      Close(acc) ==
        IF acc.held = <<>> THEN acc.done
        ELSE Append(acc.done,
               NewChunk(JoinLines(acc.held), s.first + acc.start - 1,
                        s.first + acc.start + Len(acc.held) - 2,
                        IF acc.start = 1 THEN {s} ELSE {}))
      Step(acc, p) ==
        LET segment == SubSeq(lines, points[p], ends[p] - 1) IN
        IF Len(JoinLines(acc.held \o segment)) <= SafeTokens
        THEN [acc EXCEPT !.held = @ \o segment]
        ELSE [done |-> Close(acc), held |-> segment, start |-> points[p]]
  IN  IF Len(points) = 1 THEN SplitFunctionByLines(text, s)
      ELSE Close(FoldLeftDomain(Step, [done |-> <<>>, held |-> <<>>, start |-> 1], points))

\* Paragraphs are packed by the sum of their tokens, the blank lines between
\* them not counted; a paragraph that is too long by itself stays whole.
SplitByParagraphs(text, base) ==
  LET paragraphs == ParagraphsOf(text)
      Close(acc) == Append(acc.done, NewChunk(Join(acc.held, <<Newline, Newline>>),
                                              acc.start + 1, acc.line, {}))
      Add(acc, p) ==
        IF acc.tokens + Len(p) <= MaxTokens
        THEN [acc EXCEPT !.held = Append(@, p), !.tokens = @ + Len(p)]
        ELSE [acc EXCEPT !.done = IF acc.held = <<>> THEN @ ELSE Close(acc),
                         !.held = <<p>>, !.tokens = Len(p), !.start = acc.line]
      Step(acc, p) == [Add(acc, p) EXCEPT !.line = @ + Len(LinesOf(p)) + 1]
  IN  Close(FoldLeft(Step, [done |-> <<>>, held |-> <<>>, tokens |-> 0, start |-> base, line |-> base],
                     paragraphs))

(***************************************************************************)
(* chunk_code: the functions, then the lines outside them, by first line.  *)
(***************************************************************************)
Functions == SelectSeq(file.symbols, LAMBDA s : s.kind = "method" \/ (s.kind = "function" /\ ~s.inner))

FunctionChunks(s) ==
  LET text == Slice(s.first, s.last) IN
  IF Len(text) <= MaxTokens THEN <<NewChunk(text, s.first, s.last, {s})>>
  ELSE SplitLargeFunction(text, s)

Uncovered ==
  LET n == Len(file.lines)
      covered == UNION {s.first .. s.last : s \in ToSet(Functions)}
  IN  {r \in (1..n) \X (1..n) :
         /\ r[1] <= r[2]
         /\ (r[1] .. r[2]) \cap covered = {}
         /\ r[1] = 1 \/ r[1] - 1 \in covered
         /\ r[2] = n \/ r[2] + 1 \in covered}

RangeChunks(r) ==
  LET text == Slice(r[1], r[2])
      shifted(c) == [c EXCEPT !.first = @ + r[1] - 1, !.last = @ + r[1] - 1]
      parts == SplitByLines(text)
  IN  IF Words(text) = {} THEN <<>>
      ELSE IF Len(text) <= MaxTokens THEN <<NewChunk(text, r[1], r[2], {})>>
      ELSE [i \in DOMAIN parts |-> shifted(parts[i])]

InFileOrder(cs) ==
  FoldLeft(LAMBDA sorted, c :
             LET before == SelectSeq(sorted, LAMBDA d : d.first <= c.first)
             IN  before \o <<c>> \o SubSeq(sorted, Len(before) + 1, Len(sorted)),
           <<>>, cs)

ChunkCode ==
  LET ranges == SetToSortSeq(Uncovered, LAMBDA a, b : a[1] < b[1])
  IN  InFileOrder(FlattenSeq([i \in DOMAIN Functions |-> FunctionChunks(Functions[i])])
                  \o FlattenSeq([i \in DOMAIN ranges |-> RangeChunks(ranges[i])]))

(***************************************************************************)
(* chunk_text: headings, keys, the whole file or paragraphs.               *)
(***************************************************************************)
Sections ==
  LET starts == SetToSortSeq({1} \cup {l \in 2..Len(file.lines) : file.lines[l].opens}, <)
  IN  [i \in DOMAIN starts |->
         <<starts[i], IF i = Len(starts) THEN Len(file.lines) ELSE starts[i + 1] - 1>>]

ChunkMarkdown ==
  LET Cut(r) ==
        LET text == Slice(r[1], r[2]) IN
        IF Words(text) = {} THEN <<>>
        ELSE IF Len(text) <= MaxTokens THEN <<NewChunk(text, r[1], r[2], {})>>
        ELSE SplitByParagraphs(text, r[1] - 1)
  IN  FlattenSeq([i \in DOMAIN Sections |-> Cut(Sections[i])])

ChunkYaml ==
  LET kept == SelectSeq(Sections, LAMBDA r : Words(Slice(r[1], r[2])) # {})
  IN  [i \in DOMAIN kept |-> NewChunk(Slice(kept[i][1], kept[i][2]), kept[i][1], kept[i][2], {})]

ChunkJson ==
  LET text == Slice(1, Len(file.lines)) IN
  IF Len(text) <= MaxTokens THEN <<NewChunk(text, 1, Len(file.lines), {})>>
  ELSE SplitByLines(text)

ChunkParagraphs ==
  LET Step(acc, p) ==
        [done |-> IF Words(p) = {} THEN acc.done
                  ELSE Append(acc.done, NewChunk(p, acc.line, acc.line + Len(LinesOf(p)) - 1, {})),
         line |-> acc.line + Len(LinesOf(p)) + 1]
  IN  FoldLeft(Step, [done |-> <<>>, line |-> 1], ParagraphsOf(Slice(1, Len(file.lines)))).done

ChunkText ==
  CASE file.type = "markdown" -> ChunkMarkdown
    [] file.type = "yaml" -> ChunkYaml
    [] file.type = "json" -> ChunkJson
    [] file.type = "text" -> ChunkParagraphs

(***************************************************************************)
(* ensure_chunk_fits: cut again, then by tokens; the parts of a code chunk *)
(* keep the line numbers SplitByLines gives them, counted from its first   *)
(* line.  Only the first part keeps the symbols the chunk defines.         *)
(***************************************************************************)
EnsureChunkFits(c) ==
  LET subs == IF file.type \in TextTypes THEN SplitByParagraphs(c.text, c.first - 1)
              ELSE SplitByLines(c.text)
      ByTokens(s) == LET parts == SplitTextByTokens(s.text)
                     IN  [p \in DOMAIN parts |-> NewChunk(parts[p], s.first, s.last, {})]
      final == FlattenSeq([i \in DOMAIN subs |->
                 IF Len(subs[i].text) <= SafeTokens THEN <<subs[i]>> ELSE ByTokens(subs[i])])
  IN  IF Len(c.text) <= SafeTokens THEN <<c>>
      ELSE [i \in DOMAIN final |-> [final[i] EXCEPT !.defines = IF i = 1 THEN c.defines ELSE {}]]

(***************************************************************************)
(* The file is read, chunked, and its chunks are made to fit.              *)
(***************************************************************************)
ChunkerInit == file \in Files /\ chunks = <<>> /\ fitted = <<>> /\ chunking = "read"

ChunkFile ==
  /\ chunking = "read"
  /\ chunks' = IF file.type = "code" THEN ChunkCode ELSE ChunkText
  /\ chunking' = "chunked"
  /\ UNCHANGED <<file, fitted>>

FitChunks ==
  /\ chunking = "chunked"
  /\ fitted' = FlattenSeq([i \in DOMAIN chunks |-> EnsureChunkFits(chunks[i])])
  /\ chunking' = "fitted"
  /\ UNCHANGED <<file, chunks>>

ChunkerNext == ChunkFile \/ FitChunks

-----------------------------------------------------------------------------
AllWords == UNION {{l} \X (1..file.lines[l].size) : l \in DOMAIN file.lines}
TimesIn(cs, w) == Cardinality({i \in DOMAIN cs : w \in Words(cs[i].text)})
Disjoint == \A i, j \in DOMAIN Functions :
              i # j => (Functions[i].first .. Functions[i].last)
                         \cap (Functions[j].first .. Functions[j].last) = {}

\* Whatever way a file is cut, every word of it is embedded, and none is
\* embedded twice unless functions nest.
NothingLostInChunks ==
  /\ chunking # "read" => \A w \in AllWords :
       TimesIn(chunks, w) >= 1 /\ (Disjoint => TimesIn(chunks, w) = 1)
  /\ chunking = "fitted" => \A w \in AllWords : TimesIn(fitted, w) = TimesIn(chunks, w)

\* No text beyond the model's limit reaches the embedder: after
\* ensure_chunk_fits every part is within MaxTokens, however it was cut.
PartsFit == \A i \in DOMAIN fitted : Len(fitted[i].text) <= MaxTokens

\* A chunk says which lines it holds: every word of it lies in them, also after
\* text is cut again (the parts of a code chunk number their lines anew).
ChunksNameTheirLines ==
  \A cs \in {chunks, IF file.type \in TextTypes THEN fitted ELSE <<>>} :
    \A i \in DOMAIN cs : \A w \in Words(cs[i].text) : cs[i].first <= w[1] /\ w[1] <= cs[i].last

\* A function that was cut keeps one chunk that defines it, the one with its
\* first words, unless its first line alone is beyond the limit.
OneDefinition ==
  chunking = "fitted" =>
    \A s \in ToSet(Functions) :
      LET defining == {i \in DOMAIN fitted : s \in fitted[i].defines} IN
      \/ file.lines[s.first].size > MaxTokens
      \/ /\ Cardinality(defining) = 1
         /\ file.lines[s.first].size > 0 =>
              \A i \in defining : <<s.first, 1>> \in Words(fitted[i].text)

ChunkerTypeOK ==
  /\ file \in Files
  /\ chunking \in {"read", "chunked", "fitted"}
  /\ \A cs \in {chunks, fitted} : \A i \in DOMAIN cs :
       /\ ToSet(cs[i].text) \subseteq AllWords \cup {Newline}
       /\ cs[i].first \in 1..MaxLines /\ cs[i].last \in Nat
       /\ cs[i].defines \subseteq ToSet(file.symbols)

\* What becomes of a file: no word is lost, what is embedded fits, lines and definitions are kept.
ChunkerInv == ChunkerTypeOK /\ NothingLostInChunks /\ PartsFit /\ ChunksNameTheirLines /\ OneDefinition

=============================================================================
