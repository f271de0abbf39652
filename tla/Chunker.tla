------------------------------ MODULE Chunker ------------------------------
(* How the body of a document becomes its passages: YAP_V2_unicode_chunk of  *)
(* src/src/common/yappo_unicode.c.                                           *)
(*                                                                          *)
(* A text is a sequence of characters of one byte each.  Blank is white      *)
(* space that closes a sentence.  Mark combines with the character before it *)
(* and makes one grapheme with it; it follows no blank.  Wide is a           *)
(* compatibility character, which normalisation replaces by two others.      *)
(* Every grapheme but a blank is a word of its own, as in unspaced scripts.  *)
EXTENDS Integers, Sequences, FiniteSets, FiniteSetsExt, SequencesExt

CONSTANTS
  ChunkMax,       \* chunking.max_chars
  ChunkOverlap    \* chunking.overlap_chars

(* config_validate.                                                          *)
ASSUME ChunkAssumption == ChunkMax \in Nat \ {0} /\ ChunkOverlap \in 0..(ChunkMax - 1)

Blank == 0
Mark == 4
Wide == 5

(* normalize_text: NFKC_Casefold (external); only Wide is not normal.        *)
Normalize(text) ==
  IF Wide \notin Range(text) THEN text
  ELSE FlattenSeq([i \in 1..Len(text) |-> IF text[i] = Wide THEN <<1, 2>> ELSE <<text[i]>>])

(* ICU's grapheme boundaries (external): before every character but a mark,  *)
(* and at the end.                                                           *)
GraphemeEnds(text) == {i \in 1..Len(text) : i = Len(text) \/ text[i + 1] # Mark}

(* unicode_tokenize: the words of a text, numbers that compare like the      *)
(* bytes of the words, which are a character and its marks.                  *)
WordAt(text, i) ==
  IF text[i] \in {Blank, Mark} THEN 0
  ELSE 10 * text[i] + Min({e \in GraphemeEnds(text) : e >= i}) - i

Words(text) ==
  LET n == Normalize(text) IN
  SelectSeq([i \in 1..Len(n) |-> WordAt(n, i)], LAMBDA w : w # 0)

TermBytes(word) == 1 + (word % 10)

(* ICU's sentence boundaries (external): after a blank, and at the end.      *)
SentenceEnds(text) == {i \in 1..Len(text) : text[i] = Blank} \cup {Len(text)}

(* The end of the chunk that begins after the first `start` characters: the  *)
(* last sentence boundary among the graphemes that fit into ChunkMax         *)
(* characters, or all of these; the first grapheme is taken even if it does  *)
(* not fit.                                                                  *)
ChunkEnd(text, start) ==
  LET bounds == {b \in GraphemeEnds(text) : b > start}
      limit == Max({b \in bounds : b - start <= ChunkMax} \cup {Min(bounds)})
      ends == SentenceEnds(text) \cap ((start + 1)..limit)
  IN IF ends = {} THEN limit ELSE Max(ends)

(* Mutant: goes back by the overlap and one more.                            *)
NextStartTooEarly(text, start, end) ==
  LET bounds == GraphemeEnds(text) \cap ((start + 1)..end)
      back == {b \in bounds : end - b > ChunkOverlap}
  IN IF back = {} THEN Min(bounds) ELSE Max(back)

(* Where the next chunk begins: back by whole graphemes until the overlap is *)
(* reached, but past this start.                                             *)
NextStart(text, start, end) ==
  LET bounds == GraphemeEnds(text) \cap ((start + 1)..end)
      back == {b \in bounds : end - b >= ChunkOverlap}
  IN IF back = {} THEN Min(bounds) ELSE Max(back)

(* passage_hash: the document's id, the ordinal and the text make the id.    *)
(* Two passages never collide here; in the code their 64 bits almost never   *)
(* do, and a batch with a collision is refused by validate_segment_views.    *)
LongestChunk == 2 * ChunkMax   \* bound: no grapheme of the model is longer
PassageId(document, ordinal, text) ==
  LET digit(i) == IF i <= Len(text) THEN text[i] + 1 ELSE 0 IN
  FoldLeft(LAMBDA h, i : 6 * h + digit(i), 10 * document + ordinal, [i \in 1..LongestChunk |-> i])

(* Positions count the characters of the normalised text.                    *)
NewChunk(document, text, start, end, ordinal) ==
  LET part == SubSeq(text, start + 1, end) IN
  [id |-> PassageId(document, ordinal, part), text |-> part, ordinal |-> ordinal,
   start |-> start, end |-> end]

(* range_has_non_whitespace.                                                 *)
HasNonWhitespace(text) == \E i \in 1..Len(text) : text[i] # Blank

(* The loop, from `start` on: white space alone makes no chunk.              *)
RECURSIVE ChunksFrom(_, _, _, _)
ChunksFrom(document, text, start, ordinal) ==
  IF start >= Len(text) THEN <<>>
  ELSE LET end == ChunkEnd(text, start) IN
  IF ~HasNonWhitespace(SubSeq(text, start + 1, end))
  THEN ChunksFrom(document, text, end, ordinal)
  ELSE <<NewChunk(document, text, start, end, ordinal)>> \o
       (IF end = Len(text) THEN <<>>
        ELSE ChunksFrom(document, text, NextStart(text, start, end), ordinal + 1))

Chunk(document, body) == ChunksFrom(document, Normalize(body), 0, 0)

(* What a reader of the chunks may rely on: every character of the           *)
(* normalised body but white space is in one; a chunk is the stated part of  *)
(* that text, begins after the one before it began and cuts no grapheme; it  *)
(* is longer than ChunkMax only if it is a single grapheme; it repeats no    *)
(* more of the one before it than the overlap asks for, in whole graphemes.  *)
ChunksSound(chunks, body) ==
  LET text == Normalize(body)
      bounds == {0} \cup GraphemeEnds(text) IN
  /\ \A i \in 1..Len(text) : text[i] # Blank =>
       \E c \in 1..Len(chunks) : chunks[c].start < i /\ i <= chunks[c].end
  /\ \A c \in 1..Len(chunks) : LET this == chunks[c] IN
       /\ this.ordinal = c - 1
       /\ this.text = SubSeq(text, this.start + 1, this.end)
       /\ HasNonWhitespace(this.text)
       /\ {this.start, this.end} \subseteq bounds
       /\ \/ Len(this.text) <= ChunkMax
          \/ bounds \cap ((this.start + 1)..(this.end - 1)) = {}
       /\ c > 1 => /\ chunks[c - 1].start < this.start
                   /\ \A b \in bounds : b > this.start =>
                        chunks[c - 1].end - b < ChunkOverlap
============================================================================
