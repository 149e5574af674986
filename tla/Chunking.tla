------------------------------ MODULE Chunking ------------------------------
(***************************************************************************)
(* The chunkers of retrieval/ingestion.py: how a document is cut into the  *)
(* pieces a vector store indexes.                                          *)
(*                                                                         *)
(*   _split_words         a text cut at spaces, with overlap               *)
(*   _sections            a Markdown document cut at its headings          *)
(*   _blocks .. _chunk    the blocks of a section packed into chunks       *)
(*                                                                         *)
(* A text is its length and the places of its spaces; a line is its kind   *)
(* or its length.  Each loop of the code is an action here; the packing,   *)
(* which has no choice in it, is a fold.                                   *)
(***************************************************************************)
EXTENDS Integers, SequencesExt

CONSTANTS
  TextLength,    \* texts of 0..TextLength-1
  WordSize,      \* chunk_size of the text chunker
  WordOverlap,   \* the overlaps tried
  LineKinds,     \* kinds of lines: "h1", "h2", "text", "item", "blank", "fence", "rule"
  MaxLines,      \* bound: lines of a document
  BlockChoices,  \* the sections to pack: sequences of blocks
  ChunkSize,     \* chunk_size of the Markdown chunker
  ChunkOverlap,
  PathLengths    \* the lengths a heading path may have; 0 is none

ASSUME ChunkConstants ==
  /\ WordSize > 1 /\ WordOverlap \subseteq 0..(WordSize - 1)
  /\ ChunkOverlap \in 0..(ChunkSize - 1)

VARIABLES
  wording,    \* the text being cut: spaces, overlap, start, the pieces so far, done
  paper,      \* the lines of the document being read
  outline,    \* what _sections has made of them
  packing     \* the section packed, and its chunks

chunkVars == <<wording, paper, outline, packing>>

-----------------------------------------------------------------------------
(* _split_words: positions start..end-1 of the text.                       *)

HardEnd(start) == Min({TextLength, start + WordSize})

\* The last space in the second half of the piece, when there is text after the piece.
SpacesIn(spaces, start) ==
  {i \in spaces : start + (WordSize \div 2) <= i /\ i < HardEnd(start) /\ i > start}

CutAt(spaces, start) ==
  IF HardEnd(start) < TextLength /\ SpacesIn(spaces, start) # {}
  THEN Max(SpacesIn(spaces, start)) ELSE HardEnd(start)

NextStart(start, end, overlap) == Max({start + 1, end - overlap})

SplitWords ==
  LET end == CutAt(wording.spaces, wording.start)
      piece == {i \in wording.start..(end - 1) : i \notin wording.spaces}
  IN /\ ~wording.done
     /\ wording' = [wording EXCEPT
          !.pieces = IF piece = {} THEN @ ELSE Append(@, [from |-> Min(piece), to |-> Max(piece)]),
          !.start = NextStart(wording.start, end, wording.overlap),
          !.done = end >= TextLength \/ NextStart(wording.start, end, wording.overlap) >= TextLength]
     /\ UNCHANGED <<paper, outline, packing>>

-----------------------------------------------------------------------------
(* _sections: one line at a time.                                          *)

LevelOf(kind) == IF kind = "h1" THEN 1 ELSE 2

\* A section keeps the lines it has by their numbers, its heading's and those of its path.
TopSection == [heading |-> 0, path |-> <<>>, level |-> 0, lines |-> <<>>]

\* A fence that becomes a heading has nothing but markup in it, and so no title.
Titled(number) == paper[number] # "fence"

\* The headings that a new one of this level leaves open: those before the first that is not
\* higher. The levels of the stack increase.
Enclosing(stack, level) == SelectSeq(stack, LAMBDA h : h.level < level)

\* The path of a new section is its heading under the headings still open, those with a title.
StartSection(o, number, level) ==
  LET stack == Append(Enclosing(o.stack, level), [line |-> number, level |-> level]) IN
  [o EXCEPT !.stack = stack,
            !.sections = Append(@, [heading |-> number, level |-> level, lines |-> <<>>,
                                    path |-> SelectSeq(stack, LAMBDA h : Titled(h.line))])]

KeepLine(o, number) == [o EXCEPT !.sections[Len(o.sections)].lines = Append(@, number)]

\* A rule under a line that stands alone makes that line a heading unless it is blank or begins
\* as an item, a quote or a table row does: another rule, or the end of a fenced block, is taken.
Underlines(o) ==
  LET lines == o.sections[Len(o.sections)].lines IN
  /\ lines # <<>>
  /\ paper[Last(lines)] \notin {"blank", "item"}
  /\ Len(lines) < 2 \/ paper[lines[Len(lines) - 1]] = "blank"

DropLine(o) == [o EXCEPT !.sections[Len(o.sections)].lines = Front(@)]

ReadLine ==
  LET n == outline.read + 1
      o == [outline EXCEPT !.read = n]
  IN /\ outline.read < Len(paper)
     /\ outline' =
          IF outline.fenced
          THEN [KeepLine(o, n) EXCEPT !.fenced = paper[n] # "fence"]
          ELSE CASE paper[n] = "fence" -> [KeepLine(o, n) EXCEPT !.fenced = TRUE]
                 [] paper[n] \in {"h1", "h2"} -> StartSection(o, n, LevelOf(paper[n]))
                 [] paper[n] = "rule" /\ Underlines(outline) ->
                      StartSection(DropLine(o), n - 1, LevelOf("h2"))
                 [] OTHER -> KeepLine(o, n)
     /\ UNCHANGED <<wording, paper, packing>>

\* A section is kept when it has text, or is a heading that no subsection carries in its path.
KeptSection(sections, i) ==
  LET leaf == sections[i].level > 0 /\ (i = Len(sections) \/ sections[i + 1].level <= sections[i].level)
  IN leaf \/ \E j \in DOMAIN sections[i].lines : paper[sections[i].lines[j]] # "blank"

-----------------------------------------------------------------------------
(* _fit, _lines and _pack: a line is [id, len], a piece [size, ids].       *)

Joined(size, gap, more) == IF size = 0 THEN more ELSE size + gap + more

\* A line longer than the budget, cut into pieces that overlap (no spaces in it).
CutLine(line, budget) ==
  LET step == budget - Min({ChunkOverlap, budget \div 2})
      count == 1 + ((line.len - budget + step - 1) \div step)
  IN [i \in 1..count |-> [size |-> IF i < count THEN budget ELSE line.len - (count - 1) * step,
                          ids |-> <<line.id>>]]

Closed(acc) == IF acc.piece.ids = <<>> THEN acc.pieces ELSE Append(acc.pieces, acc.piece)
EmptyPiece == [size |-> 0, ids |-> <<>>]

\* One line more: in the current piece when it fits, else in a new one.
AddLine(acc, line, budget) ==
  IF line.len > budget
  THEN [pieces |-> Closed(acc) \o CutLine(line, budget), piece |-> EmptyPiece]
  ELSE IF Joined(acc.piece.size, 1, line.len) <= budget
  THEN [acc EXCEPT !.piece = [size |-> Joined(acc.piece.size, 1, line.len),
                              ids |-> Append(acc.piece.ids, line.id)]]
  ELSE [pieces |-> Closed(acc), piece |-> [size |-> line.len, ids |-> <<line.id>>]]

LinesIn(lines, budget) ==
  Closed(FoldLeft(LAMBDA acc, line : AddLine(acc, line, budget),
                  [pieces |-> <<>>, piece |-> EmptyPiece], lines))

TextSize(lines) == FoldLeft(LAMBDA size, line : Joined(size, 1, line.len), 0, lines)
Grown(pieces, extra) == [i \in DOMAIN pieces |-> [pieces[i] EXCEPT !.size = @ + extra]]

\* A block whole when it fits; a fence, closed or not, is opened and closed in each piece, a table repeats
\* its two header lines, unless they would take most of the room.
FitBlock(block, budget) ==
  LET lines == block.lines
      body == IF block.kind = "fence" THEN SubSeq(lines, 2, Len(lines) - 1) ELSE Tail(lines)
      closing == IF block.kind = "fence" THEN Last(lines).len ELSE lines[1].len
      fence == lines[1].len + closing + 2
      header == lines[1].len + 1 + lines[2].len
  IN IF TextSize(lines) <= budget THEN <<[size |-> TextSize(lines), ids |-> [i \in DOMAIN lines |-> lines[i].id]]>>
     ELSE IF block.kind \in {"fence", "unclosed"} /\ Len(lines) > 1 /\ budget - fence >= budget \div 4
     THEN Grown(LinesIn(body, budget - fence), fence)
     ELSE IF block.kind = "table" /\ Len(lines) > 2 /\ header < budget \div 2
     THEN Grown(LinesIn(SubSeq(lines, 3, Len(lines)), budget - header - 1), header + 1)
     ELSE LinesIn(lines, budget)

\* Parts are put together, two characters apart, while they fit.
AddPart(acc, part, budget) ==
  IF Joined(acc.piece.size, 2, part.size) <= budget
  THEN [acc EXCEPT !.piece = [size |-> Joined(acc.piece.size, 2, part.size), ids |-> acc.piece.ids \o part.ids]]
  ELSE [pieces |-> Closed(acc), piece |-> part]

PackBlocks(blocks, budget) ==
  LET parts == FlattenSeq([i \in DOMAIN blocks |-> FitBlock(blocks[i], budget)]) IN
  Closed(FoldLeft(LAMBDA acc, part : AddPart(acc, part, budget),
                  [pieces |-> <<>>, piece |-> EmptyPiece], parts))

\* The heading path, shortened to a quarter of the chunk, and the blank line after it.
PrefixSize(path) == IF path = 0 THEN 0 ELSE Min({path, ChunkSize \div 4}) + 2

\* A heading without a text is kept as its path.
ChunksOf(blocks, path) ==
  IF blocks = <<>> THEN <<[size |-> PrefixSize(path) - 2, ids |-> <<>>]>>
  ELSE Grown(PackBlocks(blocks, ChunkSize - PrefixSize(path)), PrefixSize(path))

PackSection ==
  /\ packing.chunks = <<>>
  /\ packing' = [packing EXCEPT !.chunks = ChunksOf(packing.blocks, packing.path)]
  /\ UNCHANGED <<wording, paper, outline>>

-----------------------------------------------------------------------------
\* Every text, every document and every section to pack within the bounds, one kind of input at a
\* time.
NoWording == [spaces |-> {}, overlap |-> 0, start |-> 0, pieces |-> <<>>, done |-> TRUE]
NoOutline == [read |-> 0, fenced |-> FALSE, stack |-> <<>>, sections |-> <<TopSection>>]
NoPacking == [blocks |-> <<>>, path |-> 0, chunks |-> <<EmptyPiece>>]

ChunkInit ==
  /\ outline = NoOutline
  /\ \/ /\ \E spaces \in SUBSET (0..(TextLength - 1)), overlap \in WordOverlap :
             wording = [NoWording EXCEPT !.spaces = spaces, !.overlap = overlap, !.done = FALSE]
        /\ paper = <<>> /\ packing = NoPacking
     \/ /\ paper \in UNION {[1..n -> LineKinds] : n \in 1..MaxLines}
        /\ wording = NoWording /\ packing = NoPacking
     \/ /\ \E blocks \in BlockChoices, path \in PathLengths :
             /\ blocks = <<>> => path # 0
             /\ packing = [blocks |-> blocks, path |-> path, chunks |-> <<>>]
        /\ paper = <<>> /\ wording = NoWording

ChunkNext == SplitWords \/ ReadLine \/ PackSection

-----------------------------------------------------------------------------
\* The types of the three cutters.
ChunkTypeOK ==
  /\ wording.start \in 0..(TextLength + 1) /\ wording.done \in BOOLEAN
  /\ outline.read \in 0..Len(paper) /\ outline.fenced \in BOOLEAN
  /\ \A i \in DOMAIN outline.sections : outline.sections[i].level \in 0..2
  /\ \A i \in DOMAIN packing.chunks : packing.chunks[i].size \in Nat

\* Cutting a text loses no character but spaces, and no piece is longer than the chunk size,
\* wherever the spaces are and however large the overlap (_split_words).
WordsCovered ==
  /\ \A i \in DOMAIN wording.pieces : wording.pieces[i].to - wording.pieces[i].from < WordSize
  /\ wording.done /\ wording # NoWording =>
       \A i \in (0..(TextLength - 1)) \ wording.spaces :
         \E j \in DOMAIN wording.pieces : wording.pieces[j].from <= i /\ i <= wording.pieces[j].to

\* A line inside a fenced block, and the heading a section begins with.
Fenced(n) == Cardinality({i \in 1..(n - 1) : paper[i] = "fence"}) % 2 = 1
HeadingLines == {outline.sections[i].heading : i \in 2..Len(outline.sections)}
HeadingLevel(n) == LevelOf(paper[n])

\* The sections of a document are its # headings outside fenced blocks and lines above a rule
\* outside them, and a section's path names exactly the headings that enclose it: those with a
\* title and with no heading of the same or a higher level between them and the section's own. A
\* section that is dropped has no text, and its heading is in the path of the next one (_sections).
PathsEnclose ==
  outline.read = Len(paper) =>
    /\ {n \in HeadingLines : paper[n] \in {"h1", "h2"}} =
         {n \in DOMAIN paper : paper[n] \in {"h1", "h2"} /\ ~Fenced(n)}
    /\ \A n \in HeadingLines :
         paper[n] \notin {"h1", "h2"} =>
           paper[n] \in {"text", "rule", "fence"} /\ paper[n + 1] = "rule" /\ ~Fenced(n + 1)
    /\ \A i \in 2..Len(outline.sections) :
         LET path == outline.sections[i].path
             own == outline.sections[i].heading
         IN {path[j].line : j \in DOMAIN path} =
              {h \in HeadingLines : /\ h <= own /\ Titled(h)
                                    /\ \A k \in HeadingLines :
                                         h < k /\ k <= own => HeadingLevel(k) > HeadingLevel(h)}
    /\ \A i \in 2..Len(outline.sections) :
         ~KeptSection(outline.sections, i) /\ Titled(outline.sections[i].heading) =>
           \E j \in DOMAIN outline.sections[i + 1].path :
             outline.sections[i + 1].path[j].line = outline.sections[i].heading

\* Packing keeps every line of a section, in order, and no chunk is longer than the chunk size,
\* heading path, repeated fences and repeated table headers included (_chunk, _pack, _fit).
ChunksFit ==
  packing.chunks # <<>> =>
    /\ \A i \in DOMAIN packing.chunks : packing.chunks[i].size <= ChunkSize
    /\ LET told == FlattenSeq([i \in DOMAIN packing.chunks |-> packing.chunks[i].ids])
           body == FlattenSeq([i \in DOMAIN packing.blocks |-> packing.blocks[i].lines])
       IN /\ \A i \in 1..(Len(told) - 1) : told[i] <= told[i + 1]
          /\ \A i \in DOMAIN body : body[i].frame \/ \E j \in DOMAIN told : told[j] = body[i].id

\* Cutting a document loses nothing: every word is in a piece, every section knows its headings and every
\* line is in a chunk of the allowed size.
ChunkSafe == ChunkTypeOK /\ WordsCovered /\ PathsEnclose /\ ChunksFit
=============================================================================
