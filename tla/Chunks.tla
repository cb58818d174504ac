------------------------------- MODULE Chunks -------------------------------
(***************************************************************************)
(* chunking/semantic.chunk_markdown: the chunks ingestion cuts a document  *)
(* into.  A document is the kinds of its lines; blocks, atoms and chunks   *)
(* are sequences of line numbers, so what is lost, repeated or split can   *)
(* be said.  A line is one word, an over-long heading more than a chunk    *)
(* takes.                                                                  *)
(***************************************************************************)
EXTENDS Common, SequencesExt

CONSTANTS
    MaxLines,       \* bound on the document
    MaxWords,       \* max_words
    Overlap         \* sentence_overlap

\* chunk_markdown raises the cap to 1 and the overlap to 0
ASSUME ChunkAssumption == MaxWords \in Nat /\ Overlap \in Nat

VARIABLE document

LineKinds == {"blank", "tick", "ticks", "tilde",    \* ``` ```` ~~~
              "h1", "h2", "h4", "over",             \* headings, and one past MAX_HEADING_WORDS
              "row", "sep",                         \* with a pipe; the separator of a table
              "item", "sub",                        \* list items, flush left and indented
              "text",
              "cont", "itick", "irow", "isep"}      \* indented: text, ```, row, separator

Indented == {"sub", "cont", "itick", "irow", "isep"}
FenceLength == [tick |-> 3, ticks |-> 4, tilde |-> 3, itick |-> 3]
Fences   == DOMAIN FenceLength
Headings == [h1 |-> 1, h2 |-> 2, h4 |-> 4]
Seps     == {"sep", "isep"}
Piped    == {"row", "irow"} \cup Seps
Ends(kind) == kind \in {"text", "over"}         \* with a full stop
LineWords(kind) == CASE kind = "blank" -> 0 [] kind = "over" -> MaxWords + 1 [] OTHER -> 1

-----------------------------------------------------------------------------
(* parse_blocks *)

Closes(open, line) == line \in Fences /\ (open = "tilde" <=> line = "tilde")
                      /\ FenceLength[line] >= FenceLength[open]
Closers(doc, i) == {j \in i + 1..Len(doc) : Closes(doc[i], doc[j])}

\* the last line of the table or the list that begins at i; a list runs on over whatever is
\* indented, a fence included, and ends at a blank line
RunEnd(doc, i, kinds) == Max({j \in i..Len(doc) : \A k \in i + 1..j : doc[k] \in kinds})

Numbers(i, j) == [n \in 1..j - i + 1 |-> i + n - 1]
Block(kind, i, j) == [kind |-> kind, lines |-> Numbers(i, j)]

\* a fence nobody closes is text, as is a table without separator
BlockAt(doc, i) ==
    CASE doc[i] \in Fences /\ Closers(doc, i) # {} -> Block("code", i, Min(Closers(doc, i)))
      [] doc[i] \in DOMAIN Headings -> Block("heading", i, i)
      [] doc[i] \in Piped /\ i < Len(doc) /\ doc[i + 1] \in Seps ->
             Block("table", i, RunEnd(doc, i, Piped))
      [] doc[i] \in {"item", "sub"} -> Block("list", i, RunEnd(doc, i, {"item"} \cup Indented))
      [] OTHER -> Block("paragraph", i, i)

\* lines that are nothing else gather in a paragraph, until a blank line or another block
ParseBlocks(doc) ==
    LET last(blocks) == IF blocks = <<>> THEN 0 ELSE Last(Last(blocks).lines)
        add(blocks, i) ==
            LET block == BlockAt(doc, i)
            IN  IF i <= last(blocks) \/ doc[i] = "blank" THEN blocks
                ELSE IF /\ block.kind = "paragraph" /\ i = last(blocks) + 1
                        /\ blocks # <<>> /\ Last(blocks).kind = "paragraph"
                THEN [blocks EXCEPT ![Len(blocks)].lines = Append(@, i)]
                ELSE Append(blocks, block)
    IN  FoldLeft(add, <<>>, Numbers(1, Len(doc)))

-----------------------------------------------------------------------------
(* _atoms_for_block, _pack_atoms *)

\* the lines, cut before each that begins a piece
Cut(lines, begins) ==
    LET add(acc, l) == IF acc = <<>> \/ l \in begins THEN Append(acc, <<l>>)
                       ELSE [acc EXCEPT ![Len(acc)] = Append(@, l)]
    IN  FoldLeft(add, <<>>, lines)

\* the first line of a list loses its indent: a list indented throughout is a single item
AtomsOf(doc, block) ==
    LET atoms(kind, pieces) == [n \in DOMAIN pieces |-> [kind |-> kind, lines |-> pieces[n]]]
    IN  CASE block.kind \in {"code", "table"} -> atoms("atomic", <<block.lines>>)
          [] block.kind = "list" -> atoms("list_item", Cut(block.lines, {l \in ToSet(block.lines) : doc[l] = "item"}))
          [] block.kind = "heading" -> atoms("line", <<block.lines>>)
          [] OTHER -> atoms("sentence", Cut(block.lines, {l + 1 : l \in {k \in ToSet(block.lines) : Ends(doc[k])}}))

AtomWords(doc, atom) == FoldLeft(LAMBDA n, l : n + LineWords(doc[l]), 0, atom.lines)
WordsIn(doc, atoms) == FoldLeft(LAMBDA n, a : n + AtomWords(doc, a), 0, atoms)

OverlapTail(atoms) ==
    LET starts == {n \in Most(1, Len(atoms) - Overlap + 1)..Len(atoms) + 1 :
                      \A k \in n..Len(atoms) : atoms[k].kind = "sentence"}
    IN  SubSeq(atoms, Min(starts), Len(atoms))

Flushed(acc) == IF acc.current = <<>> THEN acc.chunks ELSE Append(acc.chunks, acc.current)

MutPackAtom(doc, acc, atom) ==      \* what was being packed is not flushed first
    IF AtomWords(doc, atom) > MaxWords THEN [chunks |-> Append(acc.chunks, <<atom>>), current |-> <<>>]
    ELSE IF WordsIn(doc, acc.current) + AtomWords(doc, atom) > MaxWords
    THEN [chunks |-> Append(acc.chunks, acc.current),
          current |-> Append(OverlapTail(acc.current), atom)]
    ELSE [acc EXCEPT !.current = Append(@, atom)]
\* an atom beyond the cap goes alone; one that no longer fits begins a chunk after the overlap
PackAtom(doc, acc, atom) ==
    IF AtomWords(doc, atom) > MaxWords
    THEN [chunks |-> Append(Flushed(acc), <<atom>>), current |-> <<>>]
    ELSE IF acc.current # <<>> /\ WordsIn(doc, acc.current) + AtomWords(doc, atom) > MaxWords
    THEN [chunks |-> Flushed(acc), current |-> Append(OverlapTail(acc.current), atom)]
    ELSE [acc EXCEPT !.current = Append(@, atom)]

PackAtoms(doc, atoms) ==
    Flushed(FoldLeft(LAMBDA acc, a : PackAtom(doc, acc, a),
                     [chunks |-> <<>>, current |-> <<>>], atoms))

-----------------------------------------------------------------------------
(* chunk_markdown *)

IsBoundary(doc, block) == block.kind = "heading" /\ Headings[doc[block.lines[1]]] <= 3

\* the stack of headings: those at its end that are not above this one are popped
MutPathAfter(doc, path, l) ==       \* a heading of the same level stays
    LET above == {i \in DOMAIN path : Headings[doc[path[i]]] <= Headings[doc[l]]}
    IN  Append(SubSeq(path, 1, Max({0} \cup above)), l)
PathAfter(doc, path, l) ==
    LET above == {i \in DOMAIN path : Headings[doc[path[i]]] < Headings[doc[l]]}
    IN  Append(SubSeq(path, 1, Max({0} \cup above)), l)

\* body blocks under their headings
Sections(doc) ==
    LET add(acc, block) ==
            IF IsBoundary(doc, block)
            THEN Append(acc, [path |-> PathAfter(doc, Last(acc).path, block.lines[1]), body |-> <<>>])
            ELSE [acc EXCEPT ![Len(acc)].body = Append(@, block)]
    IN  FoldLeft(add, <<[path |-> <<>>, body |-> <<>>]>>, ParseBlocks(doc))

Under(path, texts) == [n \in DOMAIN texts |-> [path |-> path, atoms |-> texts[n]]]
SectionChunks(doc, path, body) ==
    Under(path, PackAtoms(doc, FlattenSeq([n \in DOMAIN body |-> AtomsOf(doc, body[n])])))
AllChunks(doc, sections) ==
    FlattenSeq([n \in DOMAIN sections |-> SectionChunks(doc, sections[n].path, sections[n].body)])

\* a document of headings alone is packed as one section
ChunkMarkdown(doc) ==
    LET chunks == AllChunks(doc, Sections(doc))
    IN  IF chunks = <<>> THEN SectionChunks(doc, <<>>, ParseBlocks(doc)) ELSE chunks

-----------------------------------------------------------------------------
\* the documents
ChunkInit == document = <<>>
WriteLine(kind) == Len(document) < MaxLines /\ document' = Append(document, kind)
ChunkNext == \E kind \in LineKinds : WriteLine(kind)

-----------------------------------------------------------------------------
(* Properties *)

LinesIn(chunk) == FlattenSeq([n \in DOMAIN chunk.atoms |-> chunk.atoms[n].lines])

InOrder(lines) == \A i, j \in DOMAIN lines : i < j => lines[i] < lines[j]

\* the headings in force at line l, read off the document
Enclosing(doc, boundaries, l) ==
    {h \in boundaries :
        h < l /\ \A k \in boundaries : h < k /\ k < l => Headings[doc[k]] > Headings[doc[h]]}

\* blocks and chunks are a faithful reading of the document
Faithful(doc, blocks, chunks) ==
    LET written == {l \in DOMAIN doc : doc[l] # "blank"}
        boundaries == {blocks[n].lines[1] : n \in {m \in DOMAIN blocks : IsBoundary(doc, blocks[m])}}
        outline == boundaries = written
        shared(n) == IF n = 1 THEN {} ELSE ToSet(chunks[n].atoms) \cap ToSet(chunks[n - 1].atoms)
        parsed == FlattenSeq([n \in DOMAIN blocks |-> blocks[n].lines])
    IN  /\ InOrder(parsed) /\ written \subseteq ToSet(parsed)
        /\ \A l \in IF outline THEN written ELSE written \ boundaries :
              \E n \in DOMAIN chunks :
                 /\ l \in ToSet(LinesIn(chunks[n]))
                 /\ InOrder(chunks[n].path)
                 /\ ToSet(chunks[n].path) = IF outline THEN {} ELSE Enclosing(doc, boundaries, l)
        /\ \A n \in DOMAIN chunks :
              LET lines == LinesIn(chunks[n])
              IN  /\ InOrder(lines)
                  /\ n > 1 => Last(LinesIn(chunks[n - 1])) < Last(lines)
                  /\ Cardinality(shared(n)) <= Overlap
                  /\ \A atom \in shared(n) : atom.kind = "sentence"
                  /\ \/ Len(chunks[n].atoms) = 1
                     \/ WordsIn(doc, chunks[n].atoms)
                            <= MaxWords + SumOf([a \in shared(n) |-> AtomWords(doc, a)], shared(n))
        /\ \A n \in DOMAIN blocks : blocks[n].kind \in {"code", "table"} =>
              \E m \in DOMAIN chunks : ToSet(blocks[n].lines) \subseteq ToSet(LinesIn(chunks[m]))

\* the first fenced block of a document, read off its lines
FirstFenced(doc) ==
    LET fences == {l \in DOMAIN doc : doc[l] \in Fences}
    IN  IF fences = {} THEN {}
        ELSE IF Closers(doc, Min(fences)) = {} THEN {}
        ELSE Min(fences)..Min(Closers(doc, Min(fences)))
MayBeInList(doc, l) == doc[l] \in Indented /\ \E k \in 1..l - 1 : doc[k] \in {"item", "sub"}
InOneChunk(lines, chunks) == \E n \in DOMAIN chunks : lines \subseteq ToSet(LinesIn(chunks[n]))
FenceKept(doc, chunks) ==
    LET fenced == FirstFenced(doc)
    IN  fenced # {} /\ ~MayBeInList(doc, Min(fenced)) => InOneChunk(fenced, chunks)

\* Chunking loses nothing, whatever the lines: each line of a body is in a chunk, in order and
\* under the headings the parser found in force there; code and tables that the parser took
\* for such are in one piece, and so is the first fenced block of the document, by whoever it
\* is read, unless it may be nested in a list; only sentences are repeated, as many as asked
\* for, and only they, or an atom that is too big by itself, take a chunk over its words
\* (semantic.py: "integrity beats the size cap").  A document with any text gives a chunk.
ChunksFaithful ==
    /\ Faithful(document, ParseBlocks(document), ChunkMarkdown(document))
    /\ FenceKept(document, ChunkMarkdown(document))
=============================================================================
