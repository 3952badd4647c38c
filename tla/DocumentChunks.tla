--------------------------- MODULE DocumentChunks ---------------------------
(***************************************************************************)
(* A document from its pages to its chunks: TextExtraction, then the loop  *)
(* of chunking/chunker.py's build_documents over the elements, each text   *)
(* element through the loop of Chunker.  The two run in two Celery tasks;  *)
(* what travels between them, elements, is stored with the document        *)
(* (IngestionPipeline has the tasks, their failures and their races).      *)
(***************************************************************************)
EXTENDS TextExtraction

CONSTANTS
    MaxParagraphs,   \* bound: paragraphs in an element
    Configs(_)       \* of a document: pairs <<paragraphs_per_chunk, paragraph_overlap>>

ASSUME BoundsOK ==
    /\ MaxParagraphs \in Nat
    /\ \A d \in Documents : Configs(d) \subseteq (Nat \ {0}) \X Nat

VARIABLES
    n, g, o, i, groups, pc,  \* of Chunker, pc also "idle" between elements
    part,                    \* number of the next element
    chunks                   \* the chunks built

chunking == <<n, g, o, i, groups, pc>>
vars     == <<extraction, chunking, part, chunks>>

Loop == INSTANCE Chunker

ChunksInit ==
    /\ Init
    /\ \E c \in Configs(doc) : g = c[1] /\ o = c[2]
    /\ n = 0 /\ i = 0 /\ groups = <<>> /\ pc = "idle"
    /\ part = 1 /\ chunks = <<>>

Extraction == Extract /\ UNCHANGED <<chunking, part, chunks>>

Building == stage = "extracted" /\ pc = "idle" /\ part <= Len(elements)

(* A table or a figure is one chunk.                                       *)
AddAtomic ==
    /\ Building /\ elements[part].kind # "text"
    /\ chunks' = Append(chunks, elements[part])
    /\ part' = part + 1
    /\ UNCHANGED <<extraction, chunking>>

BeginText ==
    /\ Building /\ elements[part].kind = "text"
    /\ n' = Len(elements[part].content) /\ i' = 0 /\ groups' = <<>> /\ pc' = "check"
    /\ UNCHANGED <<extraction, g, o, part, chunks>>

(* The bound on the groups is never met by the code: see GroupsCover.        *)
Grouping == Loop!Next /\ Len(groups) <= MaxParagraphs /\ UNCHANGED <<extraction, part, chunks>>

(* A group is the text of its paragraphs.                                  *)
AddGroups ==
    /\ pc = "done"
    /\ LET text(r) == TextElement(SubSeq(elements[part].content, r.from + 1, r.to))
       IN  chunks' = chunks \o [k \in DOMAIN groups |-> text(groups[k])]
    /\ part' = part + 1 /\ pc' = "idle"
    /\ UNCHANGED <<extraction, n, g, o, i, groups>>

Chunked == stage = "extracted" /\ pc = "idle" /\ part > Len(elements)
Raised  == pc = "raised"

Finished == (Chunked \/ Raised) /\ UNCHANGED vars

Next == Extraction \/ AddAtomic \/ BeginText \/ Grouping \/ AddGroups \/ Finished

Spec == ChunksInit /\ [][Next]_vars

----------------------------------------------------------------------------
(* What the properties speak of.                                           *)

IsTable(c, t) == c.kind = "table" /\ c.content = t

(* A chunk that holds the line: lines of the instance differ in their text *)
(* unless they repeat in a header.                                         *)
In(t, c) == c.kind # "table" /\ \E j \in DOMAIN c.content : \E k \in DOMAIN c.content[j] : c.content[j][k] = t

Native(d) == IsPdf(d) /\ ~NeedsOcr

OnPages(t) == {q \in 1 .. Pages : \E r \in doc.pages[q].runs : r.text = t}

(* At the height of a table that was found on its page.                    *)
BesideTable(r, q) == \E t \in TablesOf(q) : Within(r, t)

(* A page that is laid out from top to bottom.                              *)
OneColumn(q) == ~TwoColumns({r \in doc.pages[q].runs : r.text \notin Skipped})

Occurrences(t) == {p \in (1 .. Pages) \X RunsOf(doc.pages) :
                      p[2] \in doc.pages[p[1]].runs /\ p[2].text = t}

(* The first chunk with the line or table, 0 when there is none.           *)
FirstWith(P(_)) ==
    LET with == {k \in DOMAIN chunks : P(chunks[k])} IN IF with = {} THEN 0 ELSE Lowest(with)
ChunkOfLine(t)  == FirstWith(LAMBDA c : In(t, c))
ChunkOfTable(t) == FirstWith(LAMBDA c : IsTable(c, t))

(* The lines of a chunk, in order; a table counts for none of them.        *)
Lines(c) == IF c.kind = "table" THEN <<>> ELSE FlattenSeq(c.content)

(* The place of a line in the lines of all chunks.                         *)
AllLines == FlattenSeq([k \in DOMAIN chunks |-> Lines(chunks[k])])
PlaceOf(t) == Lowest({k \in DOMAIN AllLines : AllLines[k] = t})

----------------------------------------------------------------------------
(* Properties.                                                             *)

(* The shape of the state.                                                 *)
TypeOK ==
    /\ <<g, o>> \in Configs(doc)
    /\ stage \in {"open", "pages", "body", "extracted"}
    /\ pc \in {"idle", "check", "loop", "done", "raised"}
    /\ n \in Nat /\ i \in 0 .. n
    /\ groups \in Seq([from : 0 .. n, to : 0 .. n])
    /\ part \in 1 .. Len(elements) + 1
    /\ \A k \in DOMAIN elements : elements[k].kind \in {"text", "table", "figure"}
    /\ \A k \in DOMAIN chunks : chunks[k].kind \in {"text", "table", "figure"}

(* No text is lost between the file and the chunks, whatever columns,      *)
(* headers, figures and groups there are (extract to group_paragraphs): a  *)
(* line of a PDF that stands on one page only, or has fewer than 15        *)
(* characters, and is not at the height of a table, is in a chunk, and so  *)
(* is every paragraph of a DOCX.                                           *)
TextChunked ==
    /\ Chunked /\ Native(doc) =>
           \A q \in 1 .. Pages : \A r \in doc.pages[q].runs :
               \/ r.text.kind = "blank"
               \/ r.text.long /\ Cardinality(OnPages(r.text)) > 1
               \/ BesideTable(r, q)
               \/ ChunkOfLine(r.text) # 0
    /\ Chunked /\ ~IsPdf(doc) =>
           \A b \in DOMAIN doc.body :
               doc.body[b].kind = "text" /\ doc.body[b].content.kind # "blank" =>
                   ChunkOfLine(doc.body[b].content) # 0

(* The groups of an element: every paragraph is in one, consecutive groups *)
(* share exactly the configured overlap, all but the last are full, each   *)
(* brings a new paragraph (group_paragraphs).  The loop makes no more of   *)
(* them than there are paragraphs, whatever pair of values is stored: one  *)
(* it could not end for is refused.  That the rest never stops short is    *)
(* TLC's deadlock check.                                                   *)
GroupsCover ==
    /\ Loop!EveryParagraphGrouped /\ Loop!ExactOverlap /\ Loop!NoRedundantGroup
    /\ pc # "idle" => Len(groups) <= n

(* What the two-column layout is for: between two full-width lines every   *)
(* line of the left column is read before every line of the right one, in  *)
(* a column, across full-width lines and on other pages lines are read     *)
(* from top to bottom.  A line is told by its text, so that those which    *)
(* occur twice are left out.                                               *)
ReadingOrder ==
    Chunked /\ Native(doc) =>
        \A q \in 1 .. Pages :
            LET objs == {r \in doc.pages[q].runs : r.text \notin Skipped}
                wide == IF TwoColumns(objs) THEN Spanning(objs) ELSE {}
                left(r) == 2 * r.x1 <= Middle(objs)
                parted(r, s) == \E w \in wide : (r.y <= w.y) # (s.y <= w.y) \/ w \in {r, s}
                before(r, s) == IF TwoColumns(objs) /\ ~parted(r, s) /\ left(r) # left(s) THEN left(r)
                                ELSE Above(r, s)
                told(r) == ChunkOfLine(r.text) # 0 /\ Cardinality(Occurrences(r.text)) = 1
            IN  /\ \A r \in objs, s \in objs :
                       told(r) /\ told(s) /\ r # s /\ before(r, s) => PlaceOf(r.text) < PlaceOf(s.text)
                /\ \A r \in objs : \A next \in (q + 1) .. Pages : \A s \in doc.pages[next].runs :
                       told(r) /\ told(s) => PlaceOf(r.text) < PlaceOf(s.text)

(* The layout furniture the comment of _detect_running_headers_footers     *)
(* speaks of: a long line at the top of every other page is in no chunk.   *)
HeadersGone ==
    Chunked /\ Native(doc) /\ Pages >= 4 =>
        \A t \in Occurring(doc.pages) :
            t.long /\ (\E odd \in 0 .. 1 : \A q \in 1 .. Pages : q % 2 = odd => q \in PagesOf(t, doc.pages))
                => ChunkOfLine(t) = 0

(* Every table found is exactly one chunk, and on a page read in one       *)
(* column the lines above it come before it and those below it after it    *)
(* (_split_page_by_tables), unless the positional split raised.            *)
TablesInPlace ==
    Chunked /\ Native(doc) =>
        \A t \in tables :
            /\ Cardinality({k \in DOMAIN chunks : IsTable(chunks[k], t)}) = 1
            /\ t.page \notin unsplit /\ OneColumn(t.page) =>
                   \A r \in doc.pages[t.page].runs :
                       ChunkOfLine(r.text) # 0 /\ Cardinality(Occurrences(r.text)) = 1 =>
                           /\ r.y < Top(t)    => ChunkOfLine(r.text) < ChunkOfTable(t)
                           /\ r.y > Bottom(t) => ChunkOfLine(r.text) > ChunkOfTable(t)

IsChart(p)   == IsFigureData(p)
IsCaption(p) == p[1].kind = "caption"

(* "A chart's numbers and the caption that explains them travel together   *)
(* through chunking": the numbers of a chart of a native PDF are in no     *)
(* text chunk, and a caption next to them is in their chunk.               *)
ChartsTravelWhole ==
    Native(doc) =>
        \A k \in DOMAIN chunks :
            /\ chunks[k].kind = "text" => \A j \in DOMAIN chunks[k].content : ~IsChart(chunks[k].content[j])
            /\ k > 1 /\ chunks[k].kind # "table" /\ chunks[k - 1].kind # "table" =>
                   LET last  == chunks[k - 1].content[Len(chunks[k - 1].content)]
                       first == chunks[k].content[1]
                   IN  ~(IsChart(last) /\ IsCaption(first)) /\ ~(IsCaption(last) /\ IsChart(first))
=============================================================================
