--------------------------- MODULE TextExtraction ---------------------------
(***************************************************************************)
(* ingestion/extraction.py: from the pages of a PDF, or the body of a      *)
(* DOCX, to the list of text, table and figure elements of a document.     *)
(*                                                                         *)
(* A text is what the code tells of its wording, [id, kind, ends, long]:   *)
(* its kind ("plain", "blank", "data" for the numbers of a chart, "caption"*)
(* or "citation"), whether it ends a sentence, whether it has at least 15  *)
(* characters.  A run of a page is its box and its text; a paragraph is    *)
(* the sequence of the lines joined into it.  Runs have top-down integer   *)
(* coordinates, tables bottom-up ones, as Camelot reports them; two tables *)
(* of a page start at different heights, runs of a page differ in height   *)
(* or left edge (DocumentsOK).                                             *)
(***************************************************************************)
EXTENDS Integers, FiniteSets, SequencesExt

CONSTANTS
    Documents, \* the documents of the instance
    Height,    \* height of a page
    OcrText    \* what OCR reads from a scanned document: a sequence of texts

IsPdf(d) == d.type = "pdf"

(* The middle of a run above that of another, or beside it to the left:    *)
(* sorted(key = (middle, left edge)).                                      *)
Above(o, p) == o.y < p.y \/ (o.y = p.y /\ o.x0 < p.x0)

(* A table's range of heights, from bottom-up coordinates.                 *)
Top(t)    == Height - t.y1
Bottom(t) == Height - t.y0

IsSequence(s) == s \in Seq(Range(s))

PagesOK(pages) ==
    /\ IsSequence(pages)
    /\ \A q \in DOMAIN pages :
           /\ IsFiniteSet(pages[q].runs)
           /\ \A r \in pages[q].runs : {r.x0, r.x1, r.y} \subseteq Int
           /\ \A r, s \in pages[q].runs : r # s => Above(r, s) \/ Above(s, r)

FoundOK(found) ==
    /\ IsFiniteSet(found)
    /\ \A t \in found : {t.y0, t.y1} \subseteq Int /\ t.y0 <= t.y1
    /\ \A t, u \in found : t # u /\ t.page = u.page => Top(t) # Top(u)

ASSUME DocumentsOK ==
    /\ Height \in Int /\ IsSequence(OcrText)
    /\ \A d \in Documents :
           IF IsPdf(d) THEN /\ PagesOK(d.pages) /\ FoundOK(d.lattice) /\ FoundOK(d.stream)
                            /\ \A t \in d.lattice \cup d.stream : t.page \in DOMAIN d.pages
                       ELSE IsSequence(d.body)

VARIABLES
    doc,      \* the document
    tables,   \* the tables found in it
    page,     \* number of the next page, or of the next block of a DOCX
    buffer,   \* prose_buffer: paragraphs not yet in an element
    elements, \* what has been built
    stage,    \* "open", "pages", "body" or "extracted"
    unsplit   \* history: the pages whose positional split failed

extraction == <<doc, tables, page, buffer, elements, stage, unsplit>>

Pages == Len(doc.pages)

Init ==
    /\ doc \in Documents
    /\ tables = {} /\ page = 1 /\ buffer = <<>> /\ elements = <<>>
    /\ stage = "open" /\ unsplit = {}

----------------------------------------------------------------------------
(* Lines to paragraphs.                                                    *)

(* A blank line, and the end of a sentence at the end of a line, close a   *)
(* paragraph.  How a word broken by a hyphen is joined is left out.        *)
Close(acc) == [done |-> IF acc.open = <<>> THEN acc.done ELSE Append(acc.done, acc.open),
               open |-> <<>>]

Add(acc, line) == [acc EXCEPT !.open = Append(@, line)]

ParagraphStep(acc, line) ==
    CASE line.kind = "blank"              -> Close(acc)
      [] line.kind # "blank" /\ line.ends -> Close(Add(acc, line))
      [] OTHER                            -> Add(acc, line)

ReconstructParagraphs(lines) ==
    Close(FoldLeft(ParagraphStep, [done |-> <<>>, open |-> <<>>], lines)).done

----------------------------------------------------------------------------
(* Reading order.                                                          *)

Lowest(S)  == CHOOSE x \in S : \A y \in S : x <= y
Highest(S) == CHOOSE x \in S : \A y \in S : y <= x

TopDown(objs) ==
    [i \in 1 .. Cardinality(objs) |->
        CHOOSE o \in objs : Cardinality({p \in objs : Above(p, o)}) = i - 1]

MinObjectsForColumns  == 6
StraddlePercent       == 15

(* Twice the middle of the page's text, to stay with integers.             *)
Middle(objs)   == Lowest({o.x0 : o \in objs}) + Highest({o.x1 : o \in objs})
Spanning(objs) == {o \in objs : 2 * o.x0 < Middle(objs) /\ Middle(objs) < 2 * o.x1}

TwoColumns(objs) ==
    /\ Cardinality(objs) >= MinObjectsForColumns
    /\ 100 * Cardinality(Spanning(objs)) <= StraddlePercent * Cardinality(objs)

(* The band of a run: the full-width lines above it cut the page.          *)
BandOf(o, objs) ==
    {p \in objs \ Spanning(objs) : \A s \in Spanning(objs) : Above(s, p) <=> Above(s, o)}

(* Mutation: a two-column page is read line by line.                       *)
OrderLineByLine(objs) == TopDown(objs)

(* _order_page_text_objects: bands from top to bottom, in each the left    *)
(* column before the right one.                                            *)
OrderPageTextObjects(objs) ==
    IF ~TwoColumns(objs) THEN TopDown(objs)
    ELSE LET left(b)  == {o \in b : 2 * o.x1 <= Middle(objs)}
             right(b) == {o \in b : 2 * o.x0 >= Middle(objs)}
             read(acc, o) ==
               IF o \in Spanning(objs) THEN Append(acc, o)
               ELSE IF \E i \in DOMAIN acc : acc[i] \in BandOf(o, objs) THEN acc  \* with its band
               ELSE acc \o TopDown(left(BandOf(o, objs))) \o TopDown(right(BandOf(o, objs)))
         IN  FoldLeft(read, <<>>, TopDown(objs))

----------------------------------------------------------------------------
(* Running headers and footers.                                            *)

\* Python's round(35 n / 100), ties to even.
Rounded(n) ==
    LET whole == (35 * n) \div 100
        rest  == (35 * n) % 100
    IN  IF rest > 50 \/ (rest = 50 /\ whole % 2 = 1) THEN whole + 1 ELSE whole

RunsOf(pages)    == UNION {pages[i].runs : i \in DOMAIN pages}
Occurring(pages) == {o.text : o \in RunsOf(pages)}
PagesOf(t, pages) == {i \in DOMAIN pages : \E o \in pages[i].runs : ~o.nested /\ o.text = t}

(* Mutation: a text that repeats on one page is counted each time.         *)
RepeatedLines(pages) ==
    {t \in Occurring(pages) : /\ t.long /\ Len(pages) >= 3
        /\ Cardinality({p \in (DOMAIN pages) \X RunsOf(pages) :
                            p[2] \in pages[p[1]].runs /\ p[2].text = t}) >= 2}

(* Mutation: only what stands on most pages.                               *)
MajorityLines(pages) ==
    {t \in Occurring(pages) : t.long /\ Len(pages) >= 3 /\ 2 * Cardinality(PagesOf(t, pages)) > Len(pages)}

(* _detect_running_headers_footers: runs inside Form XObjects are not      *)
(* looked at here, but are removed with the others.                        *)
RunningLines(pages) ==
    {t \in Occurring(pages) : /\ t.long /\ Len(pages) >= 3
                              /\ Cardinality(PagesOf(t, pages)) >= Highest({2, Rounded(Len(pages))})}

Skipped        == RunningLines(doc.pages)
TextObjects(i) == OrderPageTextObjects({o \in doc.pages[i].runs : o.text \notin Skipped})

(* In two columns no run is at the height of a full-width line (the code   *)
(* would leave the order of the two to the file) and none without a width  *)
(* stands in the middle of the page (it would be read in both).            *)
ASSUME ColumnsOK ==
    \A d \in Documents : IsPdf(d) => \A q \in DOMAIN d.pages :
        LET objs == {r \in d.pages[q].runs : r.text \notin RunningLines(d.pages)}
        IN  TwoColumns(objs) => \A r \in objs :
                /\ 2 * r.x1 <= Middle(objs) => 2 * r.x0 < Middle(objs)
                /\ \A w \in Spanning(objs) : r.y = w.y => r = w

Texts(objs)    == [i \in DOMAIN objs |-> objs[i].text]
PlainText(i)   == ReconstructParagraphs(Texts(TextObjects(i)))

(* Fewer than 20 characters of native text, the headers not counted: here  *)
(* every text that is not blank has more.                                  *)
NeedsOcr == \A i \in 1 .. Pages : \A o \in doc.pages[i].runs :
                o.text \in Skipped \/ o.text.kind = "blank"

----------------------------------------------------------------------------
(* Elements.                                                               *)

TextElement(ps) == [kind |-> "text", content |-> ps]
TableElement(t) == [kind |-> "table", content |-> t]

(* Chart labels are told from prose by their numbers, but not if a         *)
(* citation is among them; in the instance paragraphs have few enough      *)
(* lines for one line of labels to decide.                                 *)
IsFigureData(p) ==
    /\ \E i \in DOMAIN p : p[i].kind = "data"
    /\ \A i \in DOMAIN p : p[i].kind # "citation"

IsFigureCaption(p) == p[1].kind = "caption"

(* Mutation: a caption is taken for prose.                                 *)
SplitWithoutCaptions(ps) ==
    LET step(acc, p) ==
          LET kind == IF IsFigureData(p) THEN "figure" ELSE "text"
          IN  IF acc # <<>> /\ acc[Len(acc)].kind = kind
              THEN [acc EXCEPT ![Len(acc)].content = Append(@, p)]
              ELSE Append(acc, [kind |-> kind, content |-> <<p>>])
    IN  FoldLeft(step, <<>>, ps)

(* _split_figure_blocks: text_run and figure_run are the last element of   *)
(* the accumulator.                                                        *)
SplitFigureBlocks(ps) ==
    LET step(acc, p) ==
          LET kind == IF IsFigureData(p) \/ IsFigureCaption(p) THEN "figure" ELSE "text"
          IN  IF acc # <<>> /\ acc[Len(acc)].kind = kind
              THEN [acc EXCEPT ![Len(acc)].content = Append(@, p)]
              ELSE Append(acc, [kind |-> kind, content |-> <<p>>])
    IN  FoldLeft(step, <<>>, ps)

(* At the height of a table.                                               *)
Within(o, t) == Top(t) <= o.y /\ o.y <= Bottom(t)

TablesOf(i) == {t \in tables : t.page = i}

(* Tables of a page from top to bottom.                                    *)
TableOrder(ts) ==
    [k \in 1 .. Cardinality(ts) |->
        CHOOSE t \in ts : Cardinality({u \in ts : Top(u) < Top(t)}) = k - 1]

(* Mutation: the coordinates of tables are not turned over.                *)
SplitUnturned(i, objs) ==
    LET ts == TableOrder(TablesOf(i))
        prose == SelectSeq(objs, LAMBDA o : \A t \in TablesOf(i) : ~(t.y0 <= o.y /\ o.y <= t.y1))
    IN  <<TextElement(ReconstructParagraphs(Texts(prose)))>> \o
        [k \in DOMAIN ts |-> TableElement(ts[k])]

Outside(ts, objs) ==
    FoldLeft(LAMBDA out, o : IF \E t \in ts : Within(o, t) THEN out ELSE Append(out, o), <<>>, objs)

(* _split_page_by_tables: runs at the height of a table are left out as    *)
(* its cells; before each table come the runs up to the first below its    *)
(* top, in reading order.                                                  *)
SplitPageByTables(i, objs) ==
    LET prose == Outside(TablesOf(i), objs)
        upTo(from, top) ==
          LET stops == {k \in from .. Len(prose) : prose[k].y >= top}
          IN  IF stops = {} THEN Len(prose) ELSE Lowest(stops) - 1
        text(from, to) ==
          LET ps == ReconstructParagraphs(Texts(SubSeq(prose, from, to)))
          IN  IF ps = <<>> THEN <<>> ELSE <<TextElement(ps)>>
        step(acc, t) ==
          LET end == upTo(acc.idx, Top(t))
          IN  [idx |-> end + 1, out |-> acc.out \o text(acc.idx, end) \o <<TableElement(t)>>]
        split == FoldLeft(step, [idx |-> 1, out |-> <<>>], TableOrder(TablesOf(i)))
    IN  split.out \o text(split.idx, Len(prose))

(* The end of a prose buffer: its figures are told from its text.          *)
Flushed(es, prose) == IF prose = <<>> THEN es ELSE es \o SplitFigureBlocks(prose)

(* The loop over the segments of a page.                                   *)
WithSegments(segments) ==
    LET step(acc, seg) ==
          IF seg.kind = "text" THEN [acc EXCEPT !.prose = @ \o seg.content]
          ELSE [es |-> Append(Flushed(acc.es, acc.prose), seg), prose |-> <<>>]
    IN  FoldLeft(step, [es |-> elements, prose |-> buffer], segments)

----------------------------------------------------------------------------
(* extract_pdf.                                                            *)

(* The text of an OCR'd document is one element, without figures.          *)
ExtractScanned ==
    /\ stage = "open" /\ IsPdf(doc) /\ NeedsOcr
    /\ elements' = <<TextElement(ReconstructParagraphs(OcrText))>>
    /\ stage' = "extracted"
    /\ UNCHANGED <<doc, tables, page, buffer, unsplit>>

(* _extract_tables_camelot: the first flavour that finds a table; any of   *)
(* them may raise, and so may the whole.                                   *)
FindTables ==
    /\ stage = "open" /\ IsPdf(doc) /\ ~NeedsOcr
    /\ \E working \in SUBSET {"lattice", "stream"} :
           tables' = CASE "lattice" \in working /\ doc.lattice # {} -> doc.lattice
                       [] "stream" \in working /\ ("lattice" \notin working \/ doc.lattice = {}) -> doc.stream
                       [] OTHER -> {}
    /\ stage' = "pages"
    /\ UNCHANGED <<doc, page, buffer, elements, unsplit>>

PageWithoutTables ==
    /\ stage = "pages" /\ page <= Pages /\ TablesOf(page) = {}
    /\ buffer' = buffer \o PlainText(page)
    /\ page' = page + 1
    /\ UNCHANGED <<doc, tables, elements, stage, unsplit>>

PageWithTables ==
    /\ stage = "pages" /\ page <= Pages /\ TablesOf(page) # {}
    /\ LET read == WithSegments(SplitPageByTables(page, TextObjects(page)))
       IN  elements' = read.es /\ buffer' = read.prose
    /\ page' = page + 1
    /\ UNCHANGED <<doc, tables, stage, unsplit>>

(* The positional split raised: all the text of the page, then its tables  *)
(* in the order they were found.                                           *)
PageSplitFails ==
    /\ stage = "pages" /\ page <= Pages /\ TablesOf(page) # {}
    /\ LET prose == buffer \o PlainText(page)
       IN  \E found \in SetToSeqs(TablesOf(page)) :
              elements' = Flushed(elements, prose) \o [k \in DOMAIN found |-> TableElement(found[k])]
    /\ buffer' = <<>>
    /\ page' = page + 1 /\ unsplit' = unsplit \cup {page}
    /\ UNCHANGED <<doc, tables, stage>>

EndPdf ==
    /\ stage = "pages" /\ page > Pages
    /\ elements' = Flushed(elements, buffer)
    /\ buffer' = <<>> /\ stage' = "extracted"
    /\ UNCHANGED <<doc, tables, page, unsplit>>

----------------------------------------------------------------------------
(* extract_docx: the paragraphs and tables of the body in their order.     *)

OpenDocx ==
    /\ stage = "open" /\ ~IsPdf(doc)
    /\ stage' = "body"
    /\ UNCHANGED <<doc, tables, page, buffer, elements, unsplit>>

DocxParagraph ==
    /\ stage = "body" /\ page <= Len(doc.body) /\ doc.body[page].kind = "text"
    /\ buffer' = IF doc.body[page].content.kind = "blank" THEN buffer
                 ELSE Append(buffer, <<doc.body[page].content>>)
    /\ page' = page + 1
    /\ UNCHANGED <<doc, tables, elements, stage, unsplit>>

(* A table of one row or of one column is dropped.                         *)
DocxTable ==
    /\ stage = "body" /\ page <= Len(doc.body) /\ doc.body[page].kind = "table"
    /\ LET t    == doc.body[page].content
           full == IF buffer = <<>> THEN elements ELSE Append(elements, TextElement(buffer))
       IN  IF t.thin THEN UNCHANGED <<buffer, elements>>
                     ELSE elements' = Append(full, TableElement(t)) /\ buffer' = <<>>
    /\ page' = page + 1
    /\ UNCHANGED <<doc, tables, stage, unsplit>>

EndDocx ==
    /\ stage = "body" /\ page > Len(doc.body)
    /\ elements' = IF buffer = <<>> THEN elements ELSE Append(elements, TextElement(buffer))
    /\ buffer' = <<>> /\ stage' = "extracted"
    /\ UNCHANGED <<doc, tables, page, unsplit>>

Extract ==
    \/ ExtractScanned \/ FindTables
    \/ PageWithoutTables \/ PageWithTables \/ PageSplitFails \/ EndPdf
    \/ OpenDocx \/ DocxParagraph \/ DocxTable \/ EndDocx
=============================================================================
