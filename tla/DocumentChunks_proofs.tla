------------------------ MODULE DocumentChunks_proofs ------------------------
(***************************************************************************)
(* From the pages of a document to its chunks, for every document and every*)
(* configuration.                                                          *)
(***************************************************************************)
EXTENDS DocumentChunks, TextExtraction_proofs

(* The texts the elements may be made of, and the tables.                  *)
Wordings == IF ~IsPdf(doc) THEN {doc.body[b].content : b \in DOMAIN doc.body}
            ELSE IF NeedsOcr THEN Range(OcrText)
            ELSE {r.text : r \in RunsOf(doc.pages)} \ Skipped
TablesIn == IF IsPdf(doc) THEN doc.lattice \cup doc.stream
            ELSE {doc.body[b].content : b \in DOMAIN doc.body}

Elements == Element(Wordings, TablesIn)
Prose    == Paragraph(Wordings)

ReadSoFar(t) == HoldsLine(elements, t) \/ Has(buffer, t)

ExtractionShape ==
    /\ doc \in Documents /\ page \in Nat \ {0}
    /\ stage \in {"open", "pages", "body", "extracted"}
    /\ elements \in Seq(Elements) /\ buffer \in Seq(Prose)
    /\ IsPdf(doc) => FoundOK(tables) /\ tables \subseteq TablesIn
    /\ stage = "open" => page = 1 /\ elements = <<>> /\ buffer = <<>>
    /\ stage = "pages" => Native(doc)
    /\ stage = "body" => ~IsPdf(doc)

(* The pages and blocks before this one are in the elements or the buffer. *)
PagesRead ==
    Native(doc) => \A q \in 1 .. Pages : q < page => \A r \in doc.pages[q].runs :
        r.text.kind = "blank" \/ r.text \in Skipped \/ BesideTable(r, q) \/ ReadSoFar(r.text)
BodyRead ==
    ~IsPdf(doc) => \A b \in DOMAIN doc.body :
        b < page /\ doc.body[b].kind = "text" /\ doc.body[b].content.kind # "blank" => ReadSoFar(doc.body[b].content)
AllRead ==
    stage = "extracted" => /\ buffer = <<>>
                           /\ Native(doc) => page > Pages
                           /\ ~IsPdf(doc) => page > Len(doc.body)

(* The elements of a native PDF are told apart.                            *)
FiguresApart ==
    Native(doc) => ToldApart(elements) /\ (stage # "extracted" => EndsInTable(elements))

ExtractionInv == ExtractionShape /\ PagesRead /\ BodyRead /\ AllRead /\ FiguresApart

----------------------------------------------------------------------------

LEMMA SameDocument ==
    ASSUME UNCHANGED doc
    PROVE  /\ Wordings' = Wordings /\ TablesIn' = TablesIn /\ Elements' = Elements /\ Prose' = Prose
           /\ Native(doc)' = Native(doc) /\ Skipped' = Skipped /\ Pages' = Pages
BY DEF Wordings, TablesIn, Elements, Prose, Native, NeedsOcr, Skipped, Pages

(* A page's runs in reading order, and the paragraphs they make.           *)
LEMMA PageIsRead ==
    ASSUME doc \in Documents, Native(doc), NEW q \in 1 .. Pages
    PROVE  /\ \E B : /\ \A r \in B : r.text \in Wordings
                     /\ TextObjects(q) \in Seq(B)
           /\ \A r \in doc.pages[q].runs : r.text \in Skipped \/ Among(r, TextObjects(q))
           /\ PlainText(q) \in Seq(Prose)
           /\ \A r \in doc.pages[q].runs : r.text.kind = "blank" \/ r.text \in Skipped \/ Has(PlainText(q), r.text)
<1> DEFINE runs == doc.pages[q].runs
           objs == {r \in runs : r.text \notin Skipped}
           read == TextObjects(q)
<1>1. IsPdf(doc) /\ ~NeedsOcr
      BY DEF Native
<1>2. PagesOK(doc.pages)
      BY <1>1, DocumentsOK
<1>3. q \in DOMAIN doc.pages
  <2>1. doc.pages \in Seq(Range(doc.pages))
        BY <1>2 DEF PagesOK, IsSequence
  <2> QED BY <2>1 DEF Pages
<1>4. RunsOK(runs)
      BY <1>2, <1>3 DEF PagesOK, RunsOK
<1>5. RunsOK(objs)
  <2>1. objs \in SUBSET runs
        OBVIOUS
  <2> HIDE DEF objs, runs
  <2> QED BY <1>4, <2>1, RunsOfPart
<1>6. \A r \in objs : r.text \in Wordings
      BY <1>1, <1>3 DEF Wordings, RunsOf
<1>7. read = OrderPageTextObjects(objs)
      BY DEF TextObjects
<1>8. read \in Seq(objs) /\ \A r \in objs : Among(r, read)
  <2> HIDE DEF objs, read
  <2> QED BY <1>5, <1>7, OrderReadsAll
<1>9. \A r \in runs : r.text \in Skipped \/ Among(r, read)
      BY <1>8
<1> HIDE DEF objs, read
<1>10. /\ Texts(read) \in Seq(Wordings) /\ Len(Texts(read)) = Len(read)
       /\ \A k \in 1 .. Len(read) : Texts(read)[k] = read[k].text
       BY <1>6, <1>8, TextsOf
<1>11. PlainText(q) = ReconstructParagraphs(Texts(read))
       BY DEF PlainText, read
<1>12. /\ PlainText(q) \in Seq(Prose)
       /\ \A k \in 1 .. Len(read) : read[k].text.kind # "blank" => Has(PlainText(q), read[k].text)
       BY <1>10, <1>11, ParagraphsHoldLines DEF Prose
<1>13. \A r \in runs : r.text.kind = "blank" \/ r.text \in Skipped \/ Has(PlainText(q), r.text)
  <2>1. DOMAIN read = 1 .. Len(read)
        BY <1>8
  <2> QED BY <1>9, <1>12, <2>1 DEF Among
<1> QED BY <1>6, <1>8, <1>9, <1>12, <1>13 DEF read

(* Tables of a page.                                                       *)
LEMMA PageTables ==
    ASSUME ExtractionShape, IsPdf(doc), NEW q
    PROVE  TablesApart(TablesOf(q)) /\ TablesOf(q) \subseteq TablesIn
<1>1. FoundOK(tables) /\ tables \subseteq TablesIn /\ TablesOf(q) \in SUBSET tables
      BY DEF ExtractionShape, TablesOf
<1>2. IsFiniteSet(TablesOf(q))
      BY <1>1, FS_Subset DEF FoundOK
<1>3. \A t \in TablesOf(q) : Top(t) \in Int
      BY <1>1, DocumentsOK DEF FoundOK, Top
<1>4. \A t, u \in TablesOf(q) : t # u => Top(t) # Top(u)
      BY <1>1 DEF FoundOK, TablesOf
<1> QED BY <1>1, <1>2, <1>3, <1>4 DEF TablesApart

----------------------------------------------------------------------------
(* The steps of the extraction.                                            *)

LEMMA ScannedKeeps ==
    ASSUME ExtractionInv, ExtractScanned
    PROVE  ExtractionInv'
<1> DEFINE ps == ReconstructParagraphs(OcrText)
<1>1. /\ IsPdf(doc) /\ NeedsOcr /\ ~Native(doc) /\ UNCHANGED <<doc, tables, page, buffer>> /\ buffer = <<>>
      /\ stage' = "extracted" /\ elements' = <<TextElement(ps)>>
      BY DEF ExtractScanned, Native, ExtractionInv, ExtractionShape
<1>2. Wordings = Range(OcrText) /\ OcrText \in Seq(Range(OcrText))
      BY <1>1, DocumentsOK DEF Wordings, IsSequence
<1>3. ps \in Seq(Prose)
      BY <1>2, ParagraphsHoldLines DEF Prose
<1>4. <<TextElement(ps)>> \in Seq(Elements)
  <2>1. TextElement(ps) \in Elements
        BY <1>3 DEF TextElement, Elements, Element, Prose
  <2> QED BY <2>1
<1> HIDE DEF ps
<1>5. ExtractionShape'
      BY <1>1, <1>4, SameDocument DEF ExtractionInv, ExtractionShape
<1> QED BY <1>1, <1>5, SameDocument DEF ExtractionInv, PagesRead, BodyRead, AllRead, FiguresApart

LEMMA FindTablesKeeps ==
    ASSUME ExtractionInv, FindTables
    PROVE  ExtractionInv'
<1>1. /\ IsPdf(doc) /\ ~NeedsOcr /\ Native(doc) /\ UNCHANGED <<doc, page, buffer, elements>>
      /\ stage = "open" /\ stage' = "pages" /\ page = 1
      BY DEF FindTables, Native, ExtractionInv, ExtractionShape
<1>2. tables' \in {doc.lattice, doc.stream, {}}
      BY DEF FindTables
<1>3. FoundOK(doc.lattice) /\ FoundOK(doc.stream) /\ FoundOK({}) /\ doc \in Documents
      BY <1>1, FS_EmptySet, DocumentsOK DEF FoundOK, ExtractionInv, ExtractionShape
<1>4. FoundOK(tables') /\ tables' \subseteq TablesIn
      BY <1>1, <1>2, <1>3 DEF TablesIn
<1>5. ExtractionShape'
      BY <1>1, <1>4, SameDocument DEF ExtractionInv, ExtractionShape, FoundOK, Top
<1>6. PagesRead' /\ BodyRead'
      BY <1>1, SameDocument DEF PagesRead, BodyRead
<1> QED BY <1>1, <1>5, <1>6, SameDocument DEF ExtractionInv, AllRead, FiguresApart

(* A page is read: what has been kept, and what it adds.                   *)
LEMMA NextPageKeeps ==
    ASSUME ExtractionInv, stage = "pages", page <= Pages, UNCHANGED <<doc, tables, stage>>, page' = page + 1,
           elements' \in Seq(Elements), buffer' \in Seq(Prose), PagesTold(elements) => PagesTold(elements'),
           \A t : ReadSoFar(t) => HoldsLine(elements', t) \/ Has(buffer', t),
           \A r \in doc.pages[page].runs :
              r.text.kind = "blank" \/ r.text \in Skipped \/ BesideTable(r, page)
              \/ HoldsLine(elements', r.text) \/ Has(buffer', r.text)
    PROVE  ExtractionInv'
<1>1. Native(doc) /\ IsPdf(doc) /\ stage' = "pages" /\ page \in Nat \ {0} /\ page' \in Nat \ {0}
      BY DEF ExtractionInv, ExtractionShape, Native
<1>2. ExtractionShape'
      BY <1>1, SameDocument DEF ExtractionInv, ExtractionShape
<1>3. \A t : ReadSoFar(t) => ReadSoFar(t)'
      BY DEF ReadSoFar
<1>4. \A r, q : BesideTable(r, q)' <=> BesideTable(r, q)
      BY DEF BesideTable, TablesOf
<1>5. PagesRead'
  <2> SUFFICES ASSUME NEW q \in 1 .. Pages, q < page + 1, NEW r \in doc.pages[q].runs
               PROVE  r.text.kind = "blank" \/ r.text \in Skipped \/ BesideTable(r, q) \/ ReadSoFar(r.text)'
      BY <1>4, SameDocument DEF PagesRead
  <2>1. CASE q < page
        BY <1>1, <1>3, <2>1 DEF ExtractionInv, PagesRead
  <2>2. CASE q = page
        BY <2>2 DEF ReadSoFar
  <2> QED BY <1>1, <2>1, <2>2
<1>6. FiguresApart'
      BY <1>1, SameDocument DEF ExtractionInv, FiguresApart, PagesTold
<1> QED BY <1>1, <1>2, <1>5, <1>6, SameDocument DEF ExtractionInv, BodyRead, AllRead

LEMMA PageWithoutTablesKeeps ==
    ASSUME ExtractionInv, PageWithoutTables
    PROVE  ExtractionInv'
<1>1. /\ stage = "pages" /\ page <= Pages /\ buffer' = buffer \o PlainText(page) /\ page' = page + 1
      /\ UNCHANGED <<doc, tables, elements, stage>>
      BY DEF PageWithoutTables
<1>2. /\ doc \in Documents /\ Native(doc) /\ page \in 1 .. Pages
      /\ elements \in Seq(Elements) /\ buffer \in Seq(Prose)
  <2>1. Pages \in Nat
    <3>1. IsPdf(doc) /\ doc \in Documents
          BY <1>1 DEF ExtractionInv, ExtractionShape, Native
    <3>2. doc.pages \in Seq(Range(doc.pages))
          BY <3>1, DocumentsOK DEF PagesOK, IsSequence
    <3> QED BY <3>2 DEF Pages
  <2> QED BY <1>1, <2>1 DEF ExtractionInv, ExtractionShape
<1>3. /\ PlainText(page) \in Seq(Prose)
      /\ \A r \in doc.pages[page].runs : r.text.kind = "blank" \/ r.text \in Skipped \/ Has(PlainText(page), r.text)
      BY <1>2, PageIsRead
<1>4. buffer' \in Seq(Prose) /\ \A t : Has(buffer, t) \/ Has(PlainText(page), t) => Has(buffer', t)
      BY <1>1, <1>2, <1>3, ConcatHas
<1>5. \A t : ReadSoFar(t) => HoldsLine(elements', t) \/ Has(buffer', t)
      BY <1>1, <1>4 DEF ReadSoFar
<1>6. \A r \in doc.pages[page].runs :
         r.text.kind = "blank" \/ r.text \in Skipped \/ BesideTable(r, page)
         \/ HoldsLine(elements', r.text) \/ Has(buffer', r.text)
      BY <1>3, <1>4
<1>7. elements' \in Seq(Elements) /\ (PagesTold(elements) => PagesTold(elements'))
      BY <1>1, <1>2
<1> QED BY <1>1, <1>4, <1>5, <1>6, <1>7, NextPageKeeps

LEMMA PagesIsNat ==
    ASSUME ExtractionInv, IsPdf(doc)
    PROVE  Pages \in Nat
<1>1. doc.pages \in Seq(Range(doc.pages))
      BY DocumentsOK DEF PagesOK, IsSequence, ExtractionInv, ExtractionShape
<1> QED BY <1>1 DEF Pages

LEMMA PageWithTablesKeeps ==
    ASSUME ExtractionInv, PageWithTables
    PROVE  ExtractionInv'
<1> DEFINE segments == SplitPageByTables(page, TextObjects(page))
           read == WithSegments(segments)
<1>1. /\ stage = "pages" /\ page <= Pages /\ elements' = read.es /\ buffer' = read.prose /\ page' = page + 1
      /\ UNCHANGED <<doc, tables, stage>>
      BY DEF PageWithTables
<1>2. /\ doc \in Documents /\ Native(doc) /\ IsPdf(doc) /\ page \in 1 .. Pages
      /\ elements \in Seq(Elements) /\ buffer \in Seq(Prose)
      BY <1>1, PagesIsNat DEF ExtractionInv, ExtractionShape, Native
<1>3. PICK B : (\A r \in B : r.text \in Wordings) /\ TextObjects(page) \in Seq(B)
      BY <1>2, PageIsRead
<1>4. TablesApart(TablesOf(page)) /\ TablesOf(page) \subseteq TablesIn
      BY <1>2, PageTables DEF ExtractionInv
<1>5. /\ segments \in Seq(Segment(Wordings, TablesOf(page)))
      /\ \A k \in 1 .. Len(TextObjects(page)) :
            \/ TextObjects(page)[k].text.kind = "blank"
            \/ \E t \in TablesOf(page) : Within(TextObjects(page)[k], t)
            \/ HoldsLine(segments, TextObjects(page)[k].text)
      BY <1>3, <1>4, PageSplitHolds
<1> HIDE DEF segments
<1>6. segments \in Seq(Segment(Wordings, TablesIn))
  <2>1. Segment(Wordings, TablesOf(page)) \subseteq Segment(Wordings, TablesIn)
        BY <1>4 DEF Segment
  <2> QED BY <1>5, <2>1, SeqMonotone
<1>7. /\ read \in Reading(Wordings, TablesIn)
      /\ \A t : HoldsLine(elements, t) \/ Has(buffer, t) \/ HoldsLine(segments, t) => Read(read, t)
      /\ PagesTold(elements) => PagesTold(read.es)
      BY <1>2, <1>6, SegmentsRead DEF Elements, Prose
<1> HIDE DEF read
<1>8. elements' \in Seq(Elements) /\ buffer' \in Seq(Prose)
      BY <1>1, <1>7 DEF Reading, Elements, Prose
<1>9. PagesTold(elements) => PagesTold(elements')
      BY <1>1, <1>7
<1>10. \A t : ReadSoFar(t) \/ HoldsLine(segments, t) => HoldsLine(elements', t) \/ Has(buffer', t)
       BY <1>1, <1>7 DEF ReadSoFar, Read
<1>11. ASSUME NEW r \in doc.pages[page].runs
       PROVE  r.text.kind = "blank" \/ r.text \in Skipped \/ BesideTable(r, page)
              \/ HoldsLine(elements', r.text) \/ Has(buffer', r.text)
  <2>1. r.text \in Skipped \/ Among(r, TextObjects(page))
        BY <1>2, PageIsRead
  <2>2. CASE Among(r, TextObjects(page))
    <3>1. PICK k \in DOMAIN TextObjects(page) : TextObjects(page)[k] = r
          BY <2>2 DEF Among
    <3>2. k \in 1 .. Len(TextObjects(page))
          BY <1>3
    <3> QED BY <1>5, <1>10, <3>1, <3>2 DEF BesideTable
  <2> QED BY <2>1, <2>2
<1> QED BY <1>1, <1>8, <1>9, <1>10, <1>11, NextPageKeeps

LEMMA TablesAppended ==
    ASSUME NEW E, NEW es \in Seq(E), NEW fs \in Seq(E), fs # <<>>, \A k \in DOMAIN fs : fs[k].kind = "table"
    PROVE  /\ \A t : HoldsLine(es, t) => HoldsLine(es \o fs, t)
           /\ ToldApart(es) => PagesTold(es \o fs)
<1> DEFINE all == es \o fs
<1>1. /\ Len(es) \in Nat /\ Len(fs) \in Nat /\ Len(all) = Len(es) + Len(fs)
      /\ DOMAIN es = 1 .. Len(es) /\ DOMAIN fs = 1 .. Len(fs) /\ DOMAIN all = 1 .. Len(es) + Len(fs)
      /\ \A e \in 1 .. Len(es) : all[e] = es[e]
      /\ \A e \in 1 .. Len(fs) : all[Len(es) + e] = fs[e]
      BY Concatenated
<1>2. \A t : HoldsLine(es, t) => HoldsLine(all, t)
      BY ConcatHoldsLines
<1>3. Len(fs) # 0
      OBVIOUS
<1> HIDE DEF all
<1>4. \A e \in DOMAIN all : e > Len(es) => all[e].kind = "table"
  <2> SUFFICES ASSUME NEW e \in DOMAIN all, e > Len(es) PROVE all[e].kind = "table"
      OBVIOUS
  <2>1. e - Len(es) \in 1 .. Len(fs) /\ Len(es) + (e - Len(es)) = e
        BY <1>1
  <2>2. all[e] = fs[e - Len(es)]
        BY <1>1, <2>1
  <2> QED BY <1>1, <2>1, <2>2
<1>5. ASSUME ToldApart(es) PROVE PagesTold(all)
  <2>1. \A e \in DOMAIN all : IsTold(all[e])
    <3> SUFFICES ASSUME NEW e \in DOMAIN all PROVE IsTold(all[e])
        OBVIOUS
    <3>1. CASE e > Len(es)
          BY <1>4, <3>1 DEF IsTold
    <3>2. CASE ~(e > Len(es))
      <4>1. e \in 1 .. Len(es)
            BY <1>1, <3>2
      <4> QED BY <1>1, <1>5, <4>1 DEF ToldApart
    <3> QED BY <3>1, <3>2
  <2>2. ASSUME NEW e \in 2 .. Len(all) PROVE ~(all[e - 1].kind = "figure" /\ all[e].kind = "figure")
    <3>1. CASE e > Len(es)
          BY <1>1, <1>4, <3>1
    <3>2. CASE ~(e > Len(es))
      <4>1. e \in 2 .. Len(es) /\ e \in 1 .. Len(es) /\ e - 1 \in 1 .. Len(es)
            BY <1>1, <3>2
      <4> QED BY <1>1, <1>5, <4>1 DEF ToldApart
    <3> QED BY <3>1, <3>2
  <2>3. EndsInTable(all)
    <3>1. Len(all) \in DOMAIN all /\ Len(all) > Len(es)
          BY <1>1, <1>3
    <3> QED BY <1>4, <3>1 DEF EndsInTable
  <2> QED BY <2>1, <2>2, <2>3 DEF PagesTold, ToldApart
<1> QED BY <1>2, <1>5 DEF all

LEMMA PageSplitFailsKeeps ==
    ASSUME ExtractionInv, PageSplitFails
    PROVE  ExtractionInv'
<1> DEFINE prose == buffer \o PlainText(page)
           flushed == Flushed(elements, prose)
<1>1. PICK found \in SetToSeqs(TablesOf(page)) :
          elements' = flushed \o [k \in DOMAIN found |-> TableElement(found[k])]
      BY DEF PageSplitFails
<1> DEFINE fs == [k \in DOMAIN found |-> TableElement(found[k])]
<1>2. /\ stage = "pages" /\ page <= Pages /\ TablesOf(page) # {} /\ buffer' = <<>> /\ page' = page + 1
      /\ UNCHANGED <<doc, tables, stage>>
      BY DEF PageSplitFails
<1>3. /\ doc \in Documents /\ Native(doc) /\ IsPdf(doc) /\ page \in 1 .. Pages
      /\ elements \in Seq(Elements) /\ buffer \in Seq(Prose)
      BY <1>2, PagesIsNat DEF ExtractionInv, ExtractionShape, Native
<1>4. /\ PlainText(page) \in Seq(Prose)
      /\ \A r \in doc.pages[page].runs : r.text.kind = "blank" \/ r.text \in Skipped \/ Has(PlainText(page), r.text)
      BY <1>3, PageIsRead
<1>5. prose \in Seq(Prose) /\ \A t : Has(buffer, t) \/ Has(PlainText(page), t) => Has(prose, t)
      BY <1>3, <1>4, ConcatHas
<1> HIDE DEF prose
<1>6. /\ flushed \in Seq(Elements)
      /\ \A t : HoldsLine(elements, t) \/ Has(prose, t) => HoldsLine(flushed, t)
      /\ ToldApart(elements) /\ EndsInTable(elements) => ToldApart(flushed)
      BY <1>3, <1>5, FlushedHolds DEF Elements, Prose
<1> HIDE DEF flushed
<1>7. fs \in Seq(Elements) /\ fs # <<>> /\ \A k \in DOMAIN fs : fs[k].kind = "table"
  <2>1. IsFiniteSet(TablesOf(page)) /\ TablesOf(page) \subseteq TablesIn
        BY <1>3, PageTables DEF ExtractionInv, TablesApart
  <2>2. Cardinality(TablesOf(page)) \in Nat \ {0}
        BY <1>2, <2>1, FS_CardinalityType, FS_EmptySet
  <2>3. found \in [1 .. Cardinality(TablesOf(page)) -> TablesOf(page)]
        BY DEF SetToSeqs
  <2>4. \A t \in TablesIn : TableElement(t) \in Elements /\ TableElement(t).kind = "table"
        BY DEF TableElement, Elements, Element
  <2> DEFINE m == Cardinality(TablesOf(page))
  <2>5. DOMAIN fs = 1 .. m /\ \A k \in 1 .. m : fs[k] = TableElement(found[k]) /\ found[k] \in TablesIn
        BY <2>1, <2>3
  <2>6. fs = [k \in 1 .. m |-> fs[k]]
        BY <2>5
  <2> HIDE DEF m, fs
  <2>7. m \in Nat \ {0}
        BY <2>2 DEF m
  <2>8. fs \in Seq(Elements) /\ Len(fs) = m
        BY <2>4, <2>5, <2>6, <2>7, SequenceOf
  <2> QED BY <2>4, <2>5, <2>7, <2>8
<1> HIDE DEF fs
<1>8. elements' = flushed \o fs
      BY <1>1 DEF fs
<1>9. elements' \in Seq(Elements) /\ buffer' \in Seq(Prose)
      BY <1>2, <1>6, <1>7, <1>8
<1>10. /\ \A t : HoldsLine(flushed, t) => HoldsLine(elements', t)
       /\ ToldApart(flushed) => PagesTold(elements')
       BY <1>6, <1>7, <1>8, TablesAppended
<1>11. PagesTold(elements) => PagesTold(elements')
       BY <1>6, <1>10 DEF PagesTold
<1>12. \A t : ReadSoFar(t) => HoldsLine(elements', t) \/ Has(buffer', t)
       BY <1>5, <1>6, <1>10 DEF ReadSoFar
<1>13. \A r \in doc.pages[page].runs :
          r.text.kind = "blank" \/ r.text \in Skipped \/ BesideTable(r, page)
          \/ HoldsLine(elements', r.text) \/ Has(buffer', r.text)
       BY <1>4, <1>5, <1>6, <1>10
<1> QED BY <1>2, <1>9, <1>11, <1>12, <1>13, NextPageKeeps

LEMMA EndPdfKeeps ==
    ASSUME ExtractionInv, EndPdf
    PROVE  ExtractionInv'
<1>1. /\ stage = "pages" /\ page > Pages /\ elements' = Flushed(elements, buffer)
      /\ buffer' = <<>> /\ stage' = "extracted" /\ UNCHANGED <<doc, tables, page>>
      BY DEF EndPdf
<1>2. Native(doc) /\ IsPdf(doc) /\ elements \in Seq(Elements) /\ buffer \in Seq(Prose)
      BY <1>1 DEF ExtractionInv, ExtractionShape, Native
<1>3. /\ elements' \in Seq(Elements)
      /\ \A t : HoldsLine(elements, t) \/ Has(buffer, t) => HoldsLine(elements', t)
      /\ ToldApart(elements) /\ EndsInTable(elements) => ToldApart(elements')
      BY <1>1, <1>2, FlushedHolds DEF Elements, Prose
<1>4. \A t : ReadSoFar(t) => ReadSoFar(t)'
      BY <1>3 DEF ReadSoFar
<1>5. ExtractionShape'
      BY <1>1, <1>2, <1>3, SameDocument DEF ExtractionInv, ExtractionShape
<1>6. \A r, q : BesideTable(r, q)' <=> BesideTable(r, q)
      BY <1>1 DEF BesideTable, TablesOf
<1>7. PagesRead'
  <2> SUFFICES ASSUME NEW q \in 1 .. Pages, q < page, NEW r \in doc.pages[q].runs
               PROVE  r.text.kind = "blank" \/ r.text \in Skipped \/ BesideTable(r, q) \/ ReadSoFar(r.text)'
      BY <1>1, <1>6, SameDocument DEF PagesRead
  <2> QED BY <1>2, <1>4 DEF ExtractionInv, PagesRead
<1>8. FiguresApart'
      BY <1>1, <1>2, <1>3, SameDocument DEF ExtractionInv, FiguresApart
<1> QED BY <1>1, <1>2, <1>5, <1>7, <1>8, SameDocument DEF ExtractionInv, BodyRead, AllRead, Native

LEMMA BodyIsSequence ==
    ASSUME doc \in Documents, ~IsPdf(doc)
    PROVE  Len(doc.body) \in Nat /\ DOMAIN doc.body = 1 .. Len(doc.body)
<1>1. doc.body \in Seq(Range(doc.body))
      BY DocumentsOK DEF IsSequence
<1> QED BY <1>1

LEMMA OpenDocxKeeps ==
    ASSUME ExtractionInv, OpenDocx
    PROVE  ExtractionInv'
<1>1. /\ ~IsPdf(doc) /\ ~Native(doc) /\ stage = "open" /\ stage' = "body"
      /\ UNCHANGED <<doc, tables, page, buffer, elements>>
      BY DEF OpenDocx, Native
<1>2. ExtractionShape'
      BY <1>1, SameDocument DEF ExtractionInv, ExtractionShape
<1>3. BodyRead'
      BY <1>1 DEF ExtractionInv, BodyRead, ReadSoFar
<1> QED BY <1>1, <1>2, <1>3, SameDocument DEF ExtractionInv, PagesRead, AllRead, FiguresApart

(* A block of the body is read.                                            *)
LEMMA NextBlockKeeps ==
    ASSUME ExtractionInv, stage = "body", UNCHANGED <<doc, tables, stage>>, page' = page + 1,
           elements' \in Seq(Elements), buffer' \in Seq(Prose),
           \A t : ReadSoFar(t) => HoldsLine(elements', t) \/ Has(buffer', t),
           doc.body[page].kind = "text" /\ doc.body[page].content.kind # "blank" =>
               Has(buffer', doc.body[page].content)
    PROVE  ExtractionInv'
<1>1. ~IsPdf(doc) /\ ~Native(doc) /\ page \in Nat \ {0}
      BY DEF ExtractionInv, ExtractionShape, Native
<1>2. ExtractionShape'
      BY <1>1, SameDocument DEF ExtractionInv, ExtractionShape
<1>3. \A t : ReadSoFar(t) => ReadSoFar(t)'
      BY DEF ReadSoFar
<1>4. BodyRead'
  <2> SUFFICES ASSUME NEW b \in DOMAIN doc.body, b < page + 1, doc.body[b].kind = "text",
                      doc.body[b].content.kind # "blank"
               PROVE  ReadSoFar(doc.body[b].content)'
      BY DEF BodyRead
  <2>1. b \in 1 .. Len(doc.body)
        BY <1>1, BodyIsSequence DEF ExtractionInv, ExtractionShape
  <2>2. CASE b < page
        BY <1>1, <1>3, <2>2 DEF ExtractionInv, BodyRead
  <2>3. CASE b = page
        BY <2>3 DEF ReadSoFar
  <2> QED BY <1>1, <2>1, <2>2, <2>3
<1> QED BY <1>1, <1>2, <1>4, SameDocument DEF ExtractionInv, PagesRead, AllRead, FiguresApart

LEMMA DocxParagraphKeeps ==
    ASSUME ExtractionInv, DocxParagraph
    PROVE  ExtractionInv'
<1> DEFINE line == doc.body[page].content
<1>1. /\ stage = "body" /\ page <= Len(doc.body) /\ doc.body[page].kind = "text" /\ page' = page + 1
      /\ buffer' = IF line.kind = "blank" THEN buffer ELSE Append(buffer, <<line>>)
      /\ UNCHANGED <<doc, tables, elements, stage>>
      BY DEF DocxParagraph
<1>2. /\ ~IsPdf(doc) /\ doc \in Documents /\ page \in Nat \ {0}
      /\ elements \in Seq(Elements) /\ buffer \in Seq(Prose)
      BY <1>1 DEF ExtractionInv, ExtractionShape
<1>3. page \in DOMAIN doc.body
      BY <1>1, <1>2, BodyIsSequence
<1>4. <<line>> \in Prose
  <2>1. line \in Wordings
        BY <1>2, <1>3 DEF Wordings
  <2> QED BY <2>1 DEF Prose, Paragraph
<1> DEFINE longer == Append(buffer, <<line>>)
<1>5. /\ longer \in Seq(Prose)
      /\ \A t : Has(buffer, t) => Has(longer, t)
      /\ Has(longer, line)
  <2>1. /\ longer \in Seq(Prose) /\ DOMAIN longer = 1 .. Len(buffer) + 1 /\ Len(buffer) \in Nat
        /\ \A k \in 1 .. Len(buffer) : longer[k] = buffer[k]
        /\ DOMAIN buffer = 1 .. Len(buffer)
        /\ longer[Len(buffer) + 1] = <<line>>
        BY <1>2, <1>4
  <2> HIDE DEF longer, line
  <2>2. \A t : Has(buffer, t) => Has(longer, t)
        BY <2>1 DEF Has
  <2>3. Has(longer, line)
    <3>1. Len(buffer) + 1 \in DOMAIN longer /\ 1 \in DOMAIN <<line>> /\ <<line>>[1] = line
          BY <2>1
    <3> QED BY <2>1, <3>1 DEF Has
  <2> QED BY <2>1, <2>2, <2>3
<1> HIDE DEF longer
<1>6. elements' \in Seq(Elements) /\ buffer' \in Seq(Prose)
      BY <1>1, <1>2, <1>5 DEF longer
<1>7. \A t : ReadSoFar(t) => HoldsLine(elements', t) \/ Has(buffer', t)
      BY <1>1, <1>5 DEF ReadSoFar, longer
<1>8. line.kind # "blank" => Has(buffer', line)
      BY <1>1, <1>5 DEF longer
<1> QED BY <1>1, <1>6, <1>7, <1>8, NextBlockKeeps

(* The paragraphs that have been read become an element.                   *)
LEMMA BufferClosed ==
    ASSUME NEW es, es = (IF buffer = <<>> THEN elements ELSE Append(elements, TextElement(buffer))),
           elements \in Seq(Elements), buffer \in Seq(Prose)
    PROVE  es \in Seq(Elements) /\ \A t : ReadSoFar(t) => HoldsLine(es, t)
<1>1. CASE buffer = <<>>
      BY <1>1 DEF ReadSoFar, Has
<1>2. CASE buffer # <<>>
  <2>1. TextElement(buffer) \in Elements /\ TextElement(buffer).kind = "text" /\ TextElement(buffer).content = buffer
        BY DEF TextElement, Elements, Element, Prose
  <2>2. es = Append(elements, TextElement(buffer))
        BY <1>2
  <2>3. /\ es \in Seq(Elements) /\ DOMAIN es = 1 .. Len(elements) + 1 /\ Len(elements) \in Nat
        /\ DOMAIN elements = 1 .. Len(elements)
        /\ \A k \in 1 .. Len(elements) : es[k] = elements[k]
        /\ es[Len(elements) + 1] = TextElement(buffer)
        BY <2>1, <2>2
  <2>4. \A t : HoldsLine(elements, t) => HoldsLine(es, t)
        BY <2>3 DEF HoldsLine
  <2>5. \A t : Has(buffer, t) => HoldsLine(es, t)
    <3>1. Len(elements) + 1 \in DOMAIN es
          BY <2>3
    <3> QED BY <2>1, <2>3, <3>1 DEF HoldsLine
  <2> QED BY <2>3, <2>4, <2>5 DEF ReadSoFar
<1> QED BY <1>1, <1>2

LEMMA DocxTableKeeps ==
    ASSUME ExtractionInv, DocxTable
    PROVE  ExtractionInv'
<1> DEFINE t    == doc.body[page].content
           full == IF buffer = <<>> THEN elements ELSE Append(elements, TextElement(buffer))
<1>1. /\ stage = "body" /\ page <= Len(doc.body) /\ doc.body[page].kind = "table" /\ page' = page + 1
      /\ \/ UNCHANGED <<buffer, elements>>
         \/ elements' = Append(full, TableElement(t)) /\ buffer' = <<>>
      /\ UNCHANGED <<doc, tables, stage>>
      BY DEF DocxTable
<1>2. /\ ~IsPdf(doc) /\ doc \in Documents /\ page \in Nat \ {0}
      /\ elements \in Seq(Elements) /\ buffer \in Seq(Prose)
      BY <1>1 DEF ExtractionInv, ExtractionShape
<1>3. page \in DOMAIN doc.body
      BY <1>1, <1>2, BodyIsSequence
<1>4. TableElement(t) \in Elements /\ TableElement(t).kind = "table"
  <2>1. t \in TablesIn
        BY <1>2, <1>3 DEF TablesIn
  <2> QED BY <2>1 DEF TableElement, Elements, Element
<1>5. full \in Seq(Elements) /\ \A x : ReadSoFar(x) => HoldsLine(full, x)
      BY <1>2, BufferClosed
<1> HIDE DEF full, t
<1>6. /\ Append(full, TableElement(t)) \in Seq(Elements)
      /\ \A x : HoldsLine(full, x) => HoldsLine(Append(full, TableElement(t)), x)
      BY <1>4, <1>5, AppendedTable
<1>7. elements' \in Seq(Elements) /\ buffer' \in Seq(Prose)
  <2>1. CASE UNCHANGED <<buffer, elements>>
        BY <1>2, <2>1
  <2>2. CASE elements' = Append(full, TableElement(t)) /\ buffer' = <<>>
        BY <1>6, <2>2
  <2> QED BY <1>1, <2>1, <2>2
<1>8. \A x : ReadSoFar(x) => HoldsLine(elements', x) \/ Has(buffer', x)
      BY <1>1, <1>5, <1>6 DEF ReadSoFar
<1> QED BY <1>1, <1>7, <1>8, NextBlockKeeps

LEMMA EndDocxKeeps ==
    ASSUME ExtractionInv, EndDocx
    PROVE  ExtractionInv'
<1>1. /\ stage = "body" /\ page > Len(doc.body) /\ buffer' = <<>> /\ stage' = "extracted"
      /\ elements' = (IF buffer = <<>> THEN elements ELSE Append(elements, TextElement(buffer)))
      /\ UNCHANGED <<doc, tables, page>>
      BY DEF EndDocx
<1>2. /\ ~IsPdf(doc) /\ ~Native(doc) /\ doc \in Documents /\ page \in Nat \ {0}
      /\ elements \in Seq(Elements) /\ buffer \in Seq(Prose)
      BY <1>1 DEF ExtractionInv, ExtractionShape, Native
<1>3. elements' \in Seq(Elements) /\ \A t : ReadSoFar(t) => HoldsLine(elements', t)
      BY <1>1, <1>2, BufferClosed
<1>4. ExtractionShape'
      BY <1>1, <1>2, <1>3, SameDocument DEF ExtractionInv, ExtractionShape
<1>5. BodyRead'
      BY <1>1, <1>3 DEF ExtractionInv, BodyRead, ReadSoFar
<1> QED BY <1>1, <1>2, <1>4, <1>5, SameDocument DEF ExtractionInv, PagesRead, AllRead, FiguresApart

(* For every document: the elements and the buffer hold what has been read,*)
(* and nothing but wordings and tables of the document.                    *)
LEMMA ExtractKeeps ==
    ASSUME ExtractionInv, Extract
    PROVE  ExtractionInv'
BY ScannedKeeps, FindTablesKeeps, PageWithoutTablesKeeps, PageWithTablesKeeps, PageSplitFailsKeeps, EndPdfKeeps,
   OpenDocxKeeps, DocxParagraphKeeps, DocxTableKeeps, EndDocxKeeps DEF Extract

LEMMA InitRead ==
    ASSUME Init
    PROVE  ExtractionInv
<1>1. /\ doc \in Documents /\ tables = {} /\ page = 1 /\ buffer = <<>> /\ elements = <<>> /\ stage = "open"
      BY DEF Init
<1>2. FoundOK(tables)
      BY <1>1, FS_EmptySet DEF FoundOK
<1>3. ExtractionShape
      BY <1>1, <1>2 DEF ExtractionShape
<1>4. PagesRead
  <2>1. ASSUME NEW q \in 1 .. Pages, q < page PROVE FALSE
        BY <1>1, <2>1
  <2> QED BY <2>1 DEF PagesRead
<1>5. BodyRead
  <2>1. ASSUME ~IsPdf(doc), NEW b \in DOMAIN doc.body, b < page PROVE FALSE
        BY <1>1, <2>1, BodyIsSequence
  <2> QED BY <2>1 DEF BodyRead
<1>6. FiguresApart
      BY <1>1 DEF FiguresApart, ToldApart, EndsInTable
<1> QED BY <1>1, <1>3, <1>4, <1>5, <1>6 DEF ExtractionInv, AllRead

----------------------------------------------------------------------------
(* The loop over the paragraphs of an element.                             *)

Group == [from : Int, to : Int]

Count == Len(groups)

LoopType ==
    /\ n \in Nat /\ g \in Nat \ {0} /\ o \in Nat /\ i \in 0 .. n
    /\ groups \in Seq(Group)
    /\ pc \in {"idle", "check", "loop", "done", "raised"}

(* A group follows the one before it as the stride says and goes beyond it.*)
Chained ==
    /\ \A k \in 1 .. Count : /\ 0 <= groups[k].from /\ groups[k].from < groups[k].to
                             /\ k <= groups[k].to /\ groups[k].to <= n
    /\ \A k \in 2 .. Count : /\ groups[k - 1].to = groups[k - 1].from + g
                             /\ groups[k].from = groups[k - 1].to - o
                             /\ groups[k - 1].to < groups[k].to

(* The paragraphs before the end of the last group are in some group.      *)
Covered ==
    Count > 0 => \A p \in 0 .. groups[Count].to - 1 :
                     \E k \in 1 .. Count : groups[k].from <= p /\ p < groups[k].to

(* Where the next group starts.                                            *)
Position ==
    /\ pc \in {"check", "raised"} => Count = 0 /\ i = 0
    /\ pc = "loop" => /\ o < g /\ i < n
                      /\ Count = 0 => i = 0
                      /\ Count > 0 => /\ groups[Count].to = groups[Count].from + g
                                      /\ groups[Count].to < n
                                      /\ i = groups[Count].to - o
    /\ pc = "done" => (n = 0 /\ Count = 0) \/ (Count > 0 /\ groups[Count].to = n)

LoopInv == LoopType /\ Chained /\ Covered /\ Position

(* The group an iteration appends.                                         *)
NextGroup == [from |-> i, to |-> Loop!UpTo(i + g)]

LEMMA AppendedGroup ==
    ASSUME LoopType, groups' = Append(groups, NextGroup)
    PROVE  /\ groups' \in Seq(Group) /\ Count' = Count + 1
           /\ groups'[Count + 1].from = i /\ groups'[Count + 1].to = Loop!UpTo(i + g)
           /\ \A k \in 1 .. Count : groups'[k] = groups[k]
BY DEF LoopType, Group, Count, NextGroup, Loop!UpTo

LEMMA IterateKeepsInv ==
    ASSUME LoopInv, Loop!Iterate
    PROVE  LoopInv'
<1> USE DEF LoopInv
<1>1. /\ i < n /\ 0 <= o /\ o < g /\ 0 <= i
      /\ n \in Nat /\ g \in Int /\ o \in Int /\ i \in Int /\ Count \in Nat
      BY DEF Loop!Iterate, Position, LoopType, Count
<1>2. groups' = Append(groups, NextGroup) /\ UNCHANGED <<n, g, o>>
      BY <1>1 DEF Loop!Iterate, NextGroup
<1>3. \/ Loop!EndReached /\ pc' = "done" /\ i' = i
      \/ ~Loop!EndReached /\ pc' = "loop" /\ i' = i + Loop!Stride
      BY <1>1 DEF Loop!Iterate
<1>4. /\ groups' \in Seq(Group) /\ Count' = Count + 1
      /\ groups'[Count + 1].from = i /\ groups'[Count + 1].to = Loop!UpTo(i + g)
      /\ \A k \in 1 .. Count : groups'[k] = groups[k]
      BY <1>2, AppendedGroup
<1>5. LoopType'
  <2>1. i' \in 0 .. n
        BY <1>1, <1>3 DEF Loop!EndReached, Loop!Stride, LoopType
  <2>2. n \in Nat /\ g \in Nat \ {0} /\ o \in Nat /\ pc' \in {"idle", "check", "loop", "done", "raised"}
        BY <1>3 DEF LoopType
  <2> QED BY <1>2, <1>4, <2>1, <2>2 DEF LoopType
<1>6. /\ Loop!UpTo(i + g) \in Int /\ i < Loop!UpTo(i + g) /\ Loop!UpTo(i + g) <= n
      /\ Loop!EndReached => Loop!UpTo(i + g) = n
      /\ ~Loop!EndReached => Loop!UpTo(i + g) = i + g /\ i + g < n
      BY <1>1 DEF Loop!UpTo, Loop!EndReached
<1>7. \A k \in 1 .. Count : groups[k] \in Group
      BY DEF LoopType, Count
<1>8. Count > 0 => /\ groups[Count].to = groups[Count].from + g /\ i = groups[Count].to - o
                   /\ groups[Count].to < Loop!UpTo(i + g) /\ Count <= groups[Count].to
                   /\ groups[Count] \in Group
      BY <1>1, <1>6, <1>7 DEF Loop!Iterate, Position, Chained, Loop!UpTo, Group
<1>9. Chained'
  <2>1. \A k \in 1 .. Count + 1 : /\ 0 <= groups'[k].from /\ groups'[k].from < groups'[k].to
                                  /\ k <= groups'[k].to /\ groups'[k].to <= n
    <3> SUFFICES ASSUME NEW k \in 1 .. Count + 1
                 PROVE  /\ 0 <= groups'[k].from /\ groups'[k].from < groups'[k].to
                        /\ k <= groups'[k].to /\ groups'[k].to <= n
        OBVIOUS
    <3>1. CASE k \in 1 .. Count
      <4>1. groups'[k] = groups[k]
            BY <1>4, <3>1
      <4> QED BY <3>1, <4>1 DEF Chained
    <3>2. CASE k = Count + 1
      <4>1. Count + 1 <= Loop!UpTo(i + g)
        <5>1. CASE Count = 0
              BY <1>1, <1>6, <5>1
        <5>2. CASE Count > 0
              BY <1>1, <1>6, <1>8, <5>2 DEF Group
        <5> QED BY <1>1, <5>1, <5>2
      <4> QED BY <1>1, <1>4, <1>6, <3>2, <4>1
    <3> QED BY <1>1, <3>1, <3>2
  <2>2. \A k \in 2 .. Count + 1 : /\ groups'[k - 1].to = groups'[k - 1].from + g
                                  /\ groups'[k].from = groups'[k - 1].to - o
                                  /\ groups'[k - 1].to < groups'[k].to
    <3> SUFFICES ASSUME NEW k \in 2 .. Count + 1
                 PROVE  /\ groups'[k - 1].to = groups'[k - 1].from + g
                        /\ groups'[k].from = groups'[k - 1].to - o
                        /\ groups'[k - 1].to < groups'[k].to
        OBVIOUS
    <3>1. CASE k = Count + 1
      <4>1. Count > 0 /\ k - 1 = Count /\ groups'[k - 1] = groups[Count]
            BY <1>1, <1>4, <3>1
      <4> QED BY <1>4, <1>8, <3>1, <4>1
    <3>2. CASE k # Count + 1
      <4>1. k \in 2 .. Count /\ groups'[k] = groups[k] /\ groups'[k - 1] = groups[k - 1]
            BY <1>1, <1>4, <3>2
      <4> QED BY <4>1 DEF Chained
    <3> QED BY <3>1, <3>2
  <2> QED BY <1>2, <1>4, <2>1, <2>2 DEF Chained
<1>10. Covered'
  <2> SUFFICES ASSUME NEW p \in 0 .. Loop!UpTo(i + g) - 1
               PROVE  \E k \in 1 .. Count + 1 : groups'[k].from <= p /\ p < groups'[k].to
      BY <1>1, <1>4 DEF Covered
  <2>1. CASE i <= p
        BY <1>1, <1>4, <1>6, <2>1
  <2>2. CASE p < i
    <3>1. Count > 0
          BY <1>1, <2>2 DEF Loop!Iterate, Position
    <3>2. p \in 0 .. groups[Count].to - 1
          BY <1>1, <1>6, <1>8, <2>2, <3>1 DEF Group
    <3>3. PICK k \in 1 .. Count : groups[k].from <= p /\ p < groups[k].to
          BY <3>1, <3>2 DEF Covered
    <3> QED BY <1>1, <1>4, <3>3
  <2> QED BY <1>1, <1>6, <2>1, <2>2
<1>11. Position'
       BY <1>1, <1>2, <1>3, <1>4, <1>6 DEF Position, Loop!Stride
<1> QED BY <1>5, <1>9, <1>10, <1>11

LEMMA LoopKeeps ==
    ASSUME LoopInv, Loop!Next
    PROVE  LoopInv'
<1>1. CASE Loop!NoParagraphs
      BY <1>1 DEF Loop!NoParagraphs, LoopInv, LoopType, Chained, Covered, Position, Count
<1>2. CASE Loop!RaiseValueError
      BY <1>2 DEF Loop!RaiseValueError, LoopInv, LoopType, Chained, Covered, Position, Count
<1>3. CASE Loop!EnterLoop
      BY <1>3 DEF Loop!EnterLoop, Loop!InvalidConfig, LoopInv, LoopType, Chained, Covered, Position, Count
<1>4. CASE Loop!Iterate
      BY <1>4, IterateKeepsInv
<1> QED BY <1>1, <1>2, <1>3, <1>4 DEF Loop!Next

----------------------------------------------------------------------------
(* The chunks.                                                             *)

ChunkShape ==
    /\ <<g, o>> \in Configs(doc)
    /\ stage # "extracted" => part = 1 /\ pc = "idle"
    /\ part \in 1 .. Len(elements) + 1
    /\ pc # "idle" => /\ part <= Len(elements) /\ elements[part].kind = "text"
                      /\ n = Len(elements[part].content)
    /\ chunks \in Seq(Elements)
    /\ part = 1 => chunks = <<>>

(* The elements before this one are in the chunks.                         *)
PartsChunked ==
    \A e \in DOMAIN elements : e < part => \A t : In(t, elements[e]) => HoldsLine(chunks, t)

(* Those of a native PDF are told apart, and the last is of the kind of the*)
(* last element: a figure after it is not next to a figure.                *)
ChunksTold ==
    Native(doc) => /\ ToldApart(chunks)
                   /\ part > 1 => chunks # <<>> /\ chunks[Len(chunks)].kind = elements[part - 1].kind

ChunkInv == ChunkShape /\ PartsChunked /\ ChunksTold

Inv == ExtractionInv /\ LoopInv /\ ChunkInv

LEMMA InIsHas ==
    ASSUME NEW t, NEW c
    PROVE  In(t, c) <=> c.kind # "table" /\ Has(c.content, t)
BY DEF In, Has

LEMMA ExtractionKeepsInv ==
    ASSUME Inv, Extraction
    PROVE  Inv'
<1>1. Extract /\ UNCHANGED <<n, g, o, i, groups, pc, part, chunks>>
      BY DEF Extraction, chunking
<1>2. stage # "extracted" /\ UNCHANGED doc
      BY <1>1 DEF Extract, ExtractScanned, FindTables, PageWithoutTables, PageWithTables, PageSplitFails, EndPdf,
                  OpenDocx, DocxParagraph, DocxTable, EndDocx
<1>3. ExtractionInv'
      BY <1>1, ExtractKeeps DEF Inv
<1>4. LoopInv'
      BY <1>1 DEF Inv, LoopInv, LoopType, Chained, Covered, Position, Count
<1>5. part = 1 /\ pc = "idle" /\ chunks = <<>> /\ part' = 1 /\ pc' = "idle" /\ chunks' = <<>>
      BY <1>1, <1>2 DEF Inv, ChunkInv, ChunkShape
<1>6. Len(elements') \in Nat
      BY <1>3 DEF ExtractionInv, ExtractionShape
<1>7. <<g, o>> \in Configs(doc) /\ <<g, o>>' = <<g, o>> /\ Configs(doc)' = Configs(doc)
      BY <1>1, <1>2 DEF Inv, ChunkInv, ChunkShape
<1>8. ChunkShape'
      BY <1>5, <1>6, <1>7 DEF ChunkShape
<1>9. PartsChunked'
  <2>1. DOMAIN elements' = 1 .. Len(elements')
        BY <1>3 DEF ExtractionInv, ExtractionShape
  <2> QED BY <1>5, <1>6, <2>1 DEF PartsChunked
<1>10. ChunksTold'
       BY <1>5 DEF ChunksTold, ToldApart
<1> QED BY <1>3, <1>4, <1>8, <1>9, <1>10 DEF Inv, ChunkInv

(* What is built leaves the document and its elements alone.               *)
LEMMA ExtractedStays ==
    ASSUME ExtractionInv, UNCHANGED extraction
    PROVE  /\ ExtractionInv' /\ Elements' = Elements /\ Native(doc)' = Native(doc)
           /\ UNCHANGED <<doc, elements, stage>>
<1>1. UNCHANGED <<doc, tables, page, buffer, elements, stage>>
      BY DEF extraction
<1>2. \A t : ReadSoFar(t)' <=> ReadSoFar(t)
      BY <1>1 DEF ReadSoFar
<1>3. \A r, q : BesideTable(r, q)' <=> BesideTable(r, q)
      BY <1>1 DEF BesideTable, TablesOf
<1>4. ExtractionShape'
      BY <1>1, SameDocument DEF ExtractionInv, ExtractionShape
<1>5. PagesRead' /\ BodyRead'
      BY <1>1, <1>2, <1>3, SameDocument DEF ExtractionInv, PagesRead, BodyRead
<1>6. AllRead' /\ FiguresApart'
      BY <1>1, SameDocument DEF ExtractionInv, AllRead, FiguresApart
<1> QED BY <1>1, <1>4, <1>5, <1>6, SameDocument DEF ExtractionInv

LEMMA AddAtomicKeeps ==
    ASSUME Inv, AddAtomic
    PROVE  Inv'
<1> DEFINE e == elements[part]
<1>1. /\ stage = "extracted" /\ pc = "idle" /\ part <= Len(elements) /\ e.kind # "text"
      /\ chunks' = Append(chunks, e) /\ part' = part + 1 /\ UNCHANGED extraction
      /\ UNCHANGED <<n, g, o, i, groups, pc>>
      BY DEF AddAtomic, Building, chunking
<1>2. ExtractionInv' /\ Elements' = Elements /\ Native(doc)' = Native(doc) /\ UNCHANGED <<doc, elements, stage>>
      BY <1>1, ExtractedStays DEF Inv
<1>3. LoopInv'
      BY <1>1 DEF Inv, LoopInv, LoopType, Chained, Covered, Position, Count
<1>4. /\ elements \in Seq(Elements) /\ chunks \in Seq(Elements) /\ part \in 1 .. Len(elements)
      /\ Len(elements) \in Nat /\ DOMAIN elements = 1 .. Len(elements) /\ e \in Elements
      BY <1>1 DEF Inv, ExtractionInv, ExtractionShape, ChunkInv, ChunkShape
<1> HIDE DEF e
<1>5. /\ chunks' \in Seq(Elements) /\ Len(chunks') = Len(chunks) + 1 /\ Len(chunks) \in Nat
      /\ chunks'[Len(chunks) + 1] = e /\ \A k \in 1 .. Len(chunks) : chunks'[k] = chunks[k]
      /\ DOMAIN chunks = 1 .. Len(chunks) /\ DOMAIN chunks' = 1 .. Len(chunks) + 1 /\ chunks' # <<>>
      BY <1>1, <1>4
<1>6. ChunkShape'
  <2>1. <<g, o>>' \in Configs(doc)'
        BY <1>1, <1>2 DEF Inv, ChunkInv, ChunkShape
  <2>2. part' \in 1 .. Len(elements') + 1 /\ part' # 1 /\ stage' = "extracted" /\ pc' = "idle"
        BY <1>1, <1>2, <1>4
  <2> QED BY <1>2, <1>5, <2>1, <2>2 DEF ChunkShape
<1>7. PartsChunked'
  <2> SUFFICES ASSUME NEW k \in DOMAIN elements, k < part + 1, NEW t, In(t, elements[k])
               PROVE  HoldsLine(chunks', t)
      BY <1>1, <1>2 DEF PartsChunked, In
  <2>1. CASE k < part
    <3>1. HoldsLine(chunks, t)
          BY <2>1 DEF Inv, ChunkInv, PartsChunked
    <3> QED BY <1>5, <3>1 DEF HoldsLine
  <2>2. CASE k = part
    <3>1. e.kind # "table" /\ Has(e.content, t)
          BY <2>2, InIsHas DEF e
    <3>2. Len(chunks) + 1 \in DOMAIN chunks'
          BY <1>5
    <3> QED BY <1>5, <3>1, <3>2 DEF HoldsLine
  <2> QED BY <1>4, <2>1, <2>2
<1>8. ChunksTold'
  <2> SUFFICES ASSUME Native(doc)
               PROVE  ToldApart(chunks') /\ chunks'[Len(chunks')].kind = elements[part].kind
    <3>1. (part + 1) - 1 = part
          BY <1>4
    <3> QED BY <1>1, <1>2, <1>5, <3>1 DEF ChunksTold
  <2>1. /\ ToldApart(elements) /\ ToldApart(chunks)
        /\ part > 1 => chunks # <<>> /\ chunks[Len(chunks)].kind = elements[part - 1].kind
        /\ part = 1 => chunks = <<>>
        BY DEF Inv, ExtractionInv, FiguresApart, ChunkInv, ChunksTold, ChunkShape
  <2>2. \A k \in DOMAIN chunks' : IsTold(chunks'[k])
    <3>1. IsTold(e)
          BY <1>4, <2>1 DEF ToldApart, e
    <3> QED BY <1>5, <2>1, <3>1 DEF ToldApart
  <2>3. ASSUME NEW k \in 2 .. Len(chunks') PROVE ~(chunks'[k - 1].kind = "figure" /\ chunks'[k].kind = "figure")
    <3>1. CASE k <= Len(chunks)
      <4>1. k \in 2 .. Len(chunks) /\ k \in 1 .. Len(chunks) /\ k - 1 \in 1 .. Len(chunks)
            BY <1>5, <3>1
      <4> QED BY <1>5, <2>1, <4>1 DEF ToldApart
    <3>2. CASE k = Len(chunks) + 1
      <4>1. Len(chunks) # 0 /\ k - 1 = Len(chunks) /\ Len(chunks) \in 1 .. Len(chunks)
            BY <1>5, <3>2
      <4>2. part # 1
            BY <1>5, <2>1, <4>1
      <4>3. part \in 2 .. Len(elements)
            BY <1>4, <4>2
      <4>4. ~(elements[part - 1].kind = "figure" /\ elements[part].kind = "figure")
            BY <2>1, <4>3 DEF ToldApart
      <4>5. chunks'[k - 1].kind = elements[part - 1].kind
            BY <1>5, <2>1, <4>1, <4>3
      <4> QED BY <1>5, <3>2, <4>4, <4>5 DEF e
    <3> QED BY <1>5, <3>1, <3>2
  <2> QED BY <1>5, <2>2, <2>3 DEF ToldApart, e
<1> QED BY <1>2, <1>3, <1>6, <1>7, <1>8 DEF Inv, ChunkInv

LEMMA BeginTextKeeps ==
    ASSUME Inv, BeginText
    PROVE  Inv'
<1>1. /\ stage = "extracted" /\ pc = "idle" /\ part <= Len(elements) /\ elements[part].kind = "text"
      /\ n' = Len(elements[part].content) /\ i' = 0 /\ groups' = <<>> /\ pc' = "check"
      /\ UNCHANGED extraction /\ UNCHANGED <<g, o, part, chunks>>
      BY DEF BeginText, Building
<1>2. ExtractionInv' /\ Elements' = Elements /\ Native(doc)' = Native(doc) /\ UNCHANGED <<doc, elements, stage>>
      BY <1>1, ExtractedStays DEF Inv
<1>3. elements[part] \in Elements
      BY <1>1 DEF Inv, ExtractionInv, ExtractionShape, ChunkInv, ChunkShape
<1>4. n' \in Nat
  <2>1. elements[part].content \in Seq(Prose)
        BY <1>1, <1>3 DEF Elements, Element, Prose
  <2> QED BY <1>1, <2>1
<1>5. LoopInv'
  <2>1. groups' = <<>> /\ Count' = 0
        BY <1>1 DEF Count
  <2>2. LoopType'
        BY <1>1, <1>4, <2>1 DEF LoopType, Inv, LoopInv
  <2> QED BY <1>1, <2>1, <2>2 DEF LoopInv, Chained, Covered, Position
<1>6. ChunkShape' /\ PartsChunked' /\ ChunksTold'
      BY <1>1, <1>2 DEF Inv, ChunkInv, ChunkShape, PartsChunked, ChunksTold, In
<1> QED BY <1>2, <1>5, <1>6 DEF Inv, ChunkInv

LEMMA GroupingKeeps ==
    ASSUME Inv, Grouping
    PROVE  Inv'
<1>1. Loop!Next /\ UNCHANGED extraction /\ UNCHANGED <<part, chunks>>
      BY DEF Grouping
<1>2. ExtractionInv' /\ Elements' = Elements /\ Native(doc)' = Native(doc) /\ UNCHANGED <<doc, elements, stage>>
      BY <1>1, ExtractedStays DEF Inv
<1>3. pc # "idle" /\ UNCHANGED <<n, g, o>>
      BY <1>1 DEF Loop!Next, Loop!NoParagraphs, Loop!RaiseValueError, Loop!EnterLoop, Loop!Iterate
<1>4. LoopInv'
      BY <1>1, LoopKeeps DEF Inv
<1>5. ChunkShape' /\ PartsChunked' /\ ChunksTold'
      BY <1>1, <1>2, <1>3 DEF Inv, ChunkInv, ChunkShape, PartsChunked, ChunksTold, In
<1> QED BY <1>2, <1>4, <1>5 DEF Inv, ChunkInv

(* The text of a group.                                                    *)
LEMMA TextOfGroup ==
    ASSUME NEW P, NEW ps \in Seq(P), NEW from \in Nat, NEW to \in Nat, from < to, to <= Len(ps)
    PROVE  /\ SubSeq(ps, from + 1, to) \in Seq(P) /\ SubSeq(ps, from + 1, to) # <<>>
           /\ DOMAIN SubSeq(ps, from + 1, to) = 1 .. to - from
           /\ \A j \in 1 .. to - from : SubSeq(ps, from + 1, to)[j] = ps[from + j]
OBVIOUS

LEMMA AddGroupsKeeps ==
    ASSUME Inv, AddGroups
    PROVE  Inv'
<1> DEFINE ps == elements[part].content
           text(k) == TextElement(SubSeq(ps, groups[k].from + 1, groups[k].to))
           added == [k \in 1 .. Count |-> text(k)]
<1>1. /\ pc = "done" /\ part' = part + 1 /\ pc' = "idle"
      /\ chunks' = chunks \o [k \in DOMAIN groups |-> text(k)]
      /\ UNCHANGED extraction /\ UNCHANGED <<n, g, o, i, groups>>
      BY DEF AddGroups
<1>2. ExtractionInv' /\ Elements' = Elements /\ Native(doc)' = Native(doc) /\ UNCHANGED <<doc, elements, stage>>
      BY <1>1, ExtractedStays DEF Inv
<1>3. LoopInv'
      BY <1>1 DEF Inv, LoopInv, LoopType, Chained, Covered, Position, Count
<1>4. /\ stage = "extracted" /\ part \in 1 .. Len(elements) /\ elements[part].kind = "text"
      /\ n = Len(ps) /\ chunks \in Seq(Elements) /\ elements \in Seq(Elements)
      /\ Len(elements) \in Nat /\ DOMAIN elements = 1 .. Len(elements) /\ elements[part] \in Elements
      BY <1>1 DEF Inv, ExtractionInv, ExtractionShape, ChunkInv, ChunkShape
<1>5. ps \in Seq(Prose)
      BY <1>4 DEF Elements, Element, Prose
<1>6. /\ Count \in Nat /\ DOMAIN groups = 1 .. Count /\ groups \in Seq(Group)
      /\ \A k \in 1 .. Count : /\ groups[k].from \in Nat /\ groups[k].to \in Nat
                               /\ groups[k].from < groups[k].to /\ groups[k].to <= Len(ps)
  <2>1. Count \in Nat /\ DOMAIN groups = 1 .. Count /\ groups \in Seq(Group)
        BY DEF Inv, LoopInv, LoopType, Count
  <2>2. \A k \in 1 .. Count : groups[k] \in Group
        BY <2>1
  <2> QED BY <1>4, <2>1, <2>2 DEF Inv, LoopInv, Chained, Group
<1>7. chunks' = chunks \o added
      BY <1>1, <1>6
<1>8. ASSUME NEW k \in 1 .. Count
      PROVE  /\ text(k).kind = "text" /\ text(k).content \in Seq(Prose) /\ text(k).content # <<>>
             /\ DOMAIN text(k).content = 1 .. groups[k].to - groups[k].from
             /\ \A j \in 1 .. groups[k].to - groups[k].from : text(k).content[j] = ps[groups[k].from + j]
             /\ text(k) \in Elements
  <2>1. text(k).kind = "text" /\ text(k).content = SubSeq(ps, groups[k].from + 1, groups[k].to)
        BY DEF TextElement
  <2> DEFINE sub == SubSeq(ps, groups[k].from + 1, groups[k].to)
  <2>2. /\ sub \in Seq(Prose) /\ sub # <<>> /\ DOMAIN sub = 1 .. groups[k].to - groups[k].from
        /\ \A j \in 1 .. groups[k].to - groups[k].from : sub[j] = ps[groups[k].from + j]
    <3> HIDE DEF ps
    <3>1. groups[k].from \in Nat /\ groups[k].to \in Nat /\ groups[k].from < groups[k].to /\ groups[k].to <= Len(ps)
          BY <1>6
    <3> DEFINE from == groups[k].from
               to   == groups[k].to
    <3>2. from \in Nat /\ to \in Nat /\ from < to /\ to <= Len(ps)
          BY <3>1
    <3> HIDE DEF from, to
    <3>3. /\ SubSeq(ps, from + 1, to) \in Seq(Prose) /\ SubSeq(ps, from + 1, to) # <<>>
          /\ DOMAIN SubSeq(ps, from + 1, to) = 1 .. to - from
          /\ \A j \in 1 .. to - from : SubSeq(ps, from + 1, to)[j] = ps[from + j]
          BY <1>5, <3>2, TextOfGroup
    <3> QED BY <3>3 DEF from, to
  <2>3. text(k) \in Elements
        BY <2>2 DEF TextElement, Elements, Element, Prose
  <2> QED BY <2>1, <2>2, <2>3
<1>9. /\ added \in Seq(Elements) /\ Len(added) = Count /\ DOMAIN added = 1 .. Count
      /\ \A k \in 1 .. Count : added[k] = text(k)
      BY <1>6, <1>8
<1> HIDE DEF text, added
<1>10. /\ chunks' \in Seq(Elements) /\ Len(chunks') = Len(chunks) + Count /\ Len(chunks) \in Nat
       /\ DOMAIN chunks = 1 .. Len(chunks) /\ DOMAIN chunks' = 1 .. Len(chunks) + Count
       /\ \A k \in 1 .. Len(chunks) : chunks'[k] = chunks[k]
       /\ \A k \in 1 .. Count : chunks'[Len(chunks) + k] = text(k)
       BY <1>4, <1>7, <1>9, Concatenated
<1>11. ChunkShape'
  <2>1. <<g, o>>' \in Configs(doc)'
        BY <1>1, <1>2 DEF Inv, ChunkInv, ChunkShape
  <2>2. part' \in 1 .. Len(elements') + 1 /\ part' # 1 /\ stage' = "extracted" /\ pc' = "idle"
        BY <1>1, <1>2, <1>4
  <2> QED BY <1>2, <1>10, <2>1, <2>2 DEF ChunkShape
<1>12. PartsChunked'
  <2> SUFFICES ASSUME NEW e \in DOMAIN elements, e < part + 1, NEW t, In(t, elements[e])
               PROVE  HoldsLine(chunks', t)
      BY <1>1, <1>2 DEF PartsChunked, In
  <2>1. CASE e < part
    <3>1. HoldsLine(chunks, t)
          BY <2>1 DEF Inv, ChunkInv, PartsChunked
    <3> QED BY <1>7, <1>4, <1>9, <3>1, ConcatHoldsLines
  <2>2. CASE e = part
    <3>1. Has(ps, t)
          BY <2>2, InIsHas
    <3>2. PICK a \in DOMAIN ps : \E b \in DOMAIN ps[a] : ps[a][b] = t
          BY <3>1 DEF Has
    <3>3. a \in 1 .. n /\ n # 0 /\ n \in Nat
          BY <1>4, <1>5, <3>2
    <3>4. Count > 0 /\ groups[Count].to = n
          BY <1>1, <3>3 DEF Inv, LoopInv, Position
    <3>5. PICK k \in 1 .. Count : groups[k].from <= a - 1 /\ a - 1 < groups[k].to
      <4>1. a - 1 \in 0 .. groups[Count].to - 1
            BY <3>3, <3>4
      <4> QED BY <3>4, <4>1 DEF Inv, LoopInv, Covered
    <3>6. /\ a - groups[k].from \in 1 .. groups[k].to - groups[k].from
          /\ groups[k].from + (a - groups[k].from) = a
          BY <1>6, <3>3, <3>5
    <3>7. /\ a - groups[k].from \in DOMAIN text(k).content
          /\ text(k).content[a - groups[k].from] = ps[a] /\ text(k).kind # "table"
          BY <1>8, <3>6
    <3>8. Has(text(k).content, t)
          BY <3>2, <3>7 DEF Has
    <3>9. Len(chunks) + k \in DOMAIN chunks' /\ chunks'[Len(chunks) + k] = text(k)
          BY <1>6, <1>10
    <3> QED BY <3>7, <3>8, <3>9 DEF HoldsLine
  <2> QED BY <1>4, <2>1, <2>2
<1>13. ChunksTold'
  <2> SUFFICES ASSUME Native(doc)
               PROVE  ToldApart(chunks') /\ chunks' # <<>> /\ chunks'[Len(chunks')].kind = "text"
    <3>1. (part + 1) - 1 = part
          BY <1>4
    <3> QED BY <1>1, <1>2, <1>4, <3>1 DEF ChunksTold
  <2>1. ToldApart(elements) /\ ToldApart(chunks)
        BY DEF Inv, ExtractionInv, FiguresApart, ChunkInv, ChunksTold
  <2>2. ps # <<>> /\ Told(elements[part])
        BY <1>4, <2>1 DEF ToldApart, IsTold
  <2>3. Count > 0
    <3>1. n # 0
          BY <1>4, <1>5, <2>2
    <3> QED BY <1>1, <3>1 DEF Inv, LoopInv, Position
  <2>4. \A k \in DOMAIN chunks' : k > Len(chunks) => chunks'[k].kind = "text" /\ IsTold(chunks'[k])
    <3> SUFFICES ASSUME NEW k \in DOMAIN chunks', k > Len(chunks)
                 PROVE  chunks'[k].kind = "text" /\ IsTold(chunks'[k])
        OBVIOUS
    <3> DEFINE m == k - Len(chunks)
    <3>1. m \in 1 .. Count /\ Len(chunks) + m = k
          BY <1>6, <1>10
    <3> HIDE DEF m
    <3>2. chunks'[k] = text(m)
          BY <1>10, <3>1
    <3>3. Told(text(m))
      <4> SUFFICES ASSUME NEW j \in DOMAIN text(m).content
                   PROVE  FigureKind(text(m).content[j]) = "text"
          BY <1>8, <3>1 DEF Told
      <4>1. j \in 1 .. groups[m].to - groups[m].from /\ text(m).content[j] = ps[groups[m].from + j]
            BY <1>8, <3>1
      <4>2. groups[m].from + j \in DOMAIN ps
            BY <1>5, <1>6, <3>1, <4>1
      <4> QED BY <1>4, <2>2, <4>1, <4>2 DEF Told
    <3> QED BY <1>8, <3>1, <3>2, <3>3 DEF IsTold
  <2>5. \A k \in DOMAIN chunks' : IsTold(chunks'[k])
    <3> SUFFICES ASSUME NEW k \in DOMAIN chunks', k <= Len(chunks) PROVE IsTold(chunks'[k])
        BY <1>10, <2>4
    <3> QED BY <1>10, <2>1 DEF ToldApart
  <2>6. ASSUME NEW k \in 2 .. Len(chunks') PROVE ~(chunks'[k - 1].kind = "figure" /\ chunks'[k].kind = "figure")
    <3>1. CASE k <= Len(chunks)
      <4>1. k \in 2 .. Len(chunks) /\ k \in 1 .. Len(chunks) /\ k - 1 \in 1 .. Len(chunks)
            BY <1>10, <3>1
      <4> QED BY <1>10, <2>1, <4>1 DEF ToldApart
    <3>2. CASE k > Len(chunks)
      <4>1. k \in DOMAIN chunks'
            BY <1>6, <1>10
      <4> QED BY <2>4, <3>2, <4>1
    <3> QED BY <1>10, <3>1, <3>2
  <2>7. Len(chunks') \in DOMAIN chunks' /\ Len(chunks') > Len(chunks) /\ chunks' # <<>>
        BY <1>6, <1>10, <2>3
  <2> QED BY <2>4, <2>5, <2>6, <2>7 DEF ToldApart
<1> QED BY <1>2, <1>3, <1>11, <1>12, <1>13 DEF Inv, ChunkInv

LEMMA InvKept ==
    ASSUME Inv, [Next]_vars
    PROVE  Inv'
<1>1. CASE UNCHANGED vars
  <2>1. UNCHANGED extraction /\ UNCHANGED <<n, g, o, i, groups, pc, part, chunks>>
        BY <1>1 DEF vars, chunking
  <2>2. ExtractionInv' /\ Elements' = Elements /\ Native(doc)' = Native(doc) /\ UNCHANGED <<doc, elements, stage>>
        BY <2>1, ExtractedStays DEF Inv
  <2>3. LoopInv'
        BY <2>1 DEF Inv, LoopInv, LoopType, Chained, Covered, Position, Count
  <2>4. ChunkShape' /\ PartsChunked' /\ ChunksTold'
        BY <2>1, <2>2 DEF Inv, ChunkInv, ChunkShape, PartsChunked, ChunksTold, In
  <2> QED BY <2>2, <2>3, <2>4 DEF Inv, ChunkInv
<1> QED BY <1>1, ExtractionKeepsInv, AddAtomicKeeps, BeginTextKeeps, GroupingKeeps, AddGroupsKeeps
        DEF Next, Finished

LEMMA InvHolds == Spec => []Inv
<1>1. ChunksInit => Inv
  <2> SUFFICES ASSUME ChunksInit PROVE Inv
      OBVIOUS
  <2>1. ExtractionInv
        BY InitRead DEF ChunksInit
  <2>2. doc \in Documents /\ elements = <<>> /\ n = 0 /\ i = 0 /\ groups = <<>> /\ pc = "idle"
        /\ part = 1 /\ chunks = <<>> /\ stage = "open"
        BY DEF ChunksInit, Init
  <2>3. PICK c \in Configs(doc) : g = c[1] /\ o = c[2]
        BY DEF ChunksInit
  <2>4. <<g, o>> \in Configs(doc) /\ g \in Nat \ {0} /\ o \in Nat
    <3>1. c \in (Nat \ {0}) \X Nat
          BY <2>2, <2>3, BoundsOK
    <3>2. c = <<c[1], c[2]>>
          BY <3>1
    <3> QED BY <2>3, <3>1, <3>2
  <2>5. LoopInv
        BY <2>2, <2>4 DEF LoopInv, LoopType, Chained, Covered, Position, Count
  <2>6. ChunkInv
        BY <2>2, <2>4 DEF ChunkInv, ChunkShape, PartsChunked, ChunksTold, ToldApart
  <2> QED BY <2>1, <2>5, <2>6 DEF Inv
<1> QED BY <1>1, InvKept, PTL DEF Spec

----------------------------------------------------------------------------
(* Tables in their place.                                                  *)

(* The lines that are read on a page and on the pages before it, and the   *)
(* tables found on those.                                                  *)
LinesOn(q) == {r.text : r \in {r \in doc.pages[q].runs : r.text \notin Skipped}}
LinesTo(p) == UNION {LinesOn(q) : q \in {q \in 1 .. Pages : q < p}}
FoundTo(p) == {t \in tables : t.page < p}

(* Tables whose place is kept, and where a line occurs.                    *)
Placed(t) == t.page \notin unsplit /\ OneColumn(t.page)

StandsAbove(x, t) ==
    \E p \in 1 .. Pages : \E r \in doc.pages[p].runs :
        r.text = x /\ (p < t.page \/ (p = t.page /\ r.y < Top(t)))
StandsBelow(x, t) ==
    \E p \in 1 .. Pages : \E r \in doc.pages[p].runs :
        r.text = x /\ (p > t.page \/ (p = t.page /\ r.y >= Top(t)))

Up   == {q \in Wordings \X TablesIn : Placed(q[2]) => StandsAbove(q[1], q[2])}
Down == {q \in Wordings \X TablesIn : Placed(q[2]) => StandsBelow(q[1], q[2])}

PagesArranged ==
    Native(doc) => /\ elements \in Seq(Element(LinesTo(page), FoundTo(page)))
                   /\ buffer \in Seq(Paragraph(LinesTo(page)))
                   /\ ReadArranged(Up, Down, [es |-> elements, prose |-> buffer])
                   /\ \A t \in FoundTo(page) : Among(TableElement(t), elements)

LEMMA UpAndDown ==
    ASSUME NEW x \in Wordings, NEW t \in TablesIn
    PROVE  /\ <<x, t>> \in Up <=> (Placed(t) => StandsAbove(x, t))
           /\ <<x, t>> \in Down <=> (Placed(t) => StandsBelow(x, t))
BY DEF Up, Down

(* The relations only grow: a page is given up before its tables are read. *)
LEMMA UpAndDownGrow ==
    ASSUME UNCHANGED doc, unsplit \subseteq unsplit'
    PROVE  Up \subseteq Up' /\ Down \subseteq Down'
<1>1. \A t : Placed(t)' => Placed(t)
      BY DEF Placed, OneColumn, Skipped
<1>2. \A x, t : StandsAbove(x, t)' = StandsAbove(x, t) /\ StandsBelow(x, t)' = StandsBelow(x, t)
      BY DEF StandsAbove, StandsBelow, Pages
<1>3. Wordings' = Wordings /\ TablesIn' = TablesIn
      BY SameDocument
<1> QED BY <1>1, <1>2, <1>3 DEF Up, Down

(* A page's runs, in the order in which they are read.                     *)
LEMMA PageLines ==
    ASSUME doc \in Documents, Native(doc), NEW q \in 1 .. Pages
    PROVE  LET objs == {r \in doc.pages[q].runs : r.text \notin Skipped}
           IN  /\ TextObjects(q) \in Seq(objs)
               /\ \A r \in objs : r.text \in LinesOn(q) /\ r.y \in Int
               /\ LinesOn(q) \subseteq Wordings
               /\ PlainText(q) \in Seq(Paragraph(LinesOn(q)))
               /\ OneColumn(q) => TopToBottom(TextObjects(q))
<1> DEFINE runs == doc.pages[q].runs
           objs == {r \in runs : r.text \notin Skipped}
           read == TextObjects(q)
<1>1. IsPdf(doc) /\ ~NeedsOcr
      BY DEF Native
<1>2. PagesOK(doc.pages)
      BY <1>1, DocumentsOK
<1>3. q \in DOMAIN doc.pages
  <2>1. doc.pages \in Seq(Range(doc.pages))
        BY <1>2 DEF PagesOK, IsSequence
  <2> QED BY <2>1 DEF Pages
<1>4. RunsOK(runs)
      BY <1>2, <1>3 DEF PagesOK, RunsOK
<1>5. RunsOK(objs)
  <2>1. objs \in SUBSET runs
        OBVIOUS
  <2> HIDE DEF objs, runs
  <2> QED BY <1>4, <2>1, RunsOfPart
<1>6. \A r \in objs : r.text \in LinesOn(q)
      BY DEF LinesOn
<1>7. LinesOn(q) \subseteq Wordings
      BY <1>1, <1>3 DEF LinesOn, Wordings, RunsOf
<1>8. read = OrderPageTextObjects(objs)
      BY DEF TextObjects
<1>9. OneColumn(q) <=> ~TwoColumns(objs)
      BY DEF OneColumn
<1> HIDE DEF objs, read, runs
<1>10. read \in Seq(objs)
       BY <1>5, <1>8, OrderReadsAll
<1>11. \A r \in objs : r.y \in Int /\ r.x0 \in Int
       BY <1>5 DEF RunsOK
<1>12. ASSUME OneColumn(q) PROVE TopToBottom(read)
  <2>1. read = TopDown(objs)
        BY <1>8, <1>9, <1>12 DEF OrderPageTextObjects
  <2>2. \A j, k \in 1 .. Len(read) : j < k => Above(read[j], read[k])
        BY <1>5, <2>1, TopDownSorts
  <2>3. \A k \in 1 .. Len(read) : read[k] \in objs
        BY <1>10
  <2>4. \A a, b \in objs : Above(a, b) => a.y <= b.y
        BY <1>11 DEF Above
  <2>5. DOMAIN read = 1 .. Len(read)
        BY <1>10
  <2> QED BY <2>2, <2>3, <2>4, <2>5 DEF TopToBottom
<1>13. PlainText(q) = ReconstructParagraphs(Texts(read))
       BY DEF PlainText, read
<1>14. Texts(read) \in Seq(LinesOn(q))
       BY <1>6, <1>10, TextsOf
<1>15. PlainText(q) \in Seq(Paragraph(LinesOn(q)))
       BY <1>13, <1>14, ParagraphsHoldLines
<1> QED BY <1>6, <1>7, <1>10, <1>11, <1>12, <1>15 DEF objs, runs, read

LEMMA FoundOnPages ==
    ASSUME ExtractionShape, Native(doc)
    PROVE  /\ Pages \in Nat
           /\ \A t \in TablesIn : t.page \in 1 .. Pages
           /\ tables \subseteq TablesIn
<1>1. IsPdf(doc) /\ doc \in Documents
      BY DEF Native, ExtractionShape
<1>2. doc.pages \in Seq(Range(doc.pages)) /\ TablesIn = doc.lattice \cup doc.stream
      BY <1>1, DocumentsOK DEF PagesOK, IsSequence, TablesIn
<1>3. \A t \in doc.lattice \cup doc.stream : t.page \in DOMAIN doc.pages
      BY <1>1, DocumentsOK
<1>4. Pages \in Nat /\ DOMAIN doc.pages = 1 .. Pages
      BY <1>2 DEF Pages
<1> QED BY <1>1, <1>2, <1>3, <1>4 DEF ExtractionShape

LEMMA NextPage ==
    ASSUME ExtractionShape, Native(doc), NEW p \in 1 .. Pages
    PROVE  /\ LinesTo(p + 1) = LinesTo(p) \cup LinesOn(p)
           /\ FoundTo(p + 1) = FoundTo(p) \cup TablesOf(p)
<1>1. Pages \in Nat /\ \A t \in tables : t.page \in 1 .. Pages
      BY FoundOnPages
<1>2. \A q \in 1 .. Pages : q < p + 1 <=> q < p \/ q = p
      BY <1>1
<1>3. LinesTo(p + 1) = LinesTo(p) \cup LinesOn(p)
      BY <1>2 DEF LinesTo
<1>4. FoundTo(p + 1) = FoundTo(p) \cup TablesOf(p)
      BY <1>1, <1>2 DEF FoundTo, TablesOf
<1> QED BY <1>3, <1>4

(* What was read on earlier pages may precede what is read on this one.    *)
LEMMA EarlierPagesFirst ==
    ASSUME ExtractionShape, Native(doc), NEW p \in 1 .. Pages,
           NEW a \in Element(LinesTo(p), FoundTo(p)), NEW b \in Element(LinesOn(p), TablesOf(p))
    PROVE  Follows(Up, Down, a, b)
<1>1. /\ Pages \in Nat /\ p \in Nat /\ doc \in Documents /\ tables \subseteq TablesIn
      /\ \A t \in TablesIn : t.page \in 1 .. Pages
      BY FoundOnPages DEF ExtractionShape
<1>2. /\ a.kind # "table" => a.content \in Seq(Paragraph(LinesTo(p)))
      /\ a.kind = "table" => a.content \in FoundTo(p)
      /\ b.kind # "table" => b.content \in Seq(Paragraph(LinesOn(p)))
      /\ b.kind = "table" => b.content \in TablesOf(p)
      BY DEF Element
<1>3. ASSUME a.kind # "table", b.kind = "table", NEW x, Has(a.content, x) PROVE <<x, b.content>> \in Up
  <2>1. x \in LinesTo(p)
        BY <1>2, <1>3, LinesFrom
  <2>2. PICK q \in 1 .. Pages : q < p /\ x \in LinesOn(q)
        BY <2>1 DEF LinesTo
  <2>3. x \in Wordings
        BY <1>1, <2>2, PageLines
  <2>4. b.content \in TablesIn /\ b.content.page = p
        BY <1>1, <1>2, <1>3 DEF TablesOf
  <2>5. \E r \in doc.pages[q].runs : r.text = x
        BY <2>2 DEF LinesOn
  <2>6. StandsAbove(x, b.content)
        BY <2>2, <2>4, <2>5 DEF StandsAbove
  <2> QED BY <2>3, <2>4, <2>6, UpAndDown
<1>4. ASSUME a.kind = "table", b.kind # "table", NEW x, Has(b.content, x) PROVE <<x, a.content>> \in Down
  <2>1. x \in LinesOn(p)
        BY <1>2, <1>4, LinesFrom
  <2>2. x \in Wordings
        BY <1>1, <2>1, PageLines
  <2>3. a.content \in TablesIn /\ a.content.page < p /\ a.content.page \in 1 .. Pages
        BY <1>1, <1>2, <1>4 DEF FoundTo
  <2>4. \E r \in doc.pages[p].runs : r.text = x
        BY <2>1 DEF LinesOn
  <2>5. StandsBelow(x, a.content)
        BY <1>1, <2>3, <2>4 DEF StandsBelow
  <2> QED BY <2>2, <2>3, <2>5, UpAndDown
<1>5. ASSUME a.kind = "table", b.kind = "table" PROVE a.content # b.content
      BY <1>1, <1>2, <1>5 DEF FoundTo, TablesOf
<1> QED BY <1>3, <1>4, <1>5 DEF Follows

LEMMA EarlierTextFirst ==
    ASSUME ExtractionShape, Native(doc), NEW p \in 1 .. Pages,
           NEW es \in Seq(Element(LinesTo(p), FoundTo(p))), NEW b \in Element(LinesOn(p), TablesOf(p))
    PROVE  AllFollow(Up, Down, es, b)
<1>1. \A j \in DOMAIN es : es[j] \in Element(LinesTo(p), FoundTo(p))
      OBVIOUS
<1> QED BY <1>1, EarlierPagesFirst DEF AllFollow

(* The lines and tables of more pages.                                     *)
LEMMA ElementsGrow ==
    ASSUME NEW T, NEW U, NEW T2, NEW U2, T \subseteq T2, U \subseteq U2
    PROVE  /\ \A s \in Seq(Paragraph(T)) : s \in Seq(Paragraph(T2))
           /\ \A s \in Seq(Element(T, U)) : s \in Seq(Element(T2, U2))
<1>1. Paragraph(T) \subseteq Paragraph(T2)
      BY SeqMonotone DEF Paragraph
<1>2. \A s \in Seq(Paragraph(T)) : s \in Seq(Paragraph(T2))
      BY <1>1, SeqMonotone
<1>3. Element(T, U) \subseteq Element(T2, U2)
      BY <1>2 DEF Element
<1> QED BY <1>2, <1>3, SeqMonotone

(* A buffer that takes in more text.                                       *)
LEMMA BufferArranged ==
    ASSUME NEW X, NEW Y, NEW P, NEW es, NEW ps \in Seq(P), NEW qs \in Seq(P),
           AllFollow(X, Y, es, TextElement(ps)), AllFollow(X, Y, es, TextElement(qs))
    PROVE  AllFollow(X, Y, es, TextElement(ps \o qs))
<1> DEFINE both == ps \o qs
<1>1. \A x : Has(both, x) => Has(ps, x) \/ Has(qs, x)
      BY HasConcat
<1> HIDE DEF both
<1>2. \A s : TextElement(s).kind = "text" /\ TextElement(s).content = s
      BY DEF TextElement
<1>3. AllFollow(X, Y, es, TextElement(both))
      BY <1>1, <1>2 DEF AllFollow, Follows
<1> QED BY <1>3 DEF both

LEMMA SamePages ==
    ASSUME UNCHANGED <<doc, tables>>
    PROVE  LinesTo(page)' = LinesTo(page') /\ FoundTo(page)' = FoundTo(page')
BY DEF LinesTo, LinesOn, Pages, Skipped, FoundTo

(* A page is read.                                                         *)
LEMMA NextPageArranged ==
    ASSUME ExtractionInv, PagesArranged, stage = "pages", page <= Pages, UNCHANGED <<doc, tables>>, page' = page + 1,
           unsplit \subseteq unsplit',
           elements' \in Seq(Element(LinesTo(page) \cup LinesOn(page), FoundTo(page) \cup TablesOf(page))),
           buffer' \in Seq(Paragraph(LinesTo(page) \cup LinesOn(page))),
           ReadArranged(Up', Down', [es |-> elements', prose |-> buffer']),
           \A t \in FoundTo(page) \cup TablesOf(page) : Among(TableElement(t), elements')
    PROVE  PagesArranged'
<1>1. ExtractionShape /\ Native(doc) /\ page \in Nat \ {0}
      BY DEF ExtractionInv, ExtractionShape, Native
<1>2. page \in 1 .. Pages
      BY <1>1, FoundOnPages
<1>3. /\ LinesTo(page)' = LinesTo(page) \cup LinesOn(page)
      /\ FoundTo(page)' = FoundTo(page) \cup TablesOf(page)
      BY <1>1, <1>2, NextPage, SamePages
<1> QED BY <1>3 DEF PagesArranged

LEMMA PageWithoutTablesArranged ==
    ASSUME ExtractionInv, PagesArranged, PageWithoutTables
    PROVE  PagesArranged'
<1> DEFINE T == LinesTo(page) \cup LinesOn(page)
           U == FoundTo(page) \cup TablesOf(page)
<1>1. /\ stage = "pages" /\ page <= Pages /\ TablesOf(page) = {}
      /\ buffer' = buffer \o PlainText(page) /\ page' = page + 1
      /\ UNCHANGED <<doc, tables, elements, stage, unsplit>>
      BY DEF PageWithoutTables
<1>2. ExtractionShape /\ Native(doc) /\ page \in Nat \ {0} /\ doc \in Documents
      BY <1>1 DEF ExtractionInv, ExtractionShape, Native
<1>3. page \in 1 .. Pages
      BY <1>1, <1>2, FoundOnPages
<1>4. PlainText(page) \in Seq(Paragraph(LinesOn(page)))
      BY <1>2, <1>3, PageLines
<1>5. /\ elements \in Seq(Element(LinesTo(page), FoundTo(page))) /\ buffer \in Seq(Paragraph(LinesTo(page)))
      /\ Arranged(Up, Down, elements) /\ AllFollow(Up, Down, elements, TextElement(buffer))
      /\ \A t \in FoundTo(page) : Among(TableElement(t), elements)
      BY <1>2 DEF PagesArranged, ReadArranged
<1>6. TextElement(PlainText(page)) \in Element(LinesOn(page), TablesOf(page))
      BY <1>4 DEF TextElement, Element
<1>7. AllFollow(Up, Down, elements, TextElement(PlainText(page)))
      BY <1>2, <1>3, <1>5, <1>6, EarlierTextFirst
<1>8. buffer \in Seq(Paragraph(T)) /\ PlainText(page) \in Seq(Paragraph(T)) /\ elements \in Seq(Element(T, U))
      BY <1>4, <1>5, ElementsGrow
<1> HIDE DEF T, U
<1>9. AllFollow(Up, Down, elements, TextElement(buffer \o PlainText(page)))
      BY <1>5, <1>7, <1>8, BufferArranged
<1>10. buffer' \in Seq(Paragraph(T)) /\ elements' \in Seq(Element(T, U))
       BY <1>1, <1>8
<1>11. Up \subseteq Up' /\ Down \subseteq Down'
       BY <1>1, UpAndDownGrow
<1>12. ReadArranged(Up, Down, [es |-> elements', prose |-> buffer'])
       BY <1>1, <1>5, <1>9 DEF ReadArranged
<1>13. ReadArranged(Up', Down', [es |-> elements', prose |-> buffer'])
       BY <1>11, <1>12, FollowsMore DEF ReadArranged
<1>14. \A t \in FoundTo(page) \cup TablesOf(page) : Among(TableElement(t), elements')
       BY <1>1, <1>5
<1> QED BY <1>1, <1>10, <1>13, <1>14, NextPageArranged DEF T, U

LEMMA PageWithTablesArranged ==
    ASSUME ExtractionInv, PagesArranged, PageWithTables
    PROVE  PagesArranged'
<1> DEFINE T == LinesTo(page) \cup LinesOn(page)
           U == FoundTo(page) \cup TablesOf(page)
           objs == {r \in doc.pages[page].runs : r.text \notin Skipped}
           segments == SplitPageByTables(page, TextObjects(page))
           read == WithSegments(segments)
           before == [es |-> elements, prose |-> buffer]
<1>1. /\ stage = "pages" /\ page <= Pages /\ elements' = read.es /\ buffer' = read.prose /\ page' = page + 1
      /\ UNCHANGED <<doc, tables, stage, unsplit>>
      BY DEF PageWithTables
<1>2. ExtractionShape /\ Native(doc) /\ page \in Nat \ {0} /\ doc \in Documents /\ IsPdf(doc)
      BY <1>1 DEF ExtractionInv, ExtractionShape, Native
<1>3. page \in 1 .. Pages
      BY <1>1, <1>2, FoundOnPages
<1>4. /\ TextObjects(page) \in Seq(objs)
      /\ \A r \in objs : r.text \in LinesOn(page) /\ r.y \in Int
      /\ LinesOn(page) \subseteq Wordings
      /\ OneColumn(page) => TopToBottom(TextObjects(page))
      BY <1>2, <1>3, PageLines
<1>5. TablesApart(TablesOf(page)) /\ TablesOf(page) \subseteq TablesIn
      BY <1>2, PageTables
<1>6. /\ elements \in Seq(Element(LinesTo(page), FoundTo(page))) /\ buffer \in Seq(Paragraph(LinesTo(page)))
      /\ ReadArranged(Up, Down, before)
      /\ \A t \in FoundTo(page) : Among(TableElement(t), elements)
      BY <1>2 DEF PagesArranged
<1>7. ASSUME NEW t \in TablesOf(page)
      PROVE  \/ /\ TopToBottom(TextObjects(page))
                /\ \A r \in objs : IF r.y < Top(t) THEN <<r.text, t>> \in Up ELSE <<r.text, t>> \in Down
             \/ \A r \in objs : <<r.text, t>> \in Up /\ <<r.text, t>> \in Down
  <2>1. t \in TablesIn /\ t.page = page /\ Top(t) \in Int
        BY <1>5 DEF TablesOf, TablesApart
  <2>2. \A r \in objs : r.text \in Wordings /\ r.y \in Int /\ r \in doc.pages[page].runs
        BY <1>4
  <2>3. CASE ~Placed(t)
        BY <2>1, <2>2, <2>3, UpAndDown
  <2>4. CASE Placed(t)
    <3>1. TopToBottom(TextObjects(page))
          BY <1>4, <2>1, <2>4 DEF Placed
    <3>2. ASSUME NEW r \in objs
          PROVE  IF r.y < Top(t) THEN <<r.text, t>> \in Up ELSE <<r.text, t>> \in Down
      <4>1. r.y < Top(t) => StandsAbove(r.text, t)
            BY <1>3, <2>1, <2>2 DEF StandsAbove
      <4>2. ~(r.y < Top(t)) => StandsBelow(r.text, t)
            BY <1>3, <2>1, <2>2 DEF StandsBelow
      <4> QED BY <2>1, <2>2, <4>1, <4>2, UpAndDown
    <3> QED BY <3>1, <3>2
  <2> QED BY <2>3, <2>4
<1> HIDE DEF objs
<1>8. Arranged(Up, Down, segments) /\ \A t \in TablesOf(page) : Among(TableElement(t), segments)
      BY <1>4, <1>5, <1>7, PageSplitArranged
<1>9. segments \in Seq(Segment(LinesOn(page), TablesOf(page)))
      BY <1>4, <1>5, PageSplitHolds
<1> HIDE DEF segments
<1>10. \A k \in DOMAIN segments : ReadFollow(Up, Down, before, segments[k])
  <2> SUFFICES ASSUME NEW k \in DOMAIN segments PROVE ReadFollow(Up, Down, before, segments[k])
      OBVIOUS
  <2>1. segments[k] \in Segment(LinesOn(page), TablesOf(page))
        BY <1>9
  <2>2. segments[k] \in Element(LinesOn(page), TablesOf(page))
        BY <2>1 DEF Segment, Element
  <2>3. AllFollow(Up, Down, elements, segments[k])
        BY <1>2, <1>3, <1>6, <2>2, EarlierTextFirst
  <2>4. TextElement(buffer) \in Element(LinesTo(page), FoundTo(page))
        BY <1>6 DEF TextElement, Element
  <2>5. Follows(Up, Down, TextElement(buffer), segments[k])
        BY <1>2, <1>3, <2>2, <2>4, EarlierPagesFirst
  <2> QED BY <2>3, <2>5 DEF ReadFollow
<1>11. /\ buffer \in Seq(Paragraph(T)) /\ elements \in Seq(Element(T, U))
       /\ segments \in Seq(Segment(T, U))
  <2>1. Segment(LinesOn(page), TablesOf(page)) \subseteq Segment(T, U)
        BY ElementsGrow DEF Segment
  <2> HIDE DEF T, U
  <2>2. segments \in Seq(Segment(T, U))
        BY <1>9, <2>1, SeqMonotone
  <2> QED BY <1>6, <2>2, ElementsGrow DEF T, U
<1> HIDE DEF T, U
<1>12. read \in Reading(T, U)
       BY <1>11, SegmentsRead
<1>13. /\ ReadArranged(Up, Down, read)
       /\ \A e : e.kind = "table" /\ (Among(e, elements) \/ Among(e, segments)) => Among(e, read.es)
       BY <1>6, <1>8, <1>10, <1>11, SegmentsArranged
<1> HIDE DEF read
<1>14. elements' \in Seq(Element(T, U)) /\ buffer' \in Seq(Paragraph(T))
       BY <1>1, <1>12 DEF Reading
<1>15. Up \subseteq Up' /\ Down \subseteq Down'
       BY <1>1, UpAndDownGrow
<1>16. ReadArranged(Up', Down', [es |-> elements', prose |-> buffer'])
       BY <1>1, <1>13, <1>15, FollowsMore DEF ReadArranged
<1>17. \A t \in FoundTo(page) \cup TablesOf(page) : Among(TableElement(t), elements')
  <2>1. \A t : TableElement(t).kind = "table"
        BY DEF TableElement
  <2> QED BY <1>1, <1>6, <1>8, <1>13, <2>1
<1>18. unsplit \subseteq unsplit'
       BY <1>1
<1> QED BY <1>1, <1>14, <1>16, <1>17, <1>18, NextPageArranged DEF T, U

(* The tables of a page that could not be split, in the order they were    *)
(* found.                                                                  *)
LEMMA TablesAsFound ==
    ASSUME NEW S, IsFiniteSet(S), NEW found \in SetToSeqs(S), NEW T, NEW U, S \subseteq U,
           NEW fs, fs = [k \in DOMAIN found |-> TableElement(found[k])]
    PROVE  /\ fs \in Seq(Element(T, U))
           /\ \A t \in S : Among(TableElement(t), fs)
           /\ \A k \in DOMAIN fs : fs[k].kind = "table" /\ fs[k].content \in S
           /\ \A j, k \in DOMAIN fs : j # k => fs[j].content # fs[k].content
<1> DEFINE m == Cardinality(S)
<1>1. m \in Nat
      BY FS_CardinalityType
<1>2. found \in [1 .. m -> S] /\ found \in Injection(1 .. m, S)
      BY DEF SetToSeqs, Injection, IsInjective
<1>3. \A t : TableElement(t).kind = "table" /\ TableElement(t).content = t
      BY DEF TableElement
<1>4. \A t \in S : TableElement(t) \in Element(T, U)
      BY DEF TableElement, Element
<1>5. Cardinality(1 .. m) = m /\ IsFiniteSet(1 .. m)
      BY <1>1, FS_Interval
<1>6. found \in Surjection(1 .. m, S)
  <2> HIDE DEF m
  <2>1. m = Cardinality(S)
        BY DEF m
  <2> QED BY <1>2, <1>5, <2>1, FS_Injection
<1>7. /\ DOMAIN found = 1 .. m /\ \A k \in 1 .. m : found[k] \in S
      /\ \A t \in S : \E k \in 1 .. m : found[k] = t
      /\ \A j, k \in 1 .. m : found[j] = found[k] => j = k
      BY <1>2, <1>6 DEF Surjection, Injection, IsInjective
<1> HIDE DEF m
<1>8. DOMAIN fs = 1 .. m /\ \A k \in 1 .. m : fs[k] = TableElement(found[k])
      BY <1>7
<1>9. fs = [k \in 1 .. m |-> fs[k]]
      BY <1>7
<1>10. \A k \in 1 .. m : fs[k] \in Element(T, U)
       BY <1>4, <1>7, <1>8
<1>11. fs \in Seq(Element(T, U))
       BY <1>1, <1>9, <1>10, SequenceOf
<1>12. \A t \in S : Among(TableElement(t), fs)
       BY <1>7, <1>8 DEF Among
<1> QED BY <1>3, <1>7, <1>8, <1>11, <1>12

LEMMA PageSplitFailsArranged ==
    ASSUME ExtractionInv, PagesArranged, PageSplitFails
    PROVE  PagesArranged'
<1> DEFINE T == LinesTo(page) \cup LinesOn(page)
           U == FoundTo(page) \cup TablesOf(page)
           prose == buffer \o PlainText(page)
           flushed == Flushed(elements, prose)
<1>1. PICK found \in SetToSeqs(TablesOf(page)) :
          elements' = flushed \o [k \in DOMAIN found |-> TableElement(found[k])]
      BY DEF PageSplitFails
<1>2. /\ stage = "pages" /\ page <= Pages /\ buffer' = <<>> /\ page' = page + 1 /\ unsplit' = unsplit \cup {page}
      /\ UNCHANGED <<doc, tables, stage>>
      BY DEF PageSplitFails
<1>3. ExtractionShape /\ Native(doc) /\ page \in Nat \ {0} /\ doc \in Documents /\ IsPdf(doc)
      BY <1>2 DEF ExtractionInv, ExtractionShape, Native
<1>4. page \in 1 .. Pages /\ \A t \in tables : t \in TablesIn
      BY <1>2, <1>3, FoundOnPages
<1>5. PlainText(page) \in Seq(Paragraph(LinesOn(page)))
      BY <1>3, <1>4, PageLines
<1>6. /\ elements \in Seq(Element(LinesTo(page), FoundTo(page))) /\ buffer \in Seq(Paragraph(LinesTo(page)))
      /\ Arranged(Up, Down, elements) /\ AllFollow(Up, Down, elements, TextElement(buffer))
      /\ \A t \in FoundTo(page) : Among(TableElement(t), elements)
      BY <1>3 DEF PagesArranged, ReadArranged
<1>7. AllFollow(Up, Down, elements, TextElement(PlainText(page)))
  <2>1. TextElement(PlainText(page)) \in Element(LinesOn(page), TablesOf(page))
        BY <1>5 DEF TextElement, Element
  <2> QED BY <1>3, <1>4, <1>6, <2>1, EarlierTextFirst
<1>8. /\ buffer \in Seq(Paragraph(T)) /\ PlainText(page) \in Seq(Paragraph(T)) /\ elements \in Seq(Element(T, U))
      /\ T \subseteq Wordings
  <2>1. \A q \in 1 .. Pages : LinesOn(q) \subseteq Wordings
        BY <1>3, PageLines
  <2>2. T \subseteq Wordings
        BY <1>4, <2>1 DEF LinesTo
  <2> QED BY <1>5, <1>6, <2>2, ElementsGrow
<1>9. PICK fs : fs = [k \in DOMAIN found |-> TableElement(found[k])]
      OBVIOUS
<1>10. /\ fs \in Seq(Element(T, U))
       /\ \A t \in TablesOf(page) : Among(TableElement(t), fs)
       /\ \A k \in DOMAIN fs : fs[k].kind = "table" /\ fs[k].content \in TablesOf(page)
       /\ \A j, k \in DOMAIN fs : j # k => fs[j].content # fs[k].content
  <2>1. IsFiniteSet(TablesOf(page))
        BY <1>3, PageTables DEF TablesApart
  <2>2. TablesOf(page) \subseteq U
        OBVIOUS
  <2> HIDE DEF T, U
  <2> QED BY <1>9, <2>1, <2>2, TablesAsFound
<1> HIDE DEF T, U
<1>11. prose \in Seq(Paragraph(T)) /\ AllFollow(Up, Down, elements, TextElement(prose))
       BY <1>6, <1>7, <1>8, BufferArranged
<1>12. Up \subseteq Up' /\ Down \subseteq Down'
       BY <1>2, UpAndDownGrow
<1> HIDE DEF prose
<1>13. Arranged(Up', Down', elements) /\ AllFollow(Up', Down', elements, TextElement(prose))
       BY <1>6, <1>11, <1>12, FollowsMore
<1>14. /\ flushed \in Seq(Element(T, U))
       /\ Arranged(Up', Down', flushed)
       /\ \A b : AllFollow(Up', Down', elements, b) /\ Follows(Up', Down', TextElement(prose), b)
                    => AllFollow(Up', Down', flushed, b)
       /\ \A e : Among(e, elements) => Among(e, flushed)
       BY <1>8, <1>11, <1>13, FlushedHolds, FlushedArranged
<1> HIDE DEF flushed
(* The place of the tables of this page is no longer kept.                 *)
<1>15. ASSUME NEW x \in Wordings, NEW t \in TablesOf(page) PROVE <<x, t>> \in Up' /\ <<x, t>> \in Down'
  <2>1. t.page = page /\ t \in TablesIn
        BY <1>4 DEF TablesOf
  <2>2. ~Placed(t)'
        BY <1>2, <2>1 DEF Placed
  <2>3. Wordings' = Wordings /\ TablesIn' = TablesIn
        BY <1>2, SameDocument
  <2> QED BY <2>1, <2>2, <2>3 DEF Up, Down
<1>16. \A k \in DOMAIN fs : AllFollow(Up', Down', flushed, fs[k])
  <2> SUFFICES ASSUME NEW k \in DOMAIN fs PROVE AllFollow(Up', Down', flushed, fs[k])
      OBVIOUS
  <2>1. fs[k].kind = "table" /\ fs[k].content \in TablesOf(page)
        BY <1>10
  <2>2. ASSUME NEW j \in DOMAIN elements PROVE Follows(Up', Down', elements[j], fs[k])
    <3>1. elements[j] \in Element(LinesTo(page), FoundTo(page))
          BY <1>6
    <3>2. elements[j].kind = "table" => elements[j].content # fs[k].content
          BY <1>4, <2>1, <3>1 DEF Element, FoundTo, TablesOf
    <3>3. elements[j].kind # "table" => elements[j].content \in Seq(Paragraph(LinesTo(page)))
          BY <3>1 DEF Element
    <3>4. \A x : elements[j].kind # "table" /\ Has(elements[j].content, x) => x \in Wordings
          BY <1>8, <3>3, LinesFrom DEF T
    <3> QED BY <1>15, <2>1, <3>2, <3>4 DEF Follows
  <2>3. Follows(Up', Down', TextElement(prose), fs[k])
    <3>1. TextElement(prose).kind = "text" /\ TextElement(prose).content = prose
          BY DEF TextElement
    <3>2. \A x : Has(prose, x) => x \in Wordings
          BY <1>8, <1>11, LinesFrom
    <3> QED BY <1>15, <2>1, <3>1, <3>2 DEF Follows
  <2> QED BY <1>14, <2>2, <2>3 DEF AllFollow
<1>17. Arranged(Up', Down', fs)
  <2>1. \A k \in DOMAIN fs : fs[k].kind = "table" /\ fs[k].content \in TablesOf(page)
        BY <1>10
  <2>2. \A j, k \in DOMAIN fs : j < k => fs[j].content # fs[k].content
        BY <1>10
  <2> QED BY <2>1, <2>2 DEF Arranged, Follows
<1>18. elements' = flushed \o fs
       BY <1>1, <1>9 DEF flushed
<1>19. elements' \in Seq(Element(T, U)) /\ Arranged(Up', Down', elements')
       BY <1>10, <1>14, <1>16, <1>17, <1>18, ArrangedConcat
<1>20. \A t \in FoundTo(page) \cup TablesOf(page) : Among(TableElement(t), elements')
  <2>1. \A e : Among(e, elements') <=> Among(e, flushed) \/ Among(e, fs)
        BY <1>10, <1>14, <1>18, ConcatAmong
  <2> QED BY <1>6, <1>10, <1>14, <2>1
<1>21. buffer' \in Seq(Paragraph(T)) /\ ReadArranged(Up', Down', [es |-> elements', prose |-> buffer'])
  <2>1. \A e : Follows(Up', Down', e, TextElement(<<>>))
    <3>1. TextElement(<<>>).kind = "text" /\ \A x : ~Has(TextElement(<<>>).content, x)
          BY DEF TextElement, Has
    <3> QED BY <3>1 DEF Follows
  <2> QED BY <1>2, <1>19, <2>1 DEF ReadArranged, AllFollow
<1> QED BY <1>2, <1>19, <1>20, <1>21, NextPageArranged DEF T, U

LEMMA NoTextFollows ==
    ASSUME NEW X, NEW Y, NEW es
    PROVE  AllFollow(X, Y, es, TextElement(<<>>))
<1>1. TextElement(<<>>).kind = "text" /\ \A x : ~Has(TextElement(<<>>).content, x)
      BY DEF TextElement, Has
<1> QED BY <1>1 DEF AllFollow, Follows

LEMMA FindTablesArranged ==
    ASSUME ExtractionInv, FindTables
    PROVE  PagesArranged'
<1>1. /\ page = 1 /\ elements = <<>> /\ buffer = <<>> /\ UNCHANGED <<doc, page, buffer, elements>>
      /\ IsPdf(doc) /\ doc \in Documents /\ tables' \in {doc.lattice, doc.stream, {}}
      BY DEF FindTables, ExtractionInv, ExtractionShape
<1>2. \A t \in tables' : t.page \in 1 .. Pages
  <2>1. doc.pages \in Seq(Range(doc.pages)) /\ \A t \in doc.lattice \cup doc.stream : t.page \in DOMAIN doc.pages
        BY <1>1, DocumentsOK DEF PagesOK, IsSequence
  <2> QED BY <1>1, <2>1 DEF Pages
<1>3. FoundTo(page)' = {}
      BY <1>1, <1>2 DEF FoundTo
<1>4. AllFollow(Up', Down', <<>>, TextElement(<<>>))
      BY NoTextFollows
<1>5. Arranged(Up', Down', <<>>)
      BY DEF Arranged
<1>6. elements' = <<>> /\ buffer' = <<>>
      BY <1>1
<1> HIDE DEF Up, Down
<1> QED BY <1>3, <1>4, <1>5, <1>6 DEF PagesArranged, ReadArranged

LEMMA EndPdfArranged ==
    ASSUME ExtractionInv, PagesArranged, EndPdf
    PROVE  PagesArranged'
<1>1. /\ stage = "pages" /\ elements' = Flushed(elements, buffer) /\ buffer' = <<>>
      /\ UNCHANGED <<doc, tables, page, unsplit>>
      BY DEF EndPdf
<1>2. Native(doc)
      BY <1>1 DEF ExtractionInv, ExtractionShape
<1> DEFINE T == LinesTo(page)
           U == FoundTo(page)
<1>3. /\ elements \in Seq(Element(T, U)) /\ buffer \in Seq(Paragraph(T))
      /\ Arranged(Up, Down, elements) /\ AllFollow(Up, Down, elements, TextElement(buffer))
      /\ \A t \in U : Among(TableElement(t), elements)
      BY <1>2 DEF PagesArranged, ReadArranged
<1>4. T' = T /\ U' = U
      BY <1>1, SamePages
<1>5. Up \subseteq Up' /\ Down \subseteq Down'
      BY <1>1, UpAndDownGrow
<1> HIDE DEF T, U
<1>6. /\ elements' \in Seq(Element(T, U)) /\ Arranged(Up, Down, elements')
      /\ \A t \in U : Among(TableElement(t), elements')
      BY <1>1, <1>3, FlushedHolds, FlushedArranged
<1>7. Arranged(Up', Down', elements') /\ AllFollow(Up', Down', elements', TextElement(buffer'))
      BY <1>1, <1>5, <1>6, FollowsMore, NoTextFollows
<1>8. buffer' \in Seq(Paragraph(T))
      BY <1>1
<1> QED BY <1>4, <1>6, <1>7, <1>8 DEF PagesArranged, ReadArranged, T, U

(* Whatever order the runs, tables and pages of a PDF have: what is read   *)
(* of it keeps their order.                                                *)
LEMMA ExtractArranged ==
    ASSUME ExtractionInv, PagesArranged, Extract
    PROVE  PagesArranged'
<1>1. CASE ExtractScanned \/ OpenDocx \/ DocxParagraph \/ DocxTable \/ EndDocx
  <2>1. ~Native(doc) /\ UNCHANGED doc
        BY <1>1 DEF ExtractionInv, ExtractionShape, Native,
                    ExtractScanned, OpenDocx, DocxParagraph, DocxTable, EndDocx
  <2> QED BY <2>1, SameDocument DEF PagesArranged
<1> QED BY <1>1, FindTablesArranged, PageWithoutTablesArranged, PageWithTablesArranged, PageSplitFailsArranged,
           EndPdfArranged DEF Extract

LEMMA InitArranged ==
    ASSUME Init
    PROVE  PagesArranged
<1>1. page = 1 /\ elements = <<>> /\ buffer = <<>> /\ FoundTo(page) = {}
      BY DEF Init, FoundTo
<1>2. AllFollow(Up, Down, <<>>, TextElement(<<>>)) /\ Arranged(Up, Down, <<>>)
      BY NoTextFollows DEF Arranged
<1> QED BY <1>1, <1>2 DEF PagesArranged, ReadArranged

----------------------------------------------------------------------------
(* The chunks keep the order of the elements: those of this one and later  *)
(* ones may stand after all chunks so far.                                 *)
ChunksArranged ==
    Native(doc) => /\ Arranged(Up, Down, chunks)
                   /\ \A e \in DOMAIN elements : e >= part => AllFollow(Up, Down, chunks, elements[e])
                   /\ \A e \in DOMAIN elements : e < part /\ elements[e].kind = "table" => Among(elements[e], chunks)

PlaceInv == PagesArranged /\ ChunksArranged

LEMMA ExtractedStaysArranged ==
    ASSUME PagesArranged, UNCHANGED extraction
    PROVE  PagesArranged' /\ Up' = Up /\ Down' = Down
<1>1. UNCHANGED <<doc, tables, page, buffer, elements, unsplit>>
      BY DEF extraction
<1>2. LinesTo(page)' = LinesTo(page) /\ FoundTo(page)' = FoundTo(page)
      BY <1>1, SamePages
<1>3. \A t : Placed(t)' = Placed(t)
      BY <1>1 DEF Placed, OneColumn, Skipped
<1>4. \A x, t : StandsAbove(x, t)' = StandsAbove(x, t) /\ StandsBelow(x, t)' = StandsBelow(x, t)
      BY <1>1 DEF StandsAbove, StandsBelow, Pages
<1>5. Up' = Up /\ Down' = Down
      BY <1>1, <1>3, <1>4, SameDocument DEF Up, Down
<1> QED BY <1>1, <1>2, <1>5, SameDocument DEF PagesArranged

LEMMA ExtractionKeepsPlaces ==
    ASSUME Inv, PlaceInv, Extraction
    PROVE  PlaceInv'
<1>1. Extract /\ UNCHANGED <<part, chunks>>
      BY DEF Extraction
<1>2. stage # "extracted"
      BY <1>1 DEF Extract, ExtractScanned, FindTables, PageWithoutTables, PageWithTables, PageSplitFails, EndPdf,
                  OpenDocx, DocxParagraph, DocxTable, EndDocx
<1>3. PagesArranged'
      BY <1>1, ExtractArranged DEF Inv, PlaceInv
<1>4. part' = 1 /\ chunks' = <<>>
      BY <1>1, <1>2 DEF Inv, ChunkInv, ChunkShape
<1>5. \A e \in DOMAIN elements' : e >= 1
  <2>1. elements' \in Seq(Elements')
        BY <1>1, ExtractKeeps DEF Inv, ExtractionInv, ExtractionShape
  <2> HIDE DEF Elements
  <2> QED BY <2>1
<1>6. ChunksArranged'
      BY <1>4, <1>5 DEF ChunksArranged, Arranged, AllFollow
<1> QED BY <1>3, <1>6 DEF PlaceInv

LEMMA AddAtomicKeepsPlaces ==
    ASSUME Inv, PlaceInv, AddAtomic
    PROVE  PlaceInv'
<1> DEFINE e == elements[part]
<1>1. /\ chunks' = Append(chunks, e) /\ part' = part + 1 /\ part <= Len(elements) /\ UNCHANGED extraction
      BY DEF AddAtomic, Building
<1>2. PagesArranged' /\ Up' = Up /\ Down' = Down /\ UNCHANGED <<doc, elements>>
      BY <1>1, ExtractedStaysArranged DEF PlaceInv, extraction
<1> SUFFICES ASSUME Native(doc)
             PROVE  /\ Arranged(Up, Down, chunks')
                    /\ \A k \in DOMAIN elements : k >= part + 1 => AllFollow(Up, Down, chunks', elements[k])
                    /\ \A k \in DOMAIN elements :
                          k < part + 1 /\ elements[k].kind = "table" => Among(elements[k], chunks')
    BY <1>1, <1>2, SameDocument DEF PlaceInv, ChunksArranged
<1>3. /\ elements \in Seq(Elements) /\ chunks \in Seq(Elements) /\ part \in 1 .. Len(elements)
      /\ DOMAIN elements = 1 .. Len(elements) /\ e \in Elements
      BY <1>1 DEF Inv, ExtractionInv, ExtractionShape, ChunkInv, ChunkShape
<1>4. /\ Arranged(Up, Down, elements) /\ Arranged(Up, Down, chunks)
      /\ \A k \in DOMAIN elements : k >= part => AllFollow(Up, Down, chunks, elements[k])
      /\ \A k \in DOMAIN elements : k < part /\ elements[k].kind = "table" => Among(elements[k], chunks)
      BY DEF PlaceInv, PagesArranged, ReadArranged, ChunksArranged
<1>5. AllFollow(Up, Down, chunks, e)
      BY <1>3, <1>4
<1>6. \A k \in DOMAIN elements : k >= part + 1 => Follows(Up, Down, e, elements[k])
      BY <1>3, <1>4 DEF Arranged
<1> HIDE DEF e
<1>7. /\ Arranged(Up, Down, chunks')
      /\ \A b : AllFollow(Up, Down, chunks, b) /\ Follows(Up, Down, e, b) => AllFollow(Up, Down, chunks', b)
      /\ \A x : Among(x, chunks') <=> Among(x, chunks) \/ x = e
      BY <1>1, <1>3, <1>4, <1>5, AppendArranged
<1>8. \A k \in DOMAIN elements : k >= part + 1 => k >= part
      BY <1>3
<1>9. \A k \in DOMAIN elements : k < part + 1 => k < part \/ elements[k] = e
      BY <1>3 DEF e
<1> QED BY <1>4, <1>6, <1>7, <1>8, <1>9

(* A group is a part of the text of its element.                           *)
LEMMA GroupsAreParts ==
    ASSUME Inv, pc = "done", NEW k \in DOMAIN groups
    PROVE  LET text == TextElement(SubSeq(elements[part].content, groups[k].from + 1, groups[k].to))
           IN  /\ text \in Elements /\ text.kind = "text"
               /\ \A x : Has(text.content, x) => Has(elements[part].content, x)
<1>1. \A j \in DOMAIN groups : groups[j] \in Group
      BY DEF Inv, LoopInv, LoopType
<1> DEFINE ps   == elements[part].content
           from == groups[k].from
           to   == groups[k].to
           sub  == SubSeq(ps, from + 1, to)
<1>2. /\ elements[part].kind = "text" /\ n = Len(ps) /\ elements[part] \in Elements
      BY DEF Inv, ExtractionInv, ExtractionShape, ChunkInv, ChunkShape
<1>3. ps \in Seq(Prose)
      BY <1>2 DEF Elements, Element, Prose
<1>4. from \in Nat /\ to \in Nat /\ from < to /\ to <= Len(ps)
  <2>1. DOMAIN groups = 1 .. Count /\ groups \in Seq(Group)
        BY DEF Inv, LoopInv, LoopType, Count
  <2> QED BY <1>1, <1>2, <2>1 DEF Inv, LoopInv, Chained, Group
<1>5. TextElement(sub).kind = "text" /\ TextElement(sub).content = sub
      BY DEF TextElement
<1> HIDE DEF ps, from, to
<1>6. /\ sub \in Seq(Prose) /\ DOMAIN sub = 1 .. to - from
      /\ \A j \in 1 .. to - from : sub[j] = ps[from + j]
      BY <1>3, <1>4, TextOfGroup
<1>7. \A j \in DOMAIN sub : from + j \in DOMAIN ps /\ sub[j] = ps[from + j]
      BY <1>3, <1>4, <1>6
<1> HIDE DEF sub
<1>8. TextElement(sub) \in Elements
      BY <1>6 DEF TextElement, Elements, Element, Prose
<1>9. \A x : Has(sub, x) => Has(ps, x)
      BY <1>7 DEF Has
<1> QED BY <1>5, <1>8, <1>9 DEF sub, ps, from, to

LEMMA AddGroupsKeepsPlaces ==
    ASSUME Inv, PlaceInv, AddGroups
    PROVE  PlaceInv'
<1> DEFINE e == elements[part]
           text(k) == TextElement(SubSeq(e.content, groups[k].from + 1, groups[k].to))
<1>1. PICK added : added = [k \in DOMAIN groups |-> text(k)]
      OBVIOUS
<1>2. pc = "done" /\ chunks' = chunks \o added /\ part' = part + 1 /\ UNCHANGED extraction
      BY <1>1 DEF AddGroups
<1>3. PagesArranged' /\ Up' = Up /\ Down' = Down /\ UNCHANGED <<doc, elements>>
      BY <1>2, ExtractedStaysArranged DEF PlaceInv, extraction
<1> SUFFICES ASSUME Native(doc)
             PROVE  /\ Arranged(Up, Down, chunks')
                    /\ \A k \in DOMAIN elements : k >= part + 1 => AllFollow(Up, Down, chunks', elements[k])
                    /\ \A k \in DOMAIN elements :
                          k < part + 1 /\ elements[k].kind = "table" => Among(elements[k], chunks')
    BY <1>2, <1>3, SameDocument DEF PlaceInv, ChunksArranged
<1>4. /\ elements \in Seq(Elements) /\ chunks \in Seq(Elements) /\ part \in 1 .. Len(elements)
      /\ DOMAIN elements = 1 .. Len(elements) /\ e.kind = "text"
      BY <1>2 DEF Inv, ExtractionInv, ExtractionShape, ChunkInv, ChunkShape
<1>5. /\ Arranged(Up, Down, elements) /\ Arranged(Up, Down, chunks)
      /\ \A k \in DOMAIN elements : k >= part => AllFollow(Up, Down, chunks, elements[k])
      /\ \A k \in DOMAIN elements : k < part /\ elements[k].kind = "table" => Among(elements[k], chunks)
      BY DEF PlaceInv, PagesArranged, ReadArranged, ChunksArranged
<1>6. AllFollow(Up, Down, chunks, e)
      BY <1>4, <1>5
<1>7. \A k \in DOMAIN elements : k >= part + 1 => Follows(Up, Down, e, elements[k])
      BY <1>4, <1>5 DEF Arranged
<1>8. DOMAIN groups = 1 .. Count /\ Count \in Nat
      BY DEF Inv, LoopInv, LoopType, Count
<1>9. \A k \in 1 .. Count : /\ added[k] \in Elements /\ added[k].kind = "text"
                            /\ \A x : Has(added[k].content, x) => Has(e.content, x)
      BY <1>1, <1>2, <1>8, GroupsAreParts
<1>10. DOMAIN added = 1 .. Count /\ added = [k \in 1 .. Count |-> added[k]]
       BY <1>1, <1>8
<1> HIDE DEF e, text
<1>11. added \in Seq(Elements)
       BY <1>8, <1>9, <1>10, SequenceOf
<1>12. \A k \in DOMAIN added :
           /\ \A b : Follows(Up, Down, e, b) => Follows(Up, Down, added[k], b)
           /\ \A b : Follows(Up, Down, b, e) => Follows(Up, Down, b, added[k])
           /\ \A b : b.kind # "table" => Follows(Up, Down, added[k], b)
  <2> SUFFICES ASSUME NEW k \in DOMAIN added
               PROVE  /\ \A b : Follows(Up, Down, e, b) => Follows(Up, Down, added[k], b)
                      /\ \A b : Follows(Up, Down, b, e) => Follows(Up, Down, b, added[k])
                      /\ \A b : b.kind # "table" => Follows(Up, Down, added[k], b)
      OBVIOUS
  <2>1. e.kind # "table" /\ added[k].kind # "table" /\ \A x : Has(added[k].content, x) => Has(e.content, x)
        BY <1>4, <1>9, <1>10
  <2> QED BY <2>1, PartFollows
<1>13. Arranged(Up, Down, added)
       BY <1>9, <1>10, <1>12 DEF Arranged
<1>14. \A k \in DOMAIN added : AllFollow(Up, Down, chunks, added[k])
       BY <1>6, <1>12 DEF AllFollow
<1>15. Arranged(Up, Down, chunks')
       BY <1>2, <1>4, <1>5, <1>11, <1>13, <1>14, ArrangedConcat
<1>16. ASSUME NEW k \in DOMAIN elements, k >= part + 1 PROVE AllFollow(Up, Down, chunks', elements[k])
  <2>1. k >= part
        BY <1>4, <1>16
  <2>2. AllFollow(Up, Down, chunks, elements[k])
        BY <1>5, <2>1
  <2>3. AllFollow(Up, Down, added, elements[k])
        BY <1>7, <1>12, <1>16 DEF AllFollow
  <2> QED BY <1>2, <1>4, <1>11, <2>2, <2>3, AllFollowConcat
<1>17. ASSUME NEW k \in DOMAIN elements, k < part + 1, elements[k].kind = "table"
       PROVE  Among(elements[k], chunks')
  <2>1. k < part
        BY <1>4, <1>17 DEF e
  <2>2. Among(elements[k], chunks)
        BY <1>5, <1>17, <2>1
  <2> QED BY <1>2, <1>4, <1>11, <2>2, ConcatAmong
<1> QED BY <1>15, <1>16, <1>17

LEMMA PlacesKept ==
    ASSUME Inv, PlaceInv, [Next]_vars
    PROVE  PlaceInv'
<1>1. CASE UNCHANGED extraction /\ UNCHANGED <<part, chunks>>
  <2>1. PagesArranged' /\ Up' = Up /\ Down' = Down /\ UNCHANGED <<doc, elements>>
        BY <1>1, ExtractedStaysArranged DEF PlaceInv, extraction
  <2> QED BY <1>1, <2>1, SameDocument DEF PlaceInv, ChunksArranged
<1>2. CASE BeginText \/ Grouping \/ Finished \/ UNCHANGED vars
  <2>1. UNCHANGED extraction /\ UNCHANGED <<part, chunks>>
        BY <1>2 DEF BeginText, Grouping, Finished, vars
  <2> QED BY <1>1, <2>1
<1> QED BY <1>2, ExtractionKeepsPlaces, AddAtomicKeepsPlaces, AddGroupsKeepsPlaces DEF Next

LEMMA PlacesHold == Spec => []PlaceInv
<1>1. ChunksInit => PlaceInv
  <2> SUFFICES ASSUME ChunksInit PROVE PlaceInv
      OBVIOUS
  <2>1. PagesArranged
        BY InitArranged DEF ChunksInit
  <2>2. chunks = <<>> /\ elements = <<>>
        BY DEF ChunksInit, Init
  <2>3. ChunksArranged
        BY <2>2 DEF ChunksArranged, Arranged, AllFollow
  <2> QED BY <2>1, <2>3 DEF PlaceInv
<1> QED BY <1>1, PlacesKept, InvHolds, PTL DEF Spec

----------------------------------------------------------------------------
(* What follows.                                                           *)

(* The state has the shape TypeOK gives it, for every set of documents,    *)
(* whatever their pages, tables and blocks, and every configuration.       *)
THEOREM TypeCorrect == Spec => []TypeOK
<1>1. Inv => TypeOK
  <2> SUFFICES ASSUME Inv PROVE TypeOK
      OBVIOUS
  <2>1. /\ <<g, o>> \in Configs(doc) /\ part \in 1 .. Len(elements) + 1
        /\ stage \in {"open", "pages", "body", "extracted"}
        /\ pc \in {"idle", "check", "loop", "done", "raised"} /\ n \in Nat /\ i \in 0 .. n
        BY DEF Inv, ExtractionInv, ExtractionShape, LoopInv, LoopType, ChunkInv, ChunkShape
  <2>2. groups \in Seq([from : 0 .. n, to : 0 .. n])
    <3>1. groups \in Seq(Group) /\ Count \in Nat /\ DOMAIN groups = 1 .. Count
          BY DEF Inv, LoopInv, LoopType, Count
    <3>2. \A k \in 1 .. Count : groups[k] \in Group
          BY <3>1
    <3>3. \A k \in 1 .. Count : groups[k] \in [from : 0 .. n, to : 0 .. n]
          BY <2>1, <3>1, <3>2 DEF Inv, LoopInv, Chained, Group
    <3>4. groups = [k \in 1 .. Count |-> groups[k]]
          BY <3>1
    <3> QED BY <3>1, <3>3, <3>4, SequenceOf
  <2>3. \A e \in Elements : e.kind \in {"text", "table", "figure"}
        BY DEF Elements, Element
  <2>4. elements \in Seq(Elements) /\ chunks \in Seq(Elements)
        BY DEF Inv, ExtractionInv, ExtractionShape, ChunkInv, ChunkShape
  <2>5. /\ \A k \in DOMAIN elements : elements[k] \in Elements
        /\ \A k \in DOMAIN chunks : chunks[k] \in Elements
        BY <2>4
  <2> QED BY <2>1, <2>2, <2>3, <2>5 DEF TypeOK
<1> QED BY <1>1, InvHolds, PTL

(* Whatever pair of values a document's configuration stores, and however  *)
(* many paragraphs an element has: all are grouped, consecutive groups     *)
(* share exactly the configured overlap, each group brings a new           *)
(* paragraph, and there are no more groups than paragraphs                 *)
(* (group_paragraphs).                                                     *)
THEOREM GroupsCoverCorrect == Spec => []GroupsCover
<1>1. Inv => GroupsCover
  <2> SUFFICES ASSUME LoopInv PROVE GroupsCover
      BY DEF Inv
  <2>1. Count \in Nat /\ DOMAIN groups = 1 .. Count /\ \A k \in 1 .. Count : groups[k] \in Group
        BY DEF LoopInv, LoopType, Count
  <2>2. Loop!EveryParagraphGrouped
        BY <2>1 DEF LoopInv, LoopType, Covered, Position, Loop!EveryParagraphGrouped
  <2>3. Loop!ExactOverlap
    <3> SUFFICES ASSUME NEW k \in 1 .. Count
                 PROVE  /\ groups[k].from < groups[k].to
                        /\ k < Count => /\ groups[k].to = groups[k].from + g
                                        /\ groups[k].to - groups[k + 1].from = o
        BY <2>1 DEF Loop!ExactOverlap, Count
    <3>1. groups[k].from < groups[k].to
          BY DEF LoopInv, Chained
    <3>2. ASSUME k < Count PROVE groups[k].to = groups[k].from + g /\ groups[k + 1].from = groups[k].to - o
      <4>1. k + 1 \in 2 .. Count /\ (k + 1) - 1 = k
            BY <2>1, <3>2
      <4> QED BY <4>1 DEF LoopInv, Chained
    <3>3. groups[k].to \in Int /\ o \in Int
          BY <2>1 DEF Group, LoopInv, LoopType
    <3> QED BY <3>1, <3>2, <3>3
  <2>4. Loop!NoRedundantGroup
        BY <2>1 DEF LoopInv, Chained, Loop!NoRedundantGroup
  <2>5. Count <= n
        BY <2>1 DEF LoopInv, LoopType, Chained, Group
  <2> QED BY <2>2, <2>3, <2>4, <2>5 DEF GroupsCover, Count
<1> QED BY <1>1, InvHolds, PTL

LEMMA HighestOfTwo ==
    ASSUME NEW a \in Int, NEW b \in Int
    PROVE  Highest({a, b}) = IF a <= b THEN b ELSE a
BY DEF Highest

LEMMA RoundedIsLow ==
    ASSUME NEW m \in Nat
    PROVE  Rounded(m) \in Int /\ (m >= 4 => Rounded(m) <= m \div 2)
<1> DEFINE whole == (35 * m) \div 100
           rest  == (35 * m) % 100
           half  == m \div 2
<1>1. whole \in Int /\ rest \in 0 .. 99 /\ 35 * m = 100 * whole + rest
      OBVIOUS
<1>2. half \in Int /\ (m = 2 * half \/ m = 2 * half + 1)
      OBVIOUS
<1>3. Rounded(m) = IF rest > 50 \/ (rest = 50 /\ whole % 2 = 1) THEN whole + 1 ELSE whole
      BY DEF Rounded
<1> HIDE DEF whole, rest, half
<1>4. Rounded(m) = whole \/ (Rounded(m) = whole + 1 /\ rest >= 50)
      BY <1>1, <1>3
<1>5. m >= 4 => Rounded(m) <= half
      BY <1>1, <1>2, <1>4
<1> QED BY <1>1, <1>4, <1>5 DEF half

(* A line that stands in some chunk has a first one.                       *)
LEMMA ChunkOfHeld ==
    ASSUME chunks \in Seq(Elements), NEW t
    PROVE  ChunkOfLine(t) # 0 <=> HoldsLine(chunks, t)
<1> DEFINE with == {k \in DOMAIN chunks : In(t, chunks[k])}
<1>1. ChunkOfLine(t) = IF with = {} THEN 0 ELSE Lowest(with)
      BY DEF ChunkOfLine, FirstWith
<1>2. with # {} <=> HoldsLine(chunks, t)
      BY InIsHas DEF HoldsLine
<1>3. with \subseteq Nat /\ 0 \notin with
      OBVIOUS
<1> HIDE DEF with
<1>4. with # {} => Lowest(with) \in with
      BY <1>3, LowestIsLowest
<1> QED BY <1>1, <1>2, <1>3, <1>4

LEMMA SkippedRepeats ==
    ASSUME doc \in Documents, IsPdf(doc), NEW t
    PROVE  /\ Pages \in Nat /\ DOMAIN doc.pages = 1 .. Pages
           /\ t \in Skipped => t.long /\ Cardinality(OnPages(t)) > 1
           /\ Pages >= 4 /\ t \in Occurring(doc.pages) /\ t.long
              /\ Cardinality(PagesOf(t, doc.pages)) >= Pages \div 2 => t \in Skipped
<1>1. doc.pages \in Seq(Range(doc.pages))
      BY DocumentsOK DEF PagesOK, IsSequence
<1>2. Pages \in Nat /\ DOMAIN doc.pages = 1 .. Pages /\ Len(doc.pages) = Pages
      BY <1>1 DEF Pages
<1>3. Rounded(Pages) \in Int /\ (Pages >= 4 => Rounded(Pages) <= Pages \div 2)
      BY <1>2, RoundedIsLow
<1>4. Highest({2, Rounded(Pages)}) = IF 2 <= Rounded(Pages) THEN Rounded(Pages) ELSE 2
      BY <1>3, HighestOfTwo
<1>5. IsFiniteSet(OnPages(t)) /\ PagesOf(t, doc.pages) \in SUBSET OnPages(t)
  <2>1. IsFiniteSet(1 .. Pages) /\ OnPages(t) \in SUBSET (1 .. Pages)
        BY <1>2, FS_Interval DEF OnPages
  <2>2. IsFiniteSet(OnPages(t))
        BY <2>1, FS_Subset
  <2> QED BY <1>2, <2>2 DEF OnPages, PagesOf
<1>6. /\ IsFiniteSet(PagesOf(t, doc.pages)) /\ Cardinality(PagesOf(t, doc.pages)) <= Cardinality(OnPages(t))
      /\ Cardinality(PagesOf(t, doc.pages)) \in Nat /\ Cardinality(OnPages(t)) \in Nat
      BY <1>5, FS_Subset, FS_CardinalityType
<1>7. t \in Skipped <=> /\ t \in Occurring(doc.pages) /\ t.long /\ Pages >= 3
                        /\ Cardinality(PagesOf(t, doc.pages)) >= Highest({2, Rounded(Pages)})
      BY <1>2 DEF Skipped, RunningLines
<1>8. t \in Skipped => t.long /\ Cardinality(OnPages(t)) > 1
      BY <1>3, <1>4, <1>6, <1>7
<1>9. Pages >= 4 => Pages \div 2 >= 2 /\ Pages \div 2 \in Int
      BY <1>2
<1> QED BY <1>2, <1>3, <1>4, <1>6, <1>7, <1>8, <1>9

(* For every document: when its chunks are built no text is lost but       *)
(* running headers, which are long and stand on several pages, and the     *)
(* cells of tables (extract, build_documents).                             *)
THEOREM TextChunkedCorrect == Spec => []TextChunked
<1>1. Inv => TextChunked
  <2> SUFFICES ASSUME Inv, Chunked PROVE TextChunked
      BY DEF TextChunked
  <2>1. /\ stage = "extracted" /\ buffer = <<>> /\ doc \in Documents /\ chunks \in Seq(Elements)
        /\ Native(doc) => page > Pages
        /\ ~IsPdf(doc) => page > Len(doc.body)
        /\ page \in Nat
        BY DEF Inv, ExtractionInv, ExtractionShape, AllRead, ChunkInv, ChunkShape, Chunked
  <2>2. part > Len(elements) /\ elements \in Seq(Elements) /\ part \in 1 .. Len(elements) + 1
        BY DEF Chunked, Inv, ExtractionInv, ExtractionShape, ChunkInv, ChunkShape
  <2>3. \A e \in DOMAIN elements : e < part
        BY <2>2
  <2>4. \A t : ReadSoFar(t) => ChunkOfLine(t) # 0
    <3> SUFFICES ASSUME NEW t, HoldsLine(elements, t) PROVE HoldsLine(chunks, t)
        BY <2>1, ChunkOfHeld DEF ReadSoFar, Has
    <3>1. PICK e \in DOMAIN elements : elements[e].kind # "table" /\ Has(elements[e].content, t)
          BY DEF HoldsLine
    <3>2. In(t, elements[e])
          BY <3>1, InIsHas
    <3> QED BY <2>3, <3>2 DEF Inv, ChunkInv, PartsChunked
  <2>5. ASSUME Native(doc), NEW q \in 1 .. Pages, NEW r \in doc.pages[q].runs
        PROVE  \/ r.text.kind = "blank"
               \/ r.text.long /\ Cardinality(OnPages(r.text)) > 1
               \/ BesideTable(r, q)
               \/ ChunkOfLine(r.text) # 0
    <3>1. IsPdf(doc)
          BY <2>5 DEF Native
    <3>2. q < page
          BY <2>1, <2>5, <3>1, SkippedRepeats
    <3>3. r.text.kind = "blank" \/ r.text \in Skipped \/ BesideTable(r, q) \/ ReadSoFar(r.text)
          BY <2>5, <3>2 DEF Inv, ExtractionInv, PagesRead
    <3>4. r.text \in Skipped => r.text.long /\ Cardinality(OnPages(r.text)) > 1
          BY <2>1, <3>1, SkippedRepeats
    <3> QED BY <2>4, <3>3, <3>4
  <2>6. ASSUME ~IsPdf(doc), NEW b \in DOMAIN doc.body, doc.body[b].kind = "text", doc.body[b].content.kind # "blank"
        PROVE  ChunkOfLine(doc.body[b].content) # 0
    <3>1. b < page
          BY <2>1, <2>6, BodyIsSequence
    <3>2. ReadSoFar(doc.body[b].content)
          BY <2>6, <3>1 DEF Inv, ExtractionInv, BodyRead
    <3> QED BY <2>4, <3>2
  <2> QED BY <2>5, <2>6 DEF TextChunked
<1> QED BY <1>1, InvHolds, PTL

(* A chunk of a native PDF holds no text that was taken for furniture.     *)
LEMMA ChunksOfWordings ==
    ASSUME chunks \in Seq(Elements), NEW t, HoldsLine(chunks, t)
    PROVE  t \in Wordings
<1>1. PICK c \in DOMAIN chunks : chunks[c].kind # "table" /\ Has(chunks[c].content, t)
      BY DEF HoldsLine
<1>2. chunks[c] \in Elements
      OBVIOUS
<1>3. chunks[c].content \in Seq(Prose)
      BY <1>1, <1>2 DEF Elements, Element, Prose
<1>4. PICK a \in DOMAIN chunks[c].content : \E b \in DOMAIN chunks[c].content[a] : chunks[c].content[a][b] = t
      BY <1>1 DEF Has
<1>5. chunks[c].content[a] \in Prose
      BY <1>3, <1>4
<1> QED BY <1>4, <1>5 DEF Prose, Paragraph

(* For every document: a long line at the top of every other of its pages  *)
(* is in no chunk (_detect_running_headers_footers).                       *)
THEOREM HeadersGoneCorrect == Spec => []HeadersGone
<1>1. Inv => HeadersGone
  <2> SUFFICES ASSUME Inv, Native(doc), Pages >= 4, NEW t \in Occurring(doc.pages), t.long,
                      NEW odd \in 0 .. 1, \A q \in 1 .. Pages : q % 2 = odd => q \in PagesOf(t, doc.pages)
               PROVE  ChunkOfLine(t) = 0
      BY DEF HeadersGone
  <2>1. doc \in Documents /\ IsPdf(doc) /\ ~NeedsOcr /\ chunks \in Seq(Elements)
        BY DEF Native, Inv, ExtractionInv, ExtractionShape, ChunkInv, ChunkShape
  <2>2. Pages \in Nat /\ DOMAIN doc.pages = 1 .. Pages
        BY <2>1, SkippedRepeats
  <2> DEFINE half == Pages \div 2
             alternate == [k \in 1 .. half |-> 2 * k - odd]
  <2>3. half \in Nat /\ 2 * half <= Pages
        BY <2>2
  <2>4. alternate \in Injection(1 .. half, PagesOf(t, doc.pages))
    <3>1. \A k \in 1 .. half : 2 * k - odd \in 1 .. Pages /\ (2 * k - odd) % 2 = odd
      <4> SUFFICES ASSUME NEW k \in 1 .. half PROVE 2 * k - odd \in 1 .. Pages /\ (2 * k - odd) % 2 = odd
          OBVIOUS
      <4> HIDE DEF half
      <4>1. odd = 0 \/ odd = 1
            OBVIOUS
      <4>2. k \in Int /\ 1 <= k /\ 2 * k <= Pages
            BY <2>2, <2>3
      <4>3. (2 * k) % 2 = 0 /\ (2 * k - 1) % 2 = 1
            BY <4>2
      <4> QED BY <2>2, <4>1, <4>2, <4>3
    <3>2. \A k \in 1 .. half : alternate[k] \in PagesOf(t, doc.pages)
          BY <3>1
    <3> HIDE DEF half
    <3>3. \A j, k \in 1 .. half : alternate[j] = alternate[k] => j = k
          BY <2>3
    <3> QED BY <3>2, <3>3 DEF Injection, IsInjective
  <2>5. IsFiniteSet(PagesOf(t, doc.pages))
    <3>1. IsFiniteSet(1 .. Pages) /\ PagesOf(t, doc.pages) \in SUBSET (1 .. Pages)
          BY <2>2, FS_Interval DEF PagesOf
    <3> QED BY <3>1, FS_Subset
  <2> HIDE DEF alternate
  <2>6. Cardinality(PagesOf(t, doc.pages)) >= half
    <3> HIDE DEF half
    <3>1. Cardinality(1 .. half) <= Cardinality(PagesOf(t, doc.pages))
          BY <2>4, <2>5, FS_Injection
    <3>2. Cardinality(1 .. half) = half
          BY <2>3, FS_Interval
    <3>3. Cardinality(PagesOf(t, doc.pages)) \in Nat
          BY <2>5, FS_CardinalityType
    <3> QED BY <2>3, <3>1, <3>2, <3>3
  <2>7. t \in Skipped
        BY <2>1, <2>6, SkippedRepeats
  <2>8. t \notin Wordings
        BY <2>1, <2>7 DEF Wordings
  <2> QED BY <2>1, <2>8, ChunkOfHeld, ChunksOfWordings
<1> QED BY <1>1, InvHolds, PTL

(* For every native PDF: the numbers of a chart are in no text chunk, and  *)
(* in the chunk of the caption next to them (_split_figure_blocks,         *)
(* build_documents).                                                       *)
THEOREM ChartsTravelWholeCorrect == Spec => []ChartsTravelWhole
<1>1. Inv => ChartsTravelWhole
  <2> SUFFICES ASSUME Inv, Native(doc), NEW k \in DOMAIN chunks
               PROVE  /\ chunks[k].kind = "text" =>
                            \A j \in DOMAIN chunks[k].content : ~IsChart(chunks[k].content[j])
                      /\ k > 1 /\ chunks[k].kind # "table" /\ chunks[k - 1].kind # "table" =>
                            LET last  == chunks[k - 1].content[Len(chunks[k - 1].content)]
                                first == chunks[k].content[1]
                            IN  ~(IsChart(last) /\ IsCaption(first)) /\ ~(IsCaption(last) /\ IsChart(first))
      BY DEF ChartsTravelWhole
  <2>1. ToldApart(chunks) /\ chunks \in Seq(Elements)
        BY DEF Inv, ChunkInv, ChunkShape, ChunksTold
  <2>2. \A p : IsChart(p) \/ IsCaption(p) => FigureKind(p) = "figure"
        BY DEF IsChart, IsCaption, IsFigureCaption, FigureKind
  <2>3. \A e \in DOMAIN chunks : chunks[e].kind # "table" =>
            /\ chunks[e].content # <<>> /\ chunks[e].content \in Seq(Prose)
            /\ \A j \in DOMAIN chunks[e].content : FigureKind(chunks[e].content[j]) = chunks[e].kind
    <3> SUFFICES ASSUME NEW e \in DOMAIN chunks, chunks[e].kind # "table"
                 PROVE  /\ chunks[e].content # <<>> /\ chunks[e].content \in Seq(Prose)
                        /\ \A j \in DOMAIN chunks[e].content : FigureKind(chunks[e].content[j]) = chunks[e].kind
        OBVIOUS
    <3>1. chunks[e] \in Elements
          BY <2>1
    <3>2. chunks[e].content \in Seq(Prose)
          BY <3>1 DEF Elements, Element, Prose
    <3> QED BY <2>1, <3>2 DEF ToldApart, IsTold, Told
  <2>4. ASSUME chunks[k].kind = "text", NEW j \in DOMAIN chunks[k].content PROVE ~IsChart(chunks[k].content[j])
        BY <2>2, <2>3, <2>4
  <2>5. ASSUME k > 1, chunks[k].kind # "table", chunks[k - 1].kind # "table"
        PROVE  LET last  == chunks[k - 1].content[Len(chunks[k - 1].content)]
                   first == chunks[k].content[1]
               IN  ~(IsChart(last) /\ IsCaption(first)) /\ ~(IsCaption(last) /\ IsChart(first))
    <3> DEFINE last  == chunks[k - 1].content[Len(chunks[k - 1].content)]
               first == chunks[k].content[1]
    <3>1. k - 1 \in DOMAIN chunks /\ k \in 2 .. Len(chunks)
          BY <2>1, <2>5
    <3>2. /\ Len(chunks[k - 1].content) \in DOMAIN chunks[k - 1].content
          /\ 1 \in DOMAIN chunks[k].content
          BY <2>3, <2>5, <3>1
    <3>3. FigureKind(last) = chunks[k - 1].kind /\ FigureKind(first) = chunks[k].kind
          BY <2>3, <2>5, <3>1, <3>2
    <3>4. ~(chunks[k - 1].kind = "figure" /\ chunks[k].kind = "figure")
          BY <2>1, <3>1 DEF ToldApart
    <3> HIDE DEF last, first
    <3>5. ~(IsChart(last) /\ IsCaption(first)) /\ ~(IsCaption(last) /\ IsChart(first))
          BY <2>2, <3>3, <3>4
    <3> QED BY <3>5 DEF last, first
  <2> QED BY <2>4, <2>5
<1> QED BY <1>1, InvHolds, PTL

(* A line that occurs once.                                                *)
LEMMA OccursOnce ==
    ASSUME doc \in Documents, IsPdf(doc), NEW x, Cardinality(Occurrences(x)) = 1,
           NEW p \in 1 .. Pages, NEW r \in doc.pages[p].runs, r.text = x,
           NEW q \in 1 .. Pages, NEW s \in doc.pages[q].runs, s.text = x
    PROVE  p = q /\ r = s
<1> DEFINE runs == [k \in 1 .. Pages |-> doc.pages[k].runs]
           all  == {doc.pages[k].runs : k \in 1 .. Pages}
<1>1. PagesOK(doc.pages) /\ Pages \in Nat /\ DOMAIN doc.pages = 1 .. Pages
      BY DocumentsOK, SkippedRepeats
<1>2. IsFiniteSet(all)
  <2>1. runs \in Surjection(1 .. Pages, all)
        BY DEF Surjection
  <2>2. IsFiniteSet(1 .. Pages)
        BY <1>1, FS_Interval
  <2> HIDE DEF runs, all
  <2> QED BY <2>1, <2>2, FS_Surjection
<1>3. RunsOf(doc.pages) = UNION all
      BY <1>1 DEF RunsOf
<1>4. \A S \in all : IsFiniteSet(S)
      BY <1>1 DEF PagesOK
<1>5. r \in RunsOf(doc.pages) /\ s \in RunsOf(doc.pages)
      BY <1>3
<1> HIDE DEF all
<1>6. IsFiniteSet(RunsOf(doc.pages))
      BY <1>2, <1>3, <1>4, FS_UNION
<1>7. IsFiniteSet((1 .. Pages) \X RunsOf(doc.pages))
  <2>1. IsFiniteSet(1 .. Pages)
        BY <1>1, FS_Interval
  <2> QED BY <1>6, <2>1, FS_Product
<1>8. Occurrences(x) \in SUBSET ((1 .. Pages) \X RunsOf(doc.pages))
      BY DEF Occurrences
<1>9. IsFiniteSet(Occurrences(x))
      BY <1>7, <1>8, FS_Subset
<1>10. PICK only : Occurrences(x) = {only}
       BY <1>9, FS_Singleton
<1>11. <<p, r>> \in Occurrences(x) /\ <<q, s>> \in Occurrences(x)
       BY <1>5 DEF Occurrences
<1> QED BY <1>10, <1>11

(* For every PDF: a table that was found is one chunk, after the lines     *)
(* above it and before those below it, unless its page has two columns or  *)
(* could not be split (_split_page_by_tables, extract_pdf,                 *)
(* build_documents).                                                       *)
THEOREM TablesInPlaceCorrect == Spec => []TablesInPlace
<1>1. Inv /\ PlaceInv => TablesInPlace
  <2> SUFFICES ASSUME Inv, PlaceInv, Chunked, Native(doc), NEW t \in tables
               PROVE  /\ Cardinality({k \in DOMAIN chunks : IsTable(chunks[k], t)}) = 1
                      /\ t.page \notin unsplit /\ OneColumn(t.page) =>
                             \A r \in doc.pages[t.page].runs :
                                 ChunkOfLine(r.text) # 0 /\ Cardinality(Occurrences(r.text)) = 1 =>
                                     /\ r.y < Top(t)    => ChunkOfLine(r.text) < ChunkOfTable(t)
                                     /\ r.y > Bottom(t) => ChunkOfLine(r.text) > ChunkOfTable(t)
      BY DEF TablesInPlace
  <2>1. /\ ExtractionShape /\ doc \in Documents /\ IsPdf(doc) /\ page \in Nat /\ page > Pages
        /\ elements \in Seq(Elements) /\ part > Len(elements) /\ part \in 1 .. Len(elements) + 1
        /\ chunks \in Seq(Elements) /\ FoundOK(tables)
        BY DEF Inv, ExtractionInv, ExtractionShape, AllRead, ChunkInv, ChunkShape, Chunked, Native
  <2>2. Pages \in Nat /\ t \in TablesIn /\ t.page \in 1 .. Pages
        BY <2>1, FoundOnPages
  <2>3. /\ \A u \in FoundTo(page) : Among(TableElement(u), elements)
        /\ Arranged(Up, Down, chunks)
        /\ \A e \in DOMAIN elements : e < part /\ elements[e].kind = "table" => Among(elements[e], chunks)
        BY DEF PlaceInv, PagesArranged, ChunksArranged
  <2>4. PICK c \in DOMAIN chunks : chunks[c] = TableElement(t)
    <3>1. t \in FoundTo(page)
          BY <2>1, <2>2 DEF FoundTo
    <3>2. PICK e \in DOMAIN elements : elements[e] = TableElement(t)
          BY <2>3, <3>1 DEF Among
    <3>3. e < part
          BY <2>1
    <3>4. Among(TableElement(t), chunks)
          BY <2>3, <3>2, <3>3 DEF TableElement
    <3> QED BY <3>4 DEF Among
  <2>5. chunks[c].kind = "table" /\ chunks[c].content = t /\ c \in Nat \ {0}
        BY <2>1, <2>4 DEF TableElement
  <2>6. {k \in DOMAIN chunks : IsTable(chunks[k], t)} = {c}
    <3>1. ASSUME NEW k \in DOMAIN chunks, IsTable(chunks[k], t), k # c PROVE FALSE
      <4>1. k < c \/ c < k
            BY <2>1, <2>5, <3>1
      <4> QED BY <2>3, <2>5, <3>1, <4>1 DEF Arranged, Follows, IsTable
    <3> QED BY <2>5, <3>1 DEF IsTable
  <2>7. Cardinality({k \in DOMAIN chunks : IsTable(chunks[k], t)}) = 1
        BY <2>6, FS_Singleton
  <2>8. ChunkOfTable(t) = c
    <3>1. Lowest({c}) = c
          BY <2>5, LowestIsLowest
    <3>2. {c} # {}
          OBVIOUS
    <3> QED BY <2>6, <3>1, <3>2 DEF ChunkOfTable, FirstWith
  <2>9. ASSUME t.page \notin unsplit, OneColumn(t.page), NEW r \in doc.pages[t.page].runs,
               ChunkOfLine(r.text) # 0, Cardinality(Occurrences(r.text)) = 1
        PROVE  /\ r.y < Top(t)    => ChunkOfLine(r.text) < c
               /\ r.y > Bottom(t) => ChunkOfLine(r.text) > c
    <3> DEFINE l == ChunkOfLine(r.text)
    <3>1. l \in DOMAIN chunks /\ In(r.text, chunks[l])
      <4> DEFINE with == {k \in DOMAIN chunks : In(r.text, chunks[k])}
      <4>1. l = IF with = {} THEN 0 ELSE Lowest(with)
            BY DEF ChunkOfLine, FirstWith
      <4>2. with \subseteq Nat /\ with # {}
            BY <2>1, <2>9, <4>1
      <4>3. Lowest(with) \in with
        <5> HIDE DEF with
        <5> QED BY <4>2, LowestIsLowest
      <4> HIDE DEF l
      <4> QED BY <4>1, <4>2, <4>3
    <3>2. chunks[l].kind # "table" /\ Has(chunks[l].content, r.text)
          BY <3>1, InIsHas
    <3>3. r.text \in Wordings
          BY <2>1, <3>1, <3>2, ChunksOfWordings DEF HoldsLine
    <3>4. Placed(t) /\ Top(t) \in Int /\ Bottom(t) \in Int /\ Top(t) <= Bottom(t)
      <4>1. t.y0 \in Int /\ t.y1 \in Int /\ t.y0 <= t.y1
            BY <2>1 DEF FoundOK
      <4> QED BY <2>9, <4>1, DocumentsOK DEF Placed, Top, Bottom
    <3>5. r.y \in Int
          BY <2>1, <2>2, SkippedRepeats, DocumentsOK DEF PagesOK
    <3>6. \A p \in 1 .. Pages : \A s \in doc.pages[p].runs : s.text = r.text => p = t.page /\ s = r
          BY <2>1, <2>2, <2>9, OccursOnce
    <3> HIDE DEF l
    <3>7. l # c /\ l \in Nat
          BY <2>1, <2>5, <3>1, <3>2
    <3>8. ASSUME r.y < Top(t), c < l PROVE FALSE
      <4>1. Follows(Up, Down, chunks[c], chunks[l])
            BY <2>3, <3>1, <3>8 DEF Arranged
      <4>2. <<r.text, t>> \in Down
            BY <2>5, <3>2, <4>1 DEF Follows
      <4>3. StandsBelow(r.text, t)
            BY <2>2, <3>3, <3>4, <4>2, UpAndDown
      <4> QED BY <2>2, <3>4, <3>5, <3>6, <3>8, <4>3 DEF StandsBelow
    <3>9. ASSUME r.y > Bottom(t), l < c PROVE FALSE
      <4>1. Follows(Up, Down, chunks[l], chunks[c])
            BY <2>3, <3>1, <3>9 DEF Arranged
      <4>2. <<r.text, t>> \in Up
            BY <2>5, <3>2, <4>1 DEF Follows
      <4>3. StandsAbove(r.text, t)
            BY <2>2, <3>3, <3>4, <4>2, UpAndDown
      <4> QED BY <2>2, <3>4, <3>5, <3>6, <3>9, <4>3 DEF StandsAbove
    <3> QED BY <2>5, <3>7, <3>8, <3>9 DEF l
  <2> QED BY <2>7, <2>8, <2>9
<1> QED BY <1>1, InvHolds, PlacesHold, PTL

----------------------------------------------------------------------------
(* The order of the lines: which has to be read before which.              *)
Shown(q) == {r \in doc.pages[q].runs : r.text \notin Skipped}

(* A line that has to be read before another, both told by their texts.    *)
Once(x) == Cardinality(Occurrences(x)) = 1
StandsBefore(x, y) ==
    \E p, q \in 1 .. Pages : \E r \in Shown(p), s \in Shown(q) :
        r.text = x /\ s.text = y /\ (p < q \/ (p = q /\ r # s /\ ReadBefore(Shown(p), r, s)))
Must(x, y) == Once(x) /\ Once(y) /\ StandsBefore(x, y)

InOrder == {q \in Wordings \X Wordings : ~Must(q[2], q[1])}

LEMMA MustOfRuns ==
    ASSUME doc \in Documents, Native(doc), NEW x, NEW y, Must(x, y),
           NEW p \in 1 .. Pages, NEW r \in Shown(p), r.text = x,
           NEW q \in 1 .. Pages, NEW s \in Shown(q), s.text = y
    PROVE  p < q \/ (p = q /\ r # s /\ ReadBefore(Shown(p), r, s))
<1>1. IsPdf(doc) /\ Once(x) /\ Once(y)
      BY DEF Native, Must
<1>2. PICK p1 \in 1 .. Pages, q1 \in 1 .. Pages : \E r1 \in Shown(p1), s1 \in Shown(q1) :
        r1.text = x /\ s1.text = y /\ (p1 < q1 \/ (p1 = q1 /\ r1 # s1 /\ ReadBefore(Shown(p1), r1, s1)))
      BY DEF Must, StandsBefore
<1>3. PICK r1 \in Shown(p1), s1 \in Shown(q1) :
        r1.text = x /\ s1.text = y /\ (p1 < q1 \/ (p1 = q1 /\ r1 # s1 /\ ReadBefore(Shown(p1), r1, s1)))
      BY <1>2
<1>4. /\ r \in doc.pages[p].runs /\ r1 \in doc.pages[p1].runs
      /\ s \in doc.pages[q].runs /\ s1 \in doc.pages[q1].runs
      BY DEF Shown
<1>5. p1 = p /\ r1 = r
      BY <1>1, <1>3, <1>4, OccursOnce DEF Once
<1>6. q1 = q /\ s1 = s
      BY <1>1, <1>3, <1>4, OccursOnce DEF Once
<1> QED BY <1>3, <1>5, <1>6

LEMMA LineOfRun ==
    ASSUME NEW q, NEW x \in LinesOn(q)
    PROVE  \E r \in Shown(q) : r.text = x
BY DEF LinesOn, Shown

(* The lines of a page come after those of the earlier pages.              *)
LEMMA LaterPages ==
    ASSUME ExtractionShape, Native(doc), NEW p \in 1 .. Pages
    PROVE  \A x \in LinesTo(p), y \in LinesOn(p) : <<x, y>> \in InOrder
<1> SUFFICES ASSUME NEW x \in LinesTo(p), NEW y \in LinesOn(p)
             PROVE  <<x, y>> \in InOrder
    OBVIOUS
<1>1. doc \in Documents /\ Pages \in Nat
      BY FoundOnPages DEF ExtractionShape
<1>2. PICK q \in 1 .. Pages : q < p /\ x \in LinesOn(q)
      BY DEF LinesTo
<1>3. x \in Wordings /\ y \in Wordings
      BY <1>1, <1>2, PageLines
<1>4. ASSUME Must(y, x) PROVE FALSE
  <2>1. PICK r \in Shown(p) : r.text = y
        BY LineOfRun
  <2>2. PICK s \in Shown(q) : s.text = x
        BY <1>2, LineOfRun
  <2>3. p < q \/ p = q
        BY <1>1, <1>4, <2>1, <2>2, MustOfRuns
  <2> QED BY <1>1, <1>2, <2>3
<1> QED BY <1>3, <1>4 DEF InOrder

LEMMA PageInOrder ==
    ASSUME doc \in Documents, Native(doc), NEW q \in 1 .. Pages
    PROVE  Pairs(InOrder, Texts(TextObjects(q)))
<1> DEFINE objs == Shown(q)
           read == TextObjects(q)
<1>1. IsPdf(doc) /\ PagesOK(doc.pages) /\ q \in DOMAIN doc.pages
      BY DocumentsOK, SkippedRepeats DEF Native
<1>2. RunsOK(objs)
  <2> DEFINE runs == doc.pages[q].runs
  <2>1. RunsOK(runs)
        BY <1>1 DEF PagesOK, RunsOK
  <2>2. objs \in SUBSET runs
        BY DEF Shown
  <2> HIDE DEF objs, runs
  <2> QED BY <2>1, <2>2, RunsOfPart
<1>3. ColumnsApart(objs)
  <2>1. objs = {r \in doc.pages[q].runs : r.text \notin RunningLines(doc.pages)}
        BY DEF Shown, Skipped
  <2> HIDE DEF objs
  <2> QED BY <1>1, <2>1, ColumnsOK DEF ColumnsApart
<1>4. read = OrderPageTextObjects(objs) /\ \A r \in objs : r.text \in LinesOn(q)
      BY DEF TextObjects, Shown, LinesOn
<1>5. \A r \in objs : r.text \in Wordings
      BY <1>4, PageLines
<1> HIDE DEF objs, read
<1>6. read \in Seq(objs) /\ Pairs(AsRead(objs), read)
      BY <1>2, <1>3, <1>4, OrderReadsAll, OrderInOrder
<1>7. AsRead(objs) \subseteq RunPairs(InOrder, objs)
  <2> SUFFICES ASSUME NEW r \in objs, NEW s \in objs, ~ReadBefore(objs, s, r)
               PROVE  <<r.text, s.text>> \in InOrder
      BY DEF AsRead, RunPairs
  <2>1. ASSUME Must(s.text, r.text) PROVE FALSE
    <3>1. q < q \/ (q = q /\ s # r /\ ReadBefore(objs, s, r))
      <4> DEFINE x == s.text
                 y == r.text
      <4>1. s \in Shown(q) /\ r \in Shown(q) /\ s.text = x /\ r.text = y /\ Must(x, y)
            BY <2>1 DEF objs
      <4> HIDE DEF x, y
      <4> QED BY <4>1, MustOfRuns DEF objs
    <3>2. q \in Int
          OBVIOUS
    <3> QED BY <3>1, <3>2
  <2> QED BY <1>5, <2>1 DEF InOrder
<1>8. Pairs(RunPairs(InOrder, objs), read)
      BY <1>6, <1>7 DEF Pairs
<1> QED BY <1>6, <1>8, TextPairs DEF read

LEMMA NoneMustPrecedeItself ==
    ASSUME doc \in Documents, Native(doc), NEW x
    PROVE  ~Must(x, x)
<1> SUFFICES ASSUME Must(x, x) PROVE FALSE
    OBVIOUS
<1>1. PICK p \in 1 .. Pages, q \in 1 .. Pages : \E r \in Shown(p), s \in Shown(q) : r.text = x /\ s.text = x
      BY DEF Must, StandsBefore
<1>2. PICK r \in Shown(p) : r.text = x
      BY <1>1
<1>3. p < p \/ (p = p /\ r # r)
      BY <1>2, MustOfRuns
<1>4. p \in Int
      OBVIOUS
<1> QED BY <1>3, <1>4

(* Lines of a page, in paragraphs or in the elements it is split into.     *)
LEMMA PlainTextInOrder ==
    ASSUME doc \in Documents, Native(doc), NEW q \in 1 .. Pages
    PROVE  /\ PlainText(q) \in Seq(Paragraph(LinesOn(q)))
           /\ Pairs(InOrder, FlattenSeq(PlainText(q)))
<1> DEFINE lines == Texts(TextObjects(q))
           objs  == Shown(q)
<1>1. TextObjects(q) \in Seq(objs) /\ (\A r \in objs : r.text \in LinesOn(q)) /\ PlainText(q) \in Seq(Paragraph(LinesOn(q)))
      BY PageLines DEF Shown
<1> HIDE DEF objs
<1>2. lines \in Seq(LinesOn(q))
      BY <1>1, TextsOf
<1>3. Pairs(InOrder, lines)
      BY PageInOrder
<1>4. PlainText(q) = ReconstructParagraphs(lines)
      BY DEF PlainText
<1> HIDE DEF lines
<1> QED BY <1>1, <1>2, <1>3, <1>4, ParagraphsInOrder

LEMMA SplitInOrder ==
    ASSUME ExtractionShape, Native(doc), NEW q \in 1 .. Pages
    PROVE  /\ SplitPageByTables(q, TextObjects(q)) \in Seq(Segment(LinesOn(q), TablesOf(q)))
           /\ Pairs(InOrder, Flat(SplitPageByTables(q, TextObjects(q))))
<1> DEFINE objs == Shown(q)
           read == TextObjects(q)
<1>1. doc \in Documents /\ IsPdf(doc)
      BY DEF ExtractionShape, Native
<1>2. read \in Seq(objs) /\ \A r \in objs : r.text \in LinesOn(q)
      BY <1>1, PageLines DEF Shown
<1>3. TablesApart(TablesOf(q))
      BY <1>1, PageTables
<1>4. Pairs(InOrder, Texts(read))
      BY <1>1, PageInOrder
<1> HIDE DEF objs, read
<1>5. SplitPageByTables(q, read) \in Seq(Segment(LinesOn(q), TablesOf(q)))
      BY <1>2, <1>3, PageSplitHolds
<1>6. Pairs(InOrder, Flat(SplitPageByTables(q, read)))
      BY <1>2, <1>3, <1>4, PageSplitInOrder
<1> QED BY <1>5, <1>6 DEF read

----------------------------------------------------------------------------
(* While the document is read.                                             *)
(* What has been read stands in its order.                                 *)
ReadInOrder == Native(doc) => Pairs(InOrder, Flat(elements) \o FlattenSeq(buffer))

LEMMA ReadLines ==
    ASSUME PagesArranged, Native(doc)
    PROVE  /\ elements \in Seq(Element(LinesTo(page), FoundTo(page))) /\ buffer \in Seq(Paragraph(LinesTo(page)))
           /\ Flat(elements) \in Seq(LinesTo(page)) /\ FlattenSeq(buffer) \in Seq(LinesTo(page))
           /\ Flat(elements) \o FlattenSeq(buffer) \in Seq(LinesTo(page))
<1> DEFINE T == LinesTo(page)
           U == FoundTo(page)
           a == Flat(elements)
           b == FlattenSeq(buffer)
<1>1. elements \in Seq(Element(T, U)) /\ buffer \in Seq(Paragraph(T))
      BY DEF PagesArranged
<1> HIDE DEF T, U
<1>2. a \in Seq(T) /\ b \in Seq(T)
      BY <1>1, FlatElements, ParagraphsFlat
<1> HIDE DEF a, b
<1>3. a \o b \in Seq(T)
      BY <1>2, Joins
<1> QED BY <1>1, <1>2, <1>3 DEF T, U, a, b

LEMMA MoreRead ==
    ASSUME ExtractionInv, PagesArranged, ReadInOrder, Native(doc), page \in 1 .. Pages,
           NEW b \in Seq(LinesOn(page)), Pairs(InOrder, b)
    PROVE  Pairs(InOrder, (Flat(elements) \o FlattenSeq(buffer)) \o b)
<1> DEFINE a == Flat(elements) \o FlattenSeq(buffer)
           T == LinesTo(page)
           X == LinesOn(page)
<1>1. a \in Seq(T) /\ b \in Seq(X)
      BY ReadLines
<1>2. Pairs(InOrder, a)
      BY DEF ReadInOrder
<1>3. \A x \in T, y \in X : <<x, y>> \in InOrder
      BY LaterPages DEF ExtractionInv
<1> HIDE DEF a, T, X
<1>4. a \in Seq(T \cup X) /\ b \in Seq(T \cup X)
      BY <1>1, SeqMonotone
<1>5. \A x \in Range(a), y \in Range(b) : <<x, y>> \in InOrder
      BY <1>1, <1>3, ConcatRange
<1>6. Pairs(InOrder, a \o b)
      BY <1>2, <1>4, <1>5, PairsConcat
<1> QED BY <1>6 DEF a

LEMMA SameOrder ==
    ASSUME UNCHANGED doc
    PROVE  InOrder' = InOrder /\ Native(doc)' = Native(doc) /\ \A x, y : Must(x, y)' <=> Must(x, y)
<1>1. Skipped' = Skipped /\ Wordings' = Wordings /\ Native(doc)' = Native(doc) /\ Pages' = Pages
      BY SameDocument
<1>2. \A q : Shown(q)' = Shown(q)
      BY <1>1 DEF Shown
<1>3. \A x : Once(x)' = Once(x)
      BY DEF Once, Occurrences, Pages
<1>4. \A x, y : Must(x, y)' <=> Must(x, y)
      BY <1>1, <1>2, <1>3 DEF Must, StandsBefore, ReadBefore, Parted, OnLeft
<1> QED BY <1>1, <1>4 DEF InOrder

LEMMA PageWithoutTablesInOrder ==
    ASSUME ExtractionInv, PagesArranged, ReadInOrder, PageWithoutTables
    PROVE  ReadInOrder'
<1>1. /\ stage = "pages" /\ page <= Pages /\ buffer' = buffer \o PlainText(page) /\ UNCHANGED <<doc, elements>>
      BY DEF PageWithoutTables
<1>2. ExtractionShape /\ Native(doc) /\ page \in Nat \ {0} /\ doc \in Documents
      BY <1>1 DEF ExtractionInv, ExtractionShape, Native
<1>3. page \in 1 .. Pages
      BY <1>1, <1>2, FoundOnPages
<1> DEFINE plain == PlainText(page)
           T == LinesTo(page) \cup LinesOn(page)
           a == Flat(elements)
           b == FlattenSeq(buffer)
           c == FlattenSeq(plain)
<1>4. plain \in Seq(Paragraph(LinesOn(page))) /\ Pairs(InOrder, c)
      BY <1>2, <1>3, PlainTextInOrder
<1>5. a \in Seq(LinesTo(page)) /\ b \in Seq(LinesTo(page)) /\ buffer \in Seq(Paragraph(LinesTo(page)))
      BY <1>2, ReadLines
<1>6. c \in Seq(LinesOn(page))
  <2> HIDE DEF plain
  <2> QED BY <1>4, ParagraphsFlat
<1>7. Pairs(InOrder, (a \o b) \o c)
  <2> HIDE DEF c
  <2> QED BY <1>2, <1>3, <1>4, <1>6, MoreRead
<1>8. FlattenSeq(buffer \o plain) = b \o c
  <2>1. buffer \in Seq(Paragraph(T)) /\ plain \in Seq(Paragraph(T))
        BY <1>4, <1>5, ElementsGrow
  <2> HIDE DEF plain, T
  <2> QED BY <2>1, ParagraphsFlat
<1>9. a \in Seq(T) /\ b \in Seq(T) /\ c \in Seq(T)
  <2> HIDE DEF a, b, c
  <2> QED BY <1>5, <1>6, SeqMonotone
<1>10. (a \o b) \o c = a \o (b \o c)
  <2> HIDE DEF a, b, c, T
  <2>1. SameJoined(a, b, c)
        BY <1>9, Regroup
  <2> QED BY <2>1 DEF SameJoined
<1>11. Pairs(InOrder, a \o FlattenSeq(buffer \o plain))
       BY <1>7, <1>8, <1>10
<1>12. InOrder' = InOrder
       BY <1>1, SameOrder
<1>13. Flat(elements') = a /\ FlattenSeq(buffer') = FlattenSeq(buffer \o plain)
       BY <1>1
<1> HIDE DEF a, plain
<1> QED BY <1>11, <1>12, <1>13 DEF ReadInOrder

LEMMA PageWithTablesInOrder ==
    ASSUME ExtractionInv, PagesArranged, ReadInOrder, PageWithTables
    PROVE  ReadInOrder'
<1> DEFINE T == LinesTo(page) \cup LinesOn(page)
           U == FoundTo(page) \cup TablesOf(page)
           segments == SplitPageByTables(page, TextObjects(page))
           read == WithSegments(segments)
           a == Flat(elements) \o FlattenSeq(buffer)
           c == Flat(segments)
<1>1. /\ stage = "pages" /\ page <= Pages /\ elements' = read.es /\ buffer' = read.prose /\ UNCHANGED doc
      BY DEF PageWithTables
<1>2. ExtractionShape /\ Native(doc) /\ page \in Nat \ {0} /\ doc \in Documents
      BY <1>1 DEF ExtractionInv, ExtractionShape, Native
<1>3. page \in 1 .. Pages
      BY <1>1, <1>2, FoundOnPages
<1>4. segments \in Seq(Segment(LinesOn(page), TablesOf(page))) /\ Pairs(InOrder, c)
      BY <1>2, <1>3, SplitInOrder
<1>5. elements \in Seq(Element(LinesTo(page), FoundTo(page))) /\ buffer \in Seq(Paragraph(LinesTo(page)))
      BY <1>2, ReadLines
<1> HIDE DEF segments
<1>6. c \in Seq(LinesOn(page))
  <2>1. Segment(LinesOn(page), TablesOf(page)) \subseteq Element(LinesOn(page), TablesOf(page))
        BY DEF Segment, Element
  <2>2. segments \in Seq(Element(LinesOn(page), TablesOf(page)))
        BY <1>4, <2>1, SeqMonotone
  <2> QED BY <2>2, FlatElements
<1>7. Pairs(InOrder, a \o c)
  <2> HIDE DEF c
  <2> QED BY <1>2, <1>3, <1>4, <1>6, MoreRead
<1>8. /\ buffer \in Seq(Paragraph(T)) /\ elements \in Seq(Element(T, U))
      /\ segments \in Seq(Segment(T, U))
  <2>1. Segment(LinesOn(page), TablesOf(page)) \subseteq Segment(T, U)
        BY ElementsGrow DEF Segment
  <2> HIDE DEF T, U
  <2>2. segments \in Seq(Segment(T, U))
        BY <1>4, <2>1, SeqMonotone
  <2> QED BY <1>5, <2>2, ElementsGrow DEF T, U
<1> HIDE DEF T, U
<1>9. Gather(read) = a \o c
      BY <1>8, SegmentsInOrder
<1>10. InOrder' = InOrder
       BY <1>1, SameOrder
<1>11. Flat(elements') \o FlattenSeq(buffer') = Gather(read)
       BY <1>1 DEF Gather
<1> HIDE DEF read, a, c
<1> QED BY <1>7, <1>9, <1>10, <1>11 DEF ReadInOrder

(* Tables have no lines.                                                   *)
LEMMA TablesFlat ==
    ASSUME NEW U, NEW fs \in Seq(Element({}, U))
    PROVE  Flat(fs) = <<>>
<1> DEFINE a == Flat(fs)
<1>1. a \in Seq({})
      BY FlatElements
<1> HIDE DEF a
<1>2. a = <<>>
      BY <1>1
<1> QED BY <1>2 DEF a

LEMMA PageSplitFailsInOrder ==
    ASSUME ExtractionInv, PagesArranged, ReadInOrder, PageSplitFails
    PROVE  ReadInOrder'
<1> DEFINE plain == PlainText(page)
           T == LinesTo(page) \cup LinesOn(page)
           U == FoundTo(page) \cup TablesOf(page)
           prose == buffer \o plain
           flushed == Flushed(elements, prose)
           a == Flat(elements)
           b == FlattenSeq(buffer)
           c == FlattenSeq(plain)
<1>1. PICK found \in SetToSeqs(TablesOf(page)) :
          elements' = flushed \o [k \in DOMAIN found |-> TableElement(found[k])]
      BY DEF PageSplitFails
<1>2. stage = "pages" /\ page <= Pages /\ buffer' = <<>> /\ UNCHANGED doc
      BY DEF PageSplitFails
<1>3. ExtractionShape /\ Native(doc) /\ page \in Nat \ {0} /\ doc \in Documents /\ IsPdf(doc)
      BY <1>2 DEF ExtractionInv, ExtractionShape, Native
<1>4. page \in 1 .. Pages
      BY <1>2, <1>3, FoundOnPages
<1>5. plain \in Seq(Paragraph(LinesOn(page))) /\ Pairs(InOrder, c)
      BY <1>3, <1>4, PlainTextInOrder
<1>6. /\ elements \in Seq(Element(LinesTo(page), FoundTo(page))) /\ buffer \in Seq(Paragraph(LinesTo(page)))
      /\ a \in Seq(LinesTo(page)) /\ b \in Seq(LinesTo(page))
      BY <1>3, ReadLines
<1>7. c \in Seq(LinesOn(page))
  <2> HIDE DEF plain
  <2> QED BY <1>5, ParagraphsFlat
<1>8. Pairs(InOrder, (a \o b) \o c)
  <2> HIDE DEF c
  <2> QED BY <1>3, <1>4, <1>5, <1>7, MoreRead
<1>9. buffer \in Seq(Paragraph(T)) /\ plain \in Seq(Paragraph(T)) /\ elements \in Seq(Element(T, U))
      BY <1>5, <1>6, ElementsGrow
<1>10. PICK fs : fs = [k \in DOMAIN found |-> TableElement(found[k])]
       OBVIOUS
<1>11. fs \in Seq(Element({}, U)) /\ fs \in Seq(Element(T, U))
  <2>1. IsFiniteSet(TablesOf(page)) /\ TablesOf(page) \subseteq U
        BY <1>3, PageTables DEF TablesApart
  <2> HIDE DEF T, U
  <2> QED BY <1>10, <2>1, TablesAsFound
<1>12. a \in Seq(T) /\ b \in Seq(T) /\ c \in Seq(T)
  <2> HIDE DEF a, b, c
  <2> QED BY <1>6, <1>7, SeqMonotone
<1>13. elements' = flushed \o fs /\ InOrder' = InOrder
       BY <1>1, <1>2, <1>10, SameOrder
<1> HIDE DEF T, U, plain
<1>14. FlattenSeq(prose) = b \o c /\ prose \in Seq(Paragraph(T))
       BY <1>9, ParagraphsFlat
<1> HIDE DEF prose
<1>15. flushed \in Seq(Element(T, U)) /\ Flat(flushed) = a \o (b \o c)
       BY <1>9, <1>14, FlushedHolds, FlushedFlat
<1> DEFINE all == a \o (b \o c)
<1> HIDE DEF flushed
<1>16. Flat(flushed \o fs) = all \o <<>> /\ all \in Seq(T)
  <2>1. flushed \in Seq(Element(T, U)) /\ fs \in Seq(Element(T, U))
        BY <1>11, <1>15
  <2>2. Flat(flushed \o fs) = Flat(flushed) \o Flat(fs) /\ Flat(flushed) \in Seq(T)
        BY <2>1, FlatElements
  <2>3. Flat(fs) = <<>>
        BY <1>11, TablesFlat
  <2> HIDE DEF all
  <2> QED BY <1>15, <2>2, <2>3 DEF all
<1>17. all = (a \o b) \o c
  <2> HIDE DEF a, b, c
  <2>1. SameJoined(a, b, c)
        BY <1>12, Regroup
  <2> QED BY <2>1 DEF SameJoined
<1> HIDE DEF all, a, b, c
<1>18. (all \o <<>>) \o <<>> = all
  <2>1. all \o <<>> = all
        BY <1>16, Joins
  <2> QED BY <2>1
<1>19. Flat(elements') \o FlattenSeq(buffer') = all
       BY <1>2, <1>13, <1>16, <1>18, FlatNone
<1> QED BY <1>8, <1>13, <1>17, <1>19 DEF ReadInOrder

LEMMA EndPdfInOrder ==
    ASSUME ExtractionInv, PagesArranged, ReadInOrder, EndPdf
    PROVE  ReadInOrder'
<1>1. stage = "pages" /\ elements' = Flushed(elements, buffer) /\ buffer' = <<>> /\ UNCHANGED doc
      BY DEF EndPdf
<1>2. Native(doc)
      BY <1>1 DEF ExtractionInv, ExtractionShape
<1> DEFINE T == LinesTo(page)
           U == FoundTo(page)
           a == Flat(elements) \o FlattenSeq(buffer)
<1>3. elements \in Seq(Element(T, U)) /\ buffer \in Seq(Paragraph(T)) /\ a \in Seq(T)
      BY <1>2, ReadLines
<1>4. Flat(elements') = a
  <2> HIDE DEF T, U
  <2> QED BY <1>1, <1>3, FlushedFlat
<1>5. Pairs(InOrder, a) /\ InOrder' = InOrder
      BY <1>1, <1>2, SameOrder DEF ReadInOrder
<1> HIDE DEF a
<1>6. a \o <<>> = a
      BY <1>3, Joins
<1>7. Flat(elements') \o FlattenSeq(buffer') = a
      BY <1>1, <1>4, <1>6, FlatNone
<1> QED BY <1>5, <1>7 DEF ReadInOrder

LEMMA NothingReadInOrder ==
    ASSUME elements = <<>>, buffer = <<>>
    PROVE  ReadInOrder
<1>1. Flat(elements) \o FlattenSeq(buffer) = <<>>
  <2>1. <<>> \o <<>> = <<>>
        OBVIOUS
  <2> QED BY <2>1, FlatNone, FlatNoElements
<1> QED BY <1>1 DEF ReadInOrder, Pairs

LEMMA ExtractInOrder ==
    ASSUME ExtractionInv, PagesArranged, ReadInOrder, Extract
    PROVE  ReadInOrder'
<1>1. CASE ExtractScanned \/ OpenDocx \/ DocxParagraph \/ DocxTable \/ EndDocx
  <2>1. ~Native(doc) /\ UNCHANGED doc
        BY <1>1 DEF ExtractionInv, ExtractionShape, Native,
                    ExtractScanned, OpenDocx, DocxParagraph, DocxTable, EndDocx
  <2> QED BY <2>1, SameOrder DEF ReadInOrder
<1>2. CASE FindTables
  <2>1. UNCHANGED <<doc, elements, buffer>>
        BY <1>2 DEF FindTables
  <2> QED BY <2>1, SameOrder DEF ReadInOrder
<1> QED BY <1>1, <1>2, PageWithoutTablesInOrder, PageWithTablesInOrder, PageSplitFailsInOrder, EndPdfInOrder DEF Extract

----------------------------------------------------------------------------
(* While it is cut into chunks.                                            *)
ChunksInOrder ==
    Native(doc) => /\ stage # "extracted" => chunks = <<>> /\ part = 1
                   /\ ReadTo(InOrder, Wordings, Flat(chunks), Flat(elements), LinesBefore(elements, part - 1))

(* The first group starts with the first paragraph.                        *)
FromStart == Count > 0 => groups[1].from = 0

OrderInv == ReadInOrder /\ ChunksInOrder /\ FromStart

LEMMA ElementsFlat ==
    ASSUME ExtractionShape
    PROVE  Flat(elements) \in Seq(Wordings)
<1>1. elements \in Seq(Element(Wordings, TablesIn))
      BY DEF ExtractionShape, Elements
<1> QED BY <1>1, FlatElements

LEMMA ExtractedInOrder ==
    ASSUME Inv, ReadInOrder, Native(doc), stage = "extracted"
    PROVE  Ordered(InOrder, Flat(elements))
<1>1. Flat(elements) \in Seq(Wordings) /\ doc \in Documents /\ buffer = <<>>
      BY ElementsFlat DEF Inv, ExtractionInv, ExtractionShape, AllRead
<1> DEFINE a == Flat(elements)
           T == Wordings
<1>2. a \in Seq(T)
      BY <1>1
<1>3. Pairs(InOrder, a \o <<>>)
      BY <1>1, FlatNone DEF ReadInOrder
<1>4. \A x \in T : <<x, x>> \in InOrder
      BY <1>1, NoneMustPrecedeItself DEF InOrder
<1> HIDE DEF a, T
<1>5. a \o <<>> = a
      BY <1>2, Joins
<1>6. Range(a) \subseteq T
      BY <1>2, ConcatRange
<1> QED BY <1>3, <1>4, <1>5, <1>6 DEF Ordered, a

LEMMA ExtractionKeepsOrder ==
    ASSUME Inv, PlaceInv, OrderInv, Extraction
    PROVE  OrderInv'
<1>1. Extract /\ UNCHANGED <<part, chunks, groups>>
      BY DEF Extraction, chunking
<1>2. stage # "extracted" /\ UNCHANGED doc
      BY <1>1 DEF Extract, ExtractScanned, FindTables, PageWithoutTables, PageWithTables, PageSplitFails, EndPdf,
                  OpenDocx, DocxParagraph, DocxTable, EndDocx
<1>3. ReadInOrder'
      BY <1>1, ExtractInOrder DEF Inv, PlaceInv, OrderInv
<1>4. part' = 1 /\ chunks' = <<>>
      BY <1>1, <1>2 DEF Inv, ChunkInv, ChunkShape
<1>5. Flat(elements') \in Seq(Wordings')
  <2>1. elements' \in Seq(Element(Wordings', TablesIn'))
        BY ExtractionKeepsInv DEF Inv, ExtractionInv, ExtractionShape, Elements
  <2> QED BY <2>1, FlatElements
<1>6. ReadTo(InOrder', Wordings', <<>>, Flat(elements'), 0)
      BY <1>5, NothingToRead
<1>7. ChunksInOrder'
      BY <1>4, <1>6, NoneBefore, FlatNoElements DEF ChunksInOrder
<1>8. FromStart'
      BY <1>1 DEF OrderInv, FromStart, Count
<1> QED BY <1>3, <1>7, <1>8 DEF OrderInv

LEMMA BuiltInOrder ==
    ASSUME ReadInOrder, UNCHANGED extraction
    PROVE  /\ ReadInOrder' /\ InOrder' = InOrder /\ Wordings' = Wordings /\ Native(doc)' = Native(doc)
           /\ UNCHANGED <<doc, elements, stage>>
<1>1. UNCHANGED <<doc, elements, buffer, stage>>
      BY DEF extraction
<1> QED BY <1>1, SameOrder, SameDocument DEF ReadInOrder

LEMMA AddAtomicKeepsOrder ==
    ASSUME Inv, OrderInv, AddAtomic
    PROVE  OrderInv'
<1> DEFINE e == elements[part]
           E == Flat(elements)
           L == Flat(chunks)
           p == LinesBefore(elements, part - 1)
<1>1. /\ stage = "extracted" /\ part <= Len(elements) /\ chunks' = Append(chunks, e) /\ part' = part + 1
      /\ UNCHANGED extraction /\ UNCHANGED groups
      BY DEF AddAtomic, Building, chunking
<1>2. /\ ReadInOrder' /\ InOrder' = InOrder /\ Wordings' = Wordings /\ Native(doc)' = Native(doc)
      /\ UNCHANGED <<elements, stage>>
      BY <1>1, BuiltInOrder DEF OrderInv
<1>3. FromStart'
      BY <1>1 DEF OrderInv, FromStart, Count
<1>4. /\ elements \in Seq(Element(Wordings, TablesIn)) /\ chunks \in Seq(Element(Wordings, TablesIn))
      /\ part \in 1 .. Len(elements)
      BY <1>1 DEF Inv, ExtractionInv, ExtractionShape, ChunkInv, ChunkShape, Elements
<1>5. ASSUME Native(doc)
      PROVE  ReadTo(InOrder, Wordings, Flat(chunks'), E, LinesBefore(elements, part))
  <2>1. /\ StandsAt(LinesOf(e), E, p) /\ LinesBefore(elements, part) = p + Len(LinesOf(e))
        /\ p \in Nat /\ LinesOf(e) \in Seq(Wordings)
        BY <1>4, ElementStands
  <2>2. Flat(chunks') = L \o LinesOf(e)
    <3> DEFINE V == Element(Wordings, TablesIn)
    <3>1. elements \in Seq(V) /\ part \in DOMAIN elements
          BY <1>4
    <3>2. e \in V
      <4> HIDE DEF V
      <4> QED BY <3>1
    <3> HIDE DEF e
    <3>3. chunks \in Seq(Element(Wordings, TablesIn)) /\ e \in Element(Wordings, TablesIn)
          BY <1>4, <3>2
    <3>4. Flat(Append(chunks, e)) = L \o LinesOf(e)
          BY <3>3, FlatElement
    <3> QED BY <1>1, <3>4
  <2>3. ReadTo(InOrder, Wordings, L, E, p)
        BY <1>5 DEF OrderInv, ChunksInOrder
  <2>4. Ordered(InOrder, E)
        BY <1>1, <1>5, ExtractedInOrder DEF OrderInv
  <2> DEFINE B == LinesOf(e)
  <2> HIDE DEF E, L, p, B
  <2>5. p \in 0 .. p /\ B \in Seq(Wordings) /\ StandsAt(B, E, p)
        BY <2>1 DEF B
  <2>6. ReadTo(InOrder, Wordings, L \o B, E, p + Len(B))
        BY <2>3, <2>4, <2>5, ReadOn
  <2> QED BY <2>1, <2>2, <2>6 DEF B
<1>6. ChunksInOrder'
  <2>1. part' - 1 = part
        BY <1>1, <1>4
  <2> QED BY <1>1, <1>2, <1>5, <2>1 DEF ChunksInOrder
<1> QED BY <1>2, <1>3, <1>6 DEF OrderInv

LEMMA GroupingKeepsOrder ==
    ASSUME Inv, OrderInv, BeginText \/ Grouping \/ Finished \/ UNCHANGED vars
    PROVE  OrderInv'
<1>1. UNCHANGED extraction /\ UNCHANGED <<part, chunks>>
      BY DEF BeginText, Grouping, Finished, vars
<1>2. /\ ReadInOrder' /\ InOrder' = InOrder /\ Wordings' = Wordings /\ Native(doc)' = Native(doc)
      /\ UNCHANGED <<elements, stage>>
      BY <1>1, BuiltInOrder DEF OrderInv
<1>3. ChunksInOrder'
      BY <1>1, <1>2 DEF OrderInv, ChunksInOrder
<1>4. FromStart'
  <2>1. CASE groups' = <<>>
        BY <2>1 DEF FromStart, Count
  <2>2. CASE UNCHANGED groups
        BY <2>2 DEF FromStart, Count, OrderInv
  <2>3. CASE Loop!Iterate
    <3>1. /\ i < n /\ 0 <= o /\ o < g /\ 0 <= i
          /\ n \in Nat /\ g \in Int /\ o \in Int /\ i \in Int /\ Count \in Nat
          BY <2>3 DEF Loop!Iterate, Position, LoopType, Count, LoopInv, Inv
    <3>2. groups' = Append(groups, NextGroup) /\ (Count = 0 => i = 0)
          BY <2>3, <3>1 DEF Loop!Iterate, NextGroup, Position, LoopInv, Inv
    <3>3. /\ Count' = Count + 1 /\ groups'[Count + 1].from = i /\ \A k \in 1 .. Count : groups'[k] = groups[k]
          BY <3>2, AppendedGroup DEF Inv, LoopInv
    <3>4. CASE Count = 0
          BY <3>2, <3>3, <3>4 DEF FromStart
    <3>5. CASE Count > 0
          BY <3>1, <3>3, <3>5 DEF FromStart, OrderInv
    <3> QED BY <3>1, <3>4, <3>5
  <2> QED BY <2>1, <2>2, <2>3
          DEF BeginText, Grouping, Finished, vars, chunking,
              Loop!Next, Loop!NoParagraphs, Loop!RaiseValueError, Loop!EnterLoop
<1> QED BY <1>2, <1>3, <1>4 DEF OrderInv

(* The groups of an element, when the loop over it has ended.              *)
LEMMA GroupsInTurn ==
    ASSUME Inv, FromStart, pc = "done"
    PROVE  LET ps == elements[part].content
           IN  /\ ps \in Seq(Paragraph(Wordings)) /\ LinesOf(elements[part]) = FlattenSeq(ps)
               /\ Count \in Nat /\ DOMAIN groups = 1 .. Count /\ stage = "extracted" /\ part \in 1 .. Len(elements)
               /\ \A k \in 1 .. Count :
                     /\ groups[k].from \in Nat /\ groups[k].to \in Nat
                     /\ groups[k].from <= groups[k].to /\ groups[k].to <= Len(ps)
                     /\ k = 1 => groups[k].from = 0
                     /\ k > 1 => groups[k].from <= groups[k - 1].to
               /\ IF Count = 0 THEN Len(ps) = 0 ELSE groups[Count].to = Len(ps)
<1> DEFINE ps == elements[part].content
<1>1. /\ stage = "extracted" /\ part \in 1 .. Len(elements) /\ elements[part].kind = "text"
      /\ n = Len(ps) /\ elements[part] \in Elements
      BY DEF Inv, ExtractionInv, ExtractionShape, ChunkInv, ChunkShape
<1>2. ps \in Seq(Paragraph(Wordings)) /\ LinesOf(elements[part]) = FlattenSeq(ps)
      BY <1>1 DEF Elements, Element, LinesOf
<1>3. /\ Count \in Nat /\ DOMAIN groups = 1 .. Count /\ groups \in Seq(Group) /\ o \in Nat
      BY DEF Inv, LoopInv, LoopType, Count
<1>4. \A k \in 1 .. Count : groups[k] \in Group
      BY <1>3
<1> HIDE DEF ps
<1>5. ASSUME NEW k \in 1 .. Count
      PROVE  /\ groups[k].from \in Nat /\ groups[k].to \in Nat
             /\ groups[k].from <= groups[k].to /\ groups[k].to <= Len(ps)
      BY <1>1, <1>4 DEF Inv, LoopInv, Chained, Group
<1>6. ASSUME NEW k \in 1 .. Count, k > 1 PROVE groups[k].from <= groups[k - 1].to
  <2>1. k \in 2 .. Count /\ k - 1 \in 1 .. Count
        BY <1>3, <1>6
  <2>2. groups[k].from = groups[k - 1].to - o /\ groups[k - 1].to \in Nat
        BY <1>5, <2>1 DEF Inv, LoopInv, Chained
  <2> QED BY <1>3, <2>2
<1>7. \A k \in 1 .. Count : k = 1 => groups[k].from = 0
      BY <1>3 DEF FromStart
<1>8. IF Count = 0 THEN Len(ps) = 0 ELSE groups[Count].to = Len(ps)
      BY <1>1, <1>3 DEF Inv, LoopInv, Position
<1> QED BY <1>1, <1>2, <1>3, <1>5, <1>6, <1>7, <1>8 DEF ps

(* How far the groups up to this one go.                                   *)
Reach(ps, k) == IF k = 0 THEN 0 ELSE Width(ps, groups[k].to)

LEMMA GroupsReadOn ==
    ASSUME Inv, FromStart, pc = "done", NEW all, NEW E, NEW c \in Nat, NEW p \in Nat,
           all \in Seq(Element(Wordings, TablesIn)), Len(all) = c + Count,
           \A k \in 1 .. Count :
               all[c + k] = TextElement(SubSeq(elements[part].content, groups[k].from + 1, groups[k].to)),
           StandsAt(LinesOf(elements[part]), E, p), Ordered(InOrder, E),
           ReadTo(InOrder, Wordings, Flat(SubSeq(all, 1, c)), E, p)
    PROVE  ReadTo(InOrder, Wordings, Flat(all), E, p + Len(LinesOf(elements[part])))
<1> DEFINE ps == elements[part].content
<1>1. /\ ps \in Seq(Paragraph(Wordings)) /\ LinesOf(elements[part]) = FlattenSeq(ps)
      /\ Count \in Nat
      /\ \A k \in 1 .. Count :
            /\ groups[k].from \in Nat /\ groups[k].to \in Nat
            /\ groups[k].from <= groups[k].to /\ groups[k].to <= Len(ps)
            /\ k = 1 => groups[k].from = 0
            /\ k > 1 => groups[k].from <= groups[k - 1].to
      /\ IF Count = 0 THEN Len(ps) = 0 ELSE groups[Count].to = Len(ps)
      BY GroupsInTurn
<1> HIDE DEF ps
<1> DEFINE m == Count
           P(k) == ReadTo(InOrder, Wordings, Flat(SubSeq(all, 1, c + k)), E, p + Reach(ps, k))
           G == {k \in 0 .. m : P(k)}
<1>2. P(0)
  <2>1. c + 0 = c /\ p + 0 = p
        OBVIOUS
  <2> QED BY <2>1 DEF Reach
<1>3. ASSUME NEW k \in 1 .. m, P(k - 1)
      PROVE  P(k)
  <2> DEFINE from == groups[k].from
             to == groups[k].to
             r == Reach(ps, k - 1)
             L == Flat(SubSeq(all, 1, c + (k - 1)))
             B == FlattenSeq(SubSeq(ps, from + 1, to))
  <2>1. from \in Nat /\ to \in Nat /\ from <= to /\ to <= Len(ps) /\ ps \in Seq(Paragraph(Wordings))
        BY <1>1
  <2>2. r \in Nat /\ Width(ps, from) <= r
    <3>1. CASE k = 1
      <4>1. from = 0 /\ r = 0
            BY <1>1, <3>1 DEF Reach
      <4>2. Width(ps, 0) = 0
            BY <2>1, WholeWidth
      <4> QED BY <4>1, <4>2
    <3>2. CASE k # 1
      <4> DEFINE before == groups[k - 1].to
      <4>1. k - 1 \in 1 .. m /\ k > 1
            BY <1>1, <3>2
      <4>2. from <= before /\ before \in Nat /\ before <= Len(ps)
            BY <1>1, <4>1
      <4>3. r = Width(ps, before)
            BY <4>1 DEF Reach
      <4> HIDE DEF from, to, before, r
      <4> QED BY <2>1, <4>2, <4>3, WidthGrows
    <3> QED BY <3>1, <3>2
  <2>3. Flat(SubSeq(all, 1, c + k)) = L \o B
    <3> DEFINE V == Element(Wordings, TablesIn)
               d == c + k
               e == all[d]
               some == SubSeq(all, 1, d - 1)
    <3>1. d \in 1 .. Len(all) /\ d - 1 = c + (k - 1) /\ all \in Seq(V)
          BY <1>1
    <3>2. LinesOf(e) = B
      <4> DEFINE x == SubSeq(ps, from + 1, to)
      <4>1. e = TextElement(x)
            BY DEF ps
      <4> HIDE DEF x
      <4>2. LinesOf(TextElement(x)) = FlattenSeq(x)
            BY LinesOfText
      <4> QED BY <4>1, <4>2 DEF x
    <3>3. SubSeq(all, 1, d) = Append(some, e) /\ some \in Seq(V) /\ e \in V
      <4> HIDE DEF V, d
      <4> QED BY <3>1, PrefixesGrow
    <3>4. some \in Seq(Element(Wordings, TablesIn)) /\ e \in Element(Wordings, TablesIn)
          BY <3>3
    <3>5. L = Flat(some)
          BY <3>1
    <3> HIDE DEF some, e, L, B, d, V
    <3>6. Flat(Append(some, e)) = Flat(some) \o LinesOf(e)
          BY <3>4, FlatElement
    <3> QED BY <3>2, <3>3, <3>5, <3>6 DEF d
  <2>4. ReadTo(InOrder, Wordings, L, E, p + r) /\ Ordered(InOrder, E) /\ StandsAt(FlattenSeq(ps), E, p)
        BY <1>1, <1>3
  <2>5. Reach(ps, k) = Width(ps, to)
        BY DEF Reach
  <2> HIDE DEF from, to, r, L
  <2>6. ReadTo(InOrder, Wordings, L \o B, E, p + Width(ps, to))
        BY <2>1, <2>2, <2>4, PartReadOn
  <2> QED BY <2>3, <2>5, <2>6
<1>4. m \in Nat /\ m \in 0 .. m
      BY <1>1
<1>5. 0 \in G
      BY <1>2, <1>4
<1>6. \A k \in 1 .. m : k - 1 \in G => k \in G
      BY <1>3, <1>4
<1> HIDE DEF G, P
<1>7. \A k \in 0 .. m : k \in G
  <2> HIDE DEF m
  <2> QED BY <1>4, <1>5, <1>6, UpToInduction
<1>8. P(m)
      BY <1>4, <1>7 DEF G
<1>9. SubSeq(all, 1, c + m) = all
  <2> DEFINE V == Element(Wordings, TablesIn)
  <2>1. all \in Seq(V) /\ c + m = Len(all)
        OBVIOUS
  <2> HIDE DEF V
  <2> QED BY <2>1, PrefixesGrow
<1>10. Reach(ps, m) = Len(FlattenSeq(ps))
  <2>1. Width(ps, 0) = 0 /\ Width(ps, Len(ps)) = Len(FlattenSeq(ps))
        BY <1>1, WholeWidth
  <2> QED BY <1>1, <2>1 DEF Reach
<1>11. LinesOf(elements[part]) = FlattenSeq(ps)
       BY <1>1
<1> QED BY <1>8, <1>9, <1>10, <1>11 DEF P

LEMMA AddGroupsKeepsOrder ==
    ASSUME Inv, OrderInv, AddGroups
    PROVE  OrderInv'
<1> DEFINE e == elements[part]
           text(k) == TextElement(SubSeq(e.content, groups[k].from + 1, groups[k].to))
           E == Flat(elements)
           p == LinesBefore(elements, part - 1)
           c == Len(chunks)
<1>1. PICK added : added = [k \in DOMAIN groups |-> text(k)]
      OBVIOUS
<1>2. pc = "done" /\ chunks' = chunks \o added /\ part' = part + 1 /\ UNCHANGED extraction /\ UNCHANGED groups
      BY <1>1 DEF AddGroups
<1>3. /\ ReadInOrder' /\ InOrder' = InOrder /\ Wordings' = Wordings /\ Native(doc)' = Native(doc)
      /\ UNCHANGED <<elements, stage>>
      BY <1>2, BuiltInOrder DEF OrderInv
<1>4. FromStart'
      BY <1>2 DEF OrderInv, FromStart, Count
<1>5. DOMAIN groups = 1 .. Count /\ Count \in Nat /\ stage = "extracted" /\ part \in 1 .. Len(elements)
      BY <1>2, GroupsInTurn DEF OrderInv
<1>6. /\ elements \in Seq(Element(Wordings, TablesIn)) /\ chunks \in Seq(Elements) /\ part + 1 - 1 = part
      BY <1>5 DEF Inv, ExtractionInv, ExtractionShape, ChunkInv, ChunkShape, Elements
<1>7. added \in Seq(Elements) /\ \A k \in 1 .. Count : added[k] = text(k)
  <2>1. \A k \in 1 .. Count : added[k] \in Elements
        BY <1>1, <1>2, <1>5, GroupsAreParts
  <2>2. DOMAIN added = 1 .. Count /\ added = [k \in 1 .. Count |-> added[k]]
        BY <1>1, <1>5
  <2>3. added \in Seq(Elements)
    <3> HIDE DEF text
    <3> QED BY <1>5, <2>1, <2>2, SequenceOf
  <2> QED BY <1>1, <1>5, <2>3
<1>8. Len(added) = Count
      BY <1>1, <1>5, <1>7
<1>9. /\ chunks' \in Seq(Elements) /\ Len(chunks') = c + Count /\ c \in Nat
      /\ \A k \in 1 .. Count : chunks'[c + k] = added[k]
      /\ SubSeq(chunks', 1, c) = chunks
  <2> DEFINE all == chunks \o added
  <2>1. chunks \in Seq(Elements) /\ added \in Seq(Elements)
        BY <1>6, <1>7
  <2> HIDE DEF text
  <2>2. /\ all \in Seq(Elements) /\ Len(all) = c + Len(added) /\ c \in Nat
        /\ \A k \in 1 .. Len(added) : all[c + k] = added[k]
        /\ \A k \in 1 .. c : all[k] = chunks[k]
        BY <2>1, Concatenated
  <2> HIDE DEF all
  <2>3. SubSeq(all, 1, c) = chunks
        BY <1>8, <2>1, <2>2, <1>5
  <2> QED BY <1>2, <1>8, <2>2, <2>3 DEF all
<1>10. ASSUME Native(doc)
       PROVE  ReadTo(InOrder, Wordings, Flat(chunks'), E, LinesBefore(elements, part))
  <2>1. /\ StandsAt(LinesOf(e), E, p) /\ LinesBefore(elements, part) = p + Len(LinesOf(e)) /\ p \in Nat
        BY <1>5, <1>6, ElementStands
  <2>2. ReadTo(InOrder, Wordings, Flat(SubSeq(chunks', 1, c)), E, p)
        BY <1>9, <1>10 DEF OrderInv, ChunksInOrder
  <2>3. Ordered(InOrder, E)
        BY <1>5, <1>10, ExtractedInOrder DEF OrderInv
  <2>4. \A k \in 1 .. Count : chunks'[c + k] = TextElement(SubSeq(elements[part].content, groups[k].from + 1, groups[k].to))
        BY <1>7, <1>9
  <2>5. chunks' \in Seq(Element(Wordings, TablesIn))
        BY <1>9 DEF Elements
  <2> HIDE DEF E, p, c, text
  <2>6. PICK all : all = chunks'
        OBVIOUS
  <2>7. /\ all \in Seq(Element(Wordings, TablesIn)) /\ Len(all) = c + Count /\ c \in Nat
        /\ \A k \in 1 .. Count : all[c + k] = TextElement(SubSeq(elements[part].content, groups[k].from + 1, groups[k].to))
        /\ ReadTo(InOrder, Wordings, Flat(SubSeq(all, 1, c)), E, p)
        BY <1>9, <2>2, <2>4, <2>5, <2>6
  <2>8. Inv /\ FromStart /\ pc = "done" /\ p \in Nat /\ StandsAt(LinesOf(elements[part]), E, p)
        BY <1>2, <2>1 DEF OrderInv
  <2>9. ReadTo(InOrder, Wordings, Flat(all), E, p + Len(LinesOf(elements[part])))
        BY <2>3, <2>7, <2>8, GroupsReadOn
  <2> QED BY <2>1, <2>6, <2>9
<1>11. ChunksInOrder'
       BY <1>2, <1>3, <1>5, <1>6, <1>10 DEF ChunksInOrder
<1> QED BY <1>3, <1>4, <1>11 DEF OrderInv

LEMMA OrderHolds == Spec => []OrderInv
<1>1. ChunksInit => OrderInv
  <2> SUFFICES ASSUME ChunksInit PROVE OrderInv
      OBVIOUS
  <2>1. /\ chunks = <<>> /\ elements = <<>> /\ buffer = <<>> /\ part = 1 /\ groups = <<>>
        BY DEF ChunksInit, Init
  <2>2. ReadInOrder
        BY <2>1, NothingReadInOrder
  <2>3. Flat(<<>>) = <<>> /\ Flat(<<>>) \in Seq(Wordings)
    <3>1. <<>> \in Seq(Wordings)
          OBVIOUS
    <3> QED BY <3>1, FlatNoElements
  <2>4. ChunksInOrder
        BY <2>1, <2>3, NothingToRead, NoneBefore DEF ChunksInOrder
  <2>5. FromStart
        BY <2>1 DEF FromStart, Count
  <2> QED BY <2>2, <2>4, <2>5 DEF OrderInv
<1>2. Inv /\ PlaceInv /\ OrderInv /\ [Next]_vars => OrderInv'
      BY ExtractionKeepsOrder, AddAtomicKeepsOrder, GroupingKeepsOrder, AddGroupsKeepsOrder DEF Next
<1> QED BY <1>1, <1>2, InvHolds, PlacesHold, PTL DEF Spec

(* Of two lines in the chunks the one that has to be read before the other *)
(* has the earlier place.                                                  *)
LEMMA PlacesInOrder ==
    ASSUME Inv, OrderInv, Native(doc), NEW x, NEW y, ChunkOfLine(x) # 0, ChunkOfLine(y) # 0, Must(x, y)
    PROVE  PlaceOf(x) < PlaceOf(y)
<1> DEFINE L == Flat(chunks)
           E == Flat(elements)
           places(z) == {k \in DOMAIN L : L[k] = z}
<1>1. chunks \in Seq(Elements) /\ chunks \in Seq(Element(Wordings, TablesIn))
      BY DEF Inv, ChunkInv, ChunkShape, Elements
<1>2. AllLines = L
      BY DEF AllLines, Lines, Flat, LinesIn, LinesOf
<1>3. HoldsLine(chunks, x) /\ HoldsLine(chunks, y)
      BY <1>1, ChunkOfHeld
<1>4. x \in Range(L) /\ y \in Range(L) /\ x \in Wordings /\ y \in Wordings
  <2>1. x \in Wordings /\ y \in Wordings
        BY <1>1, <1>3, ChunksOfWordings
  <2>2. chunks \in Seq(Element(Wordings, TablesIn))
        BY <1>1
  <2>3. x \in Range(L) /\ y \in Range(L)
        BY <1>3, <2>2, FlatHolds
  <2> QED BY <2>1, <2>3
<1>5. L \in Seq(Wordings) /\ Range(L) \subseteq Range(E) /\ Closed(InOrder, L, E)
      BY DEF OrderInv, ChunksInOrder, ReadTo
<1>6. <<y, x>> \notin InOrder
      BY DEF InOrder
<1> HIDE DEF L, E
<1>7. places(x) \subseteq Nat /\ places(y) \subseteq Nat /\ places(x) # {} /\ places(y) # {}
      BY <1>4, <1>5 DEF Range
<1>8. PlaceOf(x) = Lowest(places(x)) /\ PlaceOf(y) = Lowest(places(y))
      BY <1>2 DEF PlaceOf
<1>9. PlaceOf(y) \in places(y) /\ PlaceOf(x) \in Nat /\ \A k \in places(x) : PlaceOf(x) <= k
  <2> HIDE DEF places
  <2> QED BY <1>7, <1>8, LowestIsLowest
<1>10. PlaceOf(y) \in DOMAIN L /\ L[PlaceOf(y)] = y /\ PlaceOf(y) \in Nat /\ DOMAIN L = 1 .. Len(L)
       BY <1>5, <1>7, <1>9
<1>11. PICK k \in 1 .. PlaceOf(y) - 1 : L[k] = x
  <2>1. x \in Range(E)
        BY <1>4, <1>5
  <2> QED BY <1>5, <1>6, <1>10, <2>1 DEF Closed
<1>12. k \in places(x)
       BY <1>10, <1>11
<1>13. PlaceOf(x) <= k
       BY <1>9, <1>12
<1> QED BY <1>9, <1>10, <1>11, <1>13

(* For every native PDF and every configuration: the chunks hold the lines *)
(* of two columns column by column and all others from top to bottom, page *)
(* after page (order_page_text_objects, extract_pdf, build_documents).     *)
THEOREM ReadingOrderCorrect == Spec => []ReadingOrder
<1>1. Inv /\ OrderInv => ReadingOrder
  <2> SUFFICES ASSUME Inv, OrderInv, Chunked, Native(doc), NEW q \in 1 .. Pages
               PROVE  LET objs == {r \in doc.pages[q].runs : r.text \notin Skipped}
                          wide == IF TwoColumns(objs) THEN Spanning(objs) ELSE {}
                          left(r) == 2 * r.x1 <= Middle(objs)
                          parted(r, s) == \E w \in wide : (r.y <= w.y) # (s.y <= w.y) \/ w \in {r, s}
                          before(r, s) == IF TwoColumns(objs) /\ ~parted(r, s) /\ left(r) # left(s) THEN left(r)
                                          ELSE Above(r, s)
                          told(r) == ChunkOfLine(r.text) # 0 /\ Cardinality(Occurrences(r.text)) = 1
                      IN  /\ \A r \in objs, s \in objs :
                                 told(r) /\ told(s) /\ r # s /\ before(r, s) => PlaceOf(r.text) < PlaceOf(s.text)
                          /\ \A r \in objs : \A next \in (q + 1) .. Pages : \A s \in doc.pages[next].runs :
                                 told(r) /\ told(s) => PlaceOf(r.text) < PlaceOf(s.text)
      BY DEF ReadingOrder
  <2> DEFINE objs == {r \in doc.pages[q].runs : r.text \notin Skipped}
             wide == IF TwoColumns(objs) THEN Spanning(objs) ELSE {}
             left(r) == 2 * r.x1 <= Middle(objs)
             parted(r, s) == \E w \in wide : (r.y <= w.y) # (s.y <= w.y) \/ w \in {r, s}
             before(r, s) == IF TwoColumns(objs) /\ ~parted(r, s) /\ left(r) # left(s) THEN left(r)
                             ELSE Above(r, s)
             told(r) == ChunkOfLine(r.text) # 0 /\ Cardinality(Occurrences(r.text)) = 1
  <2>1. objs = Shown(q)
        BY DEF Shown
  <2>2. \A r, s : before(r, s) => ReadBefore(objs, r, s)
    <3> HIDE DEF objs
    <3> QED BY DEF ReadBefore, Parted, OnLeft
  <2>3. \A r, s : told(r) /\ told(s) /\ Must(r.text, s.text) => PlaceOf(r.text) < PlaceOf(s.text)
        BY PlacesInOrder
  <2>4. ASSUME NEW r \in objs, NEW s \in objs, told(r), told(s), r # s, before(r, s)
        PROVE  PlaceOf(r.text) < PlaceOf(s.text)
    <3>1. ReadBefore(Shown(q), r, s) /\ r \in Shown(q) /\ s \in Shown(q)
          BY <2>1, <2>2, <2>4
    <3>2. StandsBefore(r.text, s.text)
          BY <2>4, <3>1 DEF StandsBefore
    <3>3. Must(r.text, s.text)
          BY <2>4, <3>2 DEF Must, Once
    <3> QED BY <2>3, <2>4, <3>3
  <2>5. ASSUME NEW r \in objs, NEW next \in (q + 1) .. Pages, NEW s \in doc.pages[next].runs, told(r), told(s)
        PROVE  PlaceOf(r.text) < PlaceOf(s.text)
    <3>1. Pages \in Nat
          BY FoundOnPages DEF Inv, ExtractionInv
    <3>2. next \in 1 .. Pages /\ q < next /\ r \in Shown(q)
          BY <2>1, <3>1
    <3>3. s.text \notin Skipped
      <4>1. chunks \in Seq(Elements)
            BY DEF Inv, ChunkInv, ChunkShape
      <4>2. HoldsLine(chunks, s.text)
            BY <2>5, <4>1, ChunkOfHeld
      <4>3. s.text \in Wordings
            BY <4>1, <4>2, ChunksOfWordings
      <4> QED BY <4>3 DEF Wordings, Native
    <3>4. s \in Shown(next)
          BY <3>3 DEF Shown
    <3>5. StandsBefore(r.text, s.text)
          BY <3>2, <3>4 DEF StandsBefore
    <3>6. Must(r.text, s.text)
          BY <2>5, <3>5 DEF Must, Once
    <3> QED BY <2>3, <2>5, <3>6
  <2> HIDE DEF objs, wide, left, parted, before, told
  <2>6. /\ \A r \in objs, s \in objs :
               told(r) /\ told(s) /\ r # s /\ before(r, s) => PlaceOf(r.text) < PlaceOf(s.text)
        /\ \A r \in objs : \A next \in (q + 1) .. Pages : \A s \in doc.pages[next].runs :
               told(r) /\ told(s) => PlaceOf(r.text) < PlaceOf(s.text)
        BY <2>4, <2>5
  <2> QED BY <2>6 DEF objs, wide, left, parted, before, told
<1> QED BY <1>1, InvHolds, OrderHolds, PTL
=============================================================================
