-------------------------- MODULE MCDocumentChunks --------------------------
(***************************************************************************)
(* Documents that between them meet every branch of the extraction: all    *)
(* layouts of a page of four or five rows in one or two columns, with a    *)
(* table or without; all sequences of four kinds of lines; running headers *)
(* on three or four pages; tables on two pages; scans; DOCX bodies.        *)
(***************************************************************************)
EXTENDS DocumentChunks

MCHeight == 14

Text(id, kind, ends) == [id |-> id, kind |-> kind, ends |-> ends, long |-> TRUE]
Run(x0, x1, row, text, nested) ==
    [x0 |-> x0, x1 |-> x1, y |-> 2 * row, text |-> text, nested |-> nested]
Page(runs) == [runs |-> runs]

\* A table at the height of a row: Camelot's coordinates grow upwards.
Table(q, row, x0, x1) ==
    [page |-> q, x0 |-> x0, x1 |-> x1, y0 |-> MCHeight - (2 * row + 1), y1 |-> MCHeight - (2 * row - 1)]

Pdf(pages, lattice, stream) == [type |-> "pdf", pages |-> pages, lattice |-> lattice, stream |-> stream]

\* Two columns, or full-width lines.
RowRuns(q, row, shape) ==
    LET prose(col) == Text(<<q, row, col>>, "plain", col = "right" \/ row % 2 = 0)
        left  == Run(0, 4, row, prose("left"), FALSE)
        right == Run(6, 10, row, prose("right"), FALSE)
    IN  CASE shape = "wide"  -> {Run(0, 10, row, prose("wide"), FALSE)}
          [] shape = "both"  -> {left, right}
          [] shape = "left"  -> {left}
          [] shape = "right" -> {right}
Layout(q, rows) == Page(UNION {RowRuns(q, row, rows[row]) : row \in DOMAIN rows})

Shapes == {"wide", "both", "left", "right"}
Layouts ==
    {Pdf(<<Layout(1, rows)>>, {}, {}) : rows \in [1 .. 5 -> Shapes]}
    \cup {Pdf(<<Layout(1, rows)>>, {t}, {}) : rows \in [1 .. 4 -> Shapes],
                                            t \in {Table(1, 3, 0, 10), Table(1, 3, 0, 4)}}

\* Kinds of lines, one below the other.
Lines4 == [1 .. 4 -> {<<"plain", TRUE>>, <<"plain", FALSE>>, <<"data", TRUE>>, <<"caption", TRUE>>,
                      <<"citation", FALSE>>, <<"blank", FALSE>>}]
Column(q, lines) ==
    Page({Run(0, 10, row, Text(<<q, row>>, lines[row][1], lines[row][2]), FALSE) : row \in DOMAIN lines})
Figures == {Pdf(<<Column(1, lines)>>, {}, {}) : lines \in Lines4}

\* A header of every page, or none; on the first page a line may occur twice.
Header(q, h) ==
    IF h = <<>> THEN {} ELSE {Run(0, 10, 0, Text(<<h[1]>>, "plain", FALSE), h[2])}
Headers == {<<>>, <<"H1", FALSE>>, <<"H2", FALSE>>, <<"H1", TRUE>>}
Body(q, twice) ==
    Column(q, <<<<"plain", TRUE>>>>).runs
    \cup IF q = 1 /\ twice THEN {Run(0, 10, 3, Text(<<1, 1>>, "plain", TRUE), FALSE)} ELSE {}
Running ==
    {Pdf([q \in DOMAIN hs |-> Page(Header(q, hs[q]) \cup Body(q, twice))], {}, {}) :
        hs \in [1 .. 3 -> Headers] \cup [1 .. 4 -> Headers], twice \in BOOLEAN}

\* Tables of two pages, in either flavour.
Paper == <<Column(1, [row \in 1 .. 4 |-> <<"plain", row # 2>>]),
           Column(2, <<<<"plain", TRUE>>, <<"plain", TRUE>>, <<"data", TRUE>>>>)>>
SomeTables == SUBSET {Table(1, 2, 0, 10), Table(1, 4, 0, 10), Table(2, 2, 0, 10)}
Papers == {Pdf(Paper, ts, us) : ts \in SomeTables, us \in SomeTables}

Scans == {Pdf(<<Page({})>>, {Table(1, 2, 0, 10)}, {})}
MCOcrText == <<Text(<<"s1">>, "plain", TRUE), Text(<<"s2">>, "data", FALSE), Text(<<"s3">>, "caption", TRUE)>>

\* DOCX: prose only, for every configuration; and bodies with tables.
Docx(body) == [type |-> "docx", body |-> body]
Block(k, what) ==
    CASE what = "text"  -> [kind |-> "text", content |-> Text(<<k>>, "plain", FALSE)]
      [] what = "blank" -> [kind |-> "text", content |-> Text(<<k>>, "blank", FALSE)]
      [] what = "table" -> [kind |-> "table", content |-> [id |-> k, thin |-> FALSE]]
      [] what = "thin"  -> [kind |-> "table", content |-> [id |-> k, thin |-> TRUE]]
Proses == {Docx([k \in 1 .. m |-> Block(k, "text")]) : m \in 0 .. 9}
Bodies == {Docx([k \in 1 .. 4 |-> Block(k, b[k])]) : b \in [1 .. 4 -> {"text", "blank", "table", "thin"}]}

MCDocuments == Layouts \cup Figures \cup Running \cup Papers \cup Scans \cup Proses \cup Bodies

ProseOnly(d) == d.type = "docx" /\ \A k \in DOMAIN d.body : d.body[k].kind = "text"
MCConfigs(d) == IF ProseOnly(d) THEN (1 .. 5) \X (0 .. 5) ELSE {<<2, 1>>, <<1, 0>>}
=============================================================================
