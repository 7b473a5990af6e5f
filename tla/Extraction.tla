----------------------------- MODULE Extraction -----------------------------
(***************************************************************************)
(* Reading a file (extraction/extractors.py, pictures.py): what each       *)
(* format's extractor makes of one page, slide, sheet or Word body.        *)
(* Operators only; Passages uses them.                                     *)
(*                                                                         *)
(* A file is what a person sees: per unit, its blocks in reading order.    *)
(* A block is a heading (in a spreadsheet, the sheet's name), prose, a     *)
(* note, a table, a chart, a picture of words, a picture of a table, or    *)
(* page furniture.  Fonts, styles and geometry, by which an extractor      *)
(* tells these apart, are left out.  A unit of a PDF may be `scanned`, a   *)
(* slide `hidden`.                                                         *)
(***************************************************************************)
EXTENDS Chunker

CONSTANTS
    OCR_MIN_NATIVE_CHARS,
    OCR_MAX_PAGES

ASSUME ExtractionAssumption == OCR_MIN_NATIVE_CHARS \in Nat \ {0} /\ OCR_MAX_PAGES \in Nat

Mimes == {"docx", "pptx", "xlsx", "pdf"}
Kinds ==
    {"heading", "prose", "note", "furniture", "table", "chart", "picture", "picture of a table"}
Breaks == {"space", "sentence", "paragraph"}

\* A heading is one line and says a title; the fill of every row of a table is known.
Blocks ==
    {b \in [kind : Kinds, says : SUBSET STRING, parts : Seq(Nat), rate : Rates,
            filled : Seq(Nat), then : Breaks] :
        /\ b.parts # <<>> /\ Len(b.filled) = Len(b.parts)
        /\ b.kind = "heading" => b.says # {} /\ Len(b.parts) = 1}

Units == [blocks : Seq(Blocks), scanned : BOOLEAN, hidden : BOOLEAN]

\* A sheet is its grid; a PDF has no notes apart from its prose, and a chart there is a picture.
Lacks(mime) ==
    IF mime = "xlsx" THEN {"prose", "note"}
    ELSE IF mime = "pdf" THEN {"chart", "note"} ELSE {}

Tabular == {"table", "chart", "picture of a table"}
Pictures == {"picture", "picture of a table"}

\* A block's parts as words: a paragraph's sentences, a table's rows.
Words(file, u, b) ==
    LET block == file.units[u].blocks[b]
        last(k) == k = Len(block.parts)
    IN  [k \in DOMAIN block.parts |->
            [at |-> <<u, b>>, part |-> k, kind |-> block.kind,
             says |-> IF k = 1 THEN block.says ELSE {},
             size |-> block.parts[k], rate |-> block.rate, filled |-> block.filled[k],
             then |-> IF last(k) THEN block.then ELSE "sentence", uneven |-> FALSE]]

\* A unit's words of these kinds, in reading order.
Read(file, u, kinds) ==
    LET blocks == file.units[u].blocks
    IN  FlattenSeq([b \in DOMAIN blocks |->
                       IF blocks[b].kind \in kinds THEN Words(file, u, b) ELSE <<>>])

\* The blocks of these kinds, by number.
BlocksOf(file, u, kinds) ==
    LET blocks == file.units[u].blocks
    IN  Only([b \in DOMAIN blocks |-> b], LAMBDA b : blocks[b].kind \in kinds)

\* A heading block says its own title and nothing else.
TitleOf(block) == CHOOSE t \in block.says : TRUE

\* The titles of a unit's heading blocks, in order.
Titles(file, u) ==
    LET bs == BlocksOf(file, u, {"heading"})
    IN  [k \in DOMAIN bs |-> TitleOf(file.units[u].blocks[bs[k]])]

\* The heading in force where block b stands, within its unit.
Under(file, u, b) ==
    LET above == Only(BlocksOf(file, u, {"heading"}), LAMBDA h : h <= b)
    IN  IF above = <<>> THEN None ELSE TitleOf(file.units[u].blocks[Last(above)])

\* A slide's title or a sheet's name.
OwnTitle(file, u) == IF Titles(file, u) = <<>> THEN None ELSE Titles(file, u)[1]

\* An extractor's answer for one unit; heading[b] is what it records for table b.
Extracted(file, u, text, is_table, tabular, heading) ==
    LET bs == BlocksOf(file, u, tabular)
        titles == Titles(file, u)
    IN  [unit |-> [index |-> u, text |-> text, text_is_table |-> is_table],
         headings |-> [k \in DOMAIN titles |-> [title |-> titles[k], unit_index |-> u]],
         tables |-> [k \in DOMAIN bs |->
             [unit_index |-> u, rows |-> Words(file, u, bs[k]), heading |-> heading[bs[k]]]]]

\* Word: read in document order, footnotes last; a table is under the heading in force.
docx_extract(file, u) ==
    Extracted(file, u, Read(file, u, {"heading", "prose"}) \o Read(file, u, {"note"}),
              FALSE, {"table", "chart"}, [b \in DOMAIN file.units[u].blocks |-> Under(file, u, b)])

\* A slide: its title first, wherever it is drawn, and speaker notes last.
pptx_extract(file, u) ==
    Extracted(file, u,
              Read(file, u, {"heading"}) \o Read(file, u, {"prose"}) \o Read(file, u, {"note"}),
              FALSE, {"table", "chart"}, [b \in DOMAIN file.units[u].blocks |-> OwnTitle(file, u)])

\* A sheet: the text is its grid written out again.
xlsx_extract(file, u) ==
    Extracted(file, u, Read(file, u, {"table"}), Read(file, u, {"table"}) # <<>>,
              {"table", "chart"}, [b \in DOMAIN file.units[u].blocks |-> OwnTitle(file, u)])

(***************************************************************************)
(* PDF pages                                                               *)
(***************************************************************************)

\* The text layer: everything typed, a table's cells among it.
NativeText(file, u) ==
    IF file.units[u].scanned THEN <<>>
    ELSE Read(file, u, {"heading", "prose", "table", "furniture"})

\* What is only drawn on a page, so that nothing but a reader can tell what it says.
Drawn(file, u) ==
    {<<u, b>> : b \in {c \in DOMAIN file.units[u].blocks :
                         file.units[u].scanned \/ file.units[u].blocks[c].kind \in Pictures}}

HasImages(file, u) ==
    file.units[u].scanned \/ BlocksOf(file, u, Pictures) # <<>>

\* Almost no text, but something drawn.
_needs_ocr(file, u) ==
    SizeOf(NativeText(file, u)) < OCR_MIN_NATIVE_CHARS /\ HasImages(file, u)

\* What OCR can see of a page, less the blocks it is not sure of.
OnThePage(file, u, unsure) ==
    Only(Read(file, u, {"heading", "prose", "table", "picture", "picture of a table"}),
              LAMBDA w : w.at[2] \notin unsure)

\* Said at the end of a page's text, and on the first line of a table read from pixels.
Notice(at, kind) ==
    [at |-> at, part |-> 0, kind |-> kind, says |-> {}, size |-> 1, rate |-> 1, filled |-> 1,
     then |-> "sentence", uneven |-> FALSE]

with_ocr_notice(rows) == <<Notice(rows[1].at, "table")>> \o rows

\* One page read by OCR: with a table reader its ruled tables come out as tables, else as lines.
_ocr_page(file, u, unsure, reads_tables) ==
    LET seen == OnThePage(file, u, unsure)
        tables == IF reads_tables
                  THEN Only(BlocksOf(file, u, {"table", "picture of a table"}),
                                 LAMBDA b : b \notin unsure)
                  ELSE <<>>
        rest == Only(seen, LAMBDA w : w.at[2] \notin ToSet(tables))
        notice == IF rest # <<>> /\ unsure # {} THEN <<Notice(<<u, 0>>, "prose")>> ELSE <<>>
    IN  [text |-> rest \o notice,
         unreadable |-> unsure # {},
         tables |-> [k \in DOMAIN tables |->
             [unit_index |-> u, rows |-> with_ocr_notice(Words(file, u, tables[k])),
              heading |-> None]]]

\* A memo's Subject line is the heading of a scanned page, where it was read.
_subject_headings(text) ==
    LET lines == Only(text, LAMBDA w : w.kind = "heading")
    IN  [k \in DOMAIN lines |->
            [title |-> CHOOSE t \in lines[k].says : TRUE, unit_index |-> lines[k].at[1]]]

\* A page OCR was not asked for, or failed on.
NotRead == [text |-> <<>>, unreadable |-> FALSE, tables |-> <<>>]

\* A page, with what OCR made of it.
pdf_page(file, u, read) ==
    LET native == Extracted(file, u, NativeText(file, u), FALSE, {"table"},
                            [b \in DOMAIN file.units[u].blocks |-> None])
        used == read.text # <<>>
    IN  [unit |-> [native.unit EXCEPT !.text = IF used THEN read.text ELSE @],
         headings |-> (IF file.units[u].scanned THEN <<>> ELSE native.headings)
                      \o (IF used /\ file.units[u].scanned THEN _subject_headings(read.text)
                          ELSE <<>>),
         tables |-> read.tables \o (IF file.units[u].scanned THEN <<>> ELSE native.tables)]

(***************************************************************************)
(* Pictures in files                                                       *)
(***************************************************************************)

\* The pictures to read: not those of hidden slides, nor of a PDF's scanned pages.
find_pictures(file) ==
    FlattenSeq([u \in DOMAIN file.units |->
        LET bs == BlocksOf(file, u, Pictures)
            skipped == \/ file.units[u].hidden
                       \/ /\ file.mime = "pdf"
                          /\ SizeOf(NativeText(file, u)) < OCR_MIN_NATIVE_CHARS
        IN  IF skipped THEN <<>> ELSE [k \in DOMAIN bs |-> <<u, bs[k]>>]])

\* A PDF's pictures are read only where they are tables.
tables_only(file, p) ==
    file.mime = "pdf" /\ file.units[p[1]].blocks[p[2]].kind = "picture"

\* The section a picture is filed under: of a unit with one heading that one, and
\* else the heading it was found under, which only Word and spreadsheets know.
Section(file, content, p) ==
    LET titles == Only(content.headings, LAMBDA h : h.unit_index = p[1])
        found == IF file.mime = "docx" THEN Under(file, p[1], p[2])
                 ELSE IF file.mime = "xlsx" THEN OwnTitle(file, p[1]) ELSE None
    IN  IF Len(titles) > 1 \/ titles = <<>> THEN found ELSE titles[1].title

\* What was read is added: tables as tables, other words as figures.
merge_pictures(file, content, read) ==
    LET kind(p) == file.units[p[1]].blocks[p[2]].kind
        grids == Only(read, LAMBDA p : kind(p) = "picture of a table")
        others == Only(read, LAMBDA p : kind(p) = "picture")
    IN  [content EXCEPT
            !.tables = @ \o [k \in DOMAIN grids |->
                [unit_index |-> grids[k][1],
                 rows |-> with_ocr_notice(Words(file, grids[k][1], grids[k][2])),
                 heading |-> Section(file, content, grids[k])]],
            !.figures = @ \o [k \in DOMAIN others |->
                [unit_index |-> others[k][1],
                 label |-> <<[Notice(others[k], "picture") EXCEPT !.then = "space"]>>,
                 text |-> Words(file, others[k][1], others[k][2]),
                 heading |-> Section(file, content, others[k])]]]
=============================================================================
