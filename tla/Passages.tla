------------------------------ MODULE Passages ------------------------------
(***************************************************************************)
(* A file becomes passages: the work EXTRACT, NORMALIZE and CHUNK do       *)
(* between their commits (StageTask models those).  The file is read unit  *)
(* by unit, then its pictures, the text is cleaned and judged, and each    *)
(* unit is cut up.  OCR may fail on a page, be unsure of some of it, find  *)
(* its tables or not; a picture may not be readable.  Either may be        *)
(* switched off, or have failed to load.                                   *)
(***************************************************************************)
EXTENDS Extraction

CONSTANTS
    Files,                  \* the files considered
    MIN_PDF_CHARS_PER_PAGE

ASSUME PassagesAssumption ==
    /\ Files \subseteq [mime : Mimes, units : Seq(Units)]
    /\ \A f \in Files : \A u \in DOMAIN f.units : \A b \in DOMAIN f.units[u].blocks :
          f.units[u].blocks[b].kind \notin Lacks(f.mime)
    /\ MIN_PDF_CHARS_PER_PAGE \in Nat

VARIABLES
    file,
    step,                   \* extract, pictures, normalize, chunk, done, failed
    at,                     \* the unit the loop is at
    content,                \* ExtractedContent, then the NormalizationResult
    ocr_budget,
    readers,                \* of "ocr" and "pictures", those this worker has
    log,                    \* the blocks (block 0: the page) the worker warned of
    dropped,                \* a history variable: the blocks given up without a word
    passages,
    current_heading

vars ==
    <<file, step, at, content, ocr_budget, readers, log, dropped, passages, current_heading>>

NoContent(f) ==
    [mime_type |-> f.mime, units |-> <<>>, headings |-> <<>>, tables |-> <<>>, figures |-> <<>>,
     ocr_pages |-> <<>>, ocr_skipped_pages |-> {}, ocr_unreadable_lines |-> {}]

Init ==
    /\ file \in Files
    /\ step = "extract" /\ at = 1
    /\ content = NoContent(file)
    /\ ocr_budget = OCR_MAX_PAGES
    /\ readers \in SUBSET {"ocr", "pictures"}
    /\ log = {} /\ dropped = {}
    /\ passages = <<>> /\ current_heading = None

(***************************************************************************)
(* EXTRACT                                                                 *)
(***************************************************************************)
WithUnit(x) ==
    [content EXCEPT !.units = Append(@, x.unit),
                    !.headings = @ \o x.headings,
                    !.tables = @ \o x.tables]

Reading(mime) == step = "extract" /\ file.mime = mime /\ at <= Len(file.units)

NextUnit ==
    /\ at' = at + 1
    /\ UNCHANGED <<file, step, readers, passages, current_heading>>

reads_word_file ==
    /\ Reading("docx")
    /\ content' = WithUnit(docx_extract(file, at))
    /\ NextUnit /\ UNCHANGED <<ocr_budget, log, dropped>>

reads_slide ==
    /\ Reading("pptx")
    /\ content' = IF file.units[at].hidden THEN content ELSE WithUnit(pptx_extract(file, at))
    /\ NextUnit /\ UNCHANGED <<ocr_budget, log, dropped>>

reads_sheet ==
    /\ Reading("xlsx")
    /\ content' = WithUnit(xlsx_extract(file, at))
    /\ NextUnit /\ UNCHANGED <<ocr_budget, log, dropped>>

reads_page ==
    /\ Reading("pdf") /\ ~_needs_ocr(file, at)
    /\ content' = WithUnit(pdf_page(file, at, NotRead))
    /\ NextUnit /\ UNCHANGED <<ocr_budget, log, dropped>>

\* The page is left unread and recorded.
skips_page ==
    /\ Reading("pdf") /\ _needs_ocr(file, at) /\ ocr_budget = 0
    /\ content' = [WithUnit(pdf_page(file, at, NotRead)) EXCEPT !.ocr_skipped_pages = @ \cup {at}]
    /\ NextUnit /\ UNCHANGED <<ocr_budget, log, dropped>>

\* No engine: the page keeps its native text, and nothing is said of the rest.
ocr_off ==
    /\ Reading("pdf") /\ _needs_ocr(file, at) /\ ocr_budget > 0 /\ "ocr" \notin readers
    /\ content' = WithUnit(pdf_page(file, at, NotRead))
    /\ dropped' = dropped \cup Drawn(file, at)
    /\ NextUnit /\ UNCHANGED <<ocr_budget, log>>

\* An exception, which is logged: the page keeps its native text.
ocr_fails ==
    /\ Reading("pdf") /\ _needs_ocr(file, at) /\ ocr_budget > 0 /\ "ocr" \in readers
    /\ content' = WithUnit(pdf_page(file, at, NotRead))
    /\ log' = log \cup {<<at, 0>>}
    /\ NextUnit /\ UNCHANGED <<ocr_budget, dropped>>

\* The lines found but not read.  The code records their number per page.
Unreadable(u, unsure) == {<<u, b>> : b \in unsure}

\* Only a page that gave text counts against the budget, or as read by OCR.  Its
\* tables are looked for by the reader of pictures, which may not find them.
ocr_reads ==
    /\ Reading("pdf") /\ _needs_ocr(file, at) /\ ocr_budget > 0 /\ "ocr" \in readers
    /\ \E unsure \in SUBSET DOMAIN file.units[at].blocks, reads_tables \in BOOLEAN :
          LET read == _ocr_page(file, at, unsure, reads_tables)
              found == read.text # <<>>
          IN  /\ reads_tables => "pictures" \in readers
              /\ content' = [WithUnit(pdf_page(file, at, read)) EXCEPT
                                !.ocr_unreadable_lines = @ \cup Unreadable(at, unsure),
                                !.ocr_pages = IF found THEN Append(@, at) ELSE @]
              /\ ocr_budget' = IF found THEN ocr_budget - 1 ELSE ocr_budget
    /\ NextUnit /\ UNCHANGED <<log, dropped>>

\* The reader warns of a picture it fails on or has no room for.  Of one whose format
\* it does not know, that cannot be decoded or drawn, or on which it finds no line it
\* is sure of, it says nothing.  (One too small to be more than a decoration, or used
\* again and again as a logo is, is not in the files here.)
_read_pictures(warned, silent) ==
    /\ step = "extract" /\ at > Len(file.units) /\ "pictures" \in readers
    /\ warned \cup silent \subseteq ToSet(find_pictures(file)) /\ warned \cap silent = {}
    /\ content' = merge_pictures(file, content,
           Only(find_pictures(file),
                LAMBDA p : p \notin warned \cup silent /\ ~tables_only(file, p)))
    /\ log' = log \cup warned /\ dropped' = dropped \cup silent
    /\ step' = "normalize"
    /\ UNCHANGED <<file, at, ocr_budget, readers, passages, current_heading>>

\* No reader: pictures are not looked at, and nothing is said of it.
passes_pictures ==
    /\ step = "extract" /\ at > Len(file.units) /\ "pictures" \notin readers
    /\ dropped' = dropped \cup ToSet(find_pictures(file))
    /\ step' = "normalize"
    /\ UNCHANGED <<file, at, content, ocr_budget, readers, log, passages, current_heading>>

(***************************************************************************)
(* NORMALIZE                                                               *)
(***************************************************************************)

\* Page numbers and continuation marks go; nothing else is taken out.
clean(text) == Only(text, LAMBDA w : w.kind # "furniture")

Cleaned(units) == [k \in DOMAIN units |-> [units[k] EXCEPT !.text = clean(@)]]

\* The quality gate: no text at all, or too little of it for a PDF.
Failures(units) ==
    LET chars == FoldLeft(LAMBDA n, u : n + SizeOf(u.text), 0, units)
    IN  {f \in {"EMPTY_TEXT", "LOW_TEXT_DENSITY"} :
            IF f = "EMPTY_TEXT" THEN chars = 0
            ELSE chars # 0 /\ file.mime = "pdf" /\ chars < MIN_PDF_CHARS_PER_PAGE * Len(units)}

normalize ==
    /\ step = "normalize"
    /\ content' = [content EXCEPT !.units = Cleaned(@)]
    /\ step' = IF Failures(content'.units) = {} THEN "chunk" ELSE "failed"
    /\ at' = 1
    /\ UNCHANGED <<file, ocr_budget, readers, log, dropped, passages, current_heading>>

(***************************************************************************)
(* CHUNK                                                                   *)
(***************************************************************************)
chunks_unit ==
    /\ step = "chunk" /\ at <= Len(content.units)
    /\ \E cut \in {chunk_unit(content, content.units[at], current_heading)} :
           /\ passages' = passages \o cut.chunks
           /\ current_heading' = cut.heading
    /\ at' = at + 1
    /\ UNCHANGED <<file, step, content, ocr_budget, readers, log, dropped>>

\* NO_CHUNKS_PRODUCED fails the document.
chunked ==
    /\ step = "chunk" /\ at > Len(content.units)
    /\ step' = IF passages = <<>> THEN "failed" ELSE "done"
    /\ UNCHANGED <<file, at, content, ocr_budget, readers, log, dropped, passages, current_heading>>

Next ==
    \/ reads_word_file \/ reads_slide \/ reads_sheet
    \/ reads_page \/ skips_page \/ ocr_off \/ ocr_fails \/ ocr_reads
    \/ \E warned, silent \in SUBSET ToSet(find_pictures(file)) : _read_pictures(warned, silent)
    \/ passes_pictures
    \/ normalize
    \/ chunks_unit \/ chunked

Spec == Init /\ [][Next]_vars

(***************************************************************************)
(* Properties                                                              *)
(***************************************************************************)

\* How much of a word a text has.
ShareOf(text, w) ==
    SizeOf([i \in DOMAIN text |->
               [text[i] EXCEPT !.size = IF text[i].at = w.at /\ text[i].part = w.part
                                        THEN @ ELSE 0]])

\* The whole of a word is in passages, as text or as a table's header.
InPassages(w) ==
    SizeOf([k \in DOMAIN passages |->
               [w EXCEPT !.size = ShareOf(passages[k].head \o passages[k].text, w)]]) >= w.size

\* A line that is no more than a title is found by it where a passage of its unit is
\* filed under that title.
FiledUnder(w) ==
    /\ w.size = 1
    /\ \E p \in ToSet(passages) : p.page_number = w.at[1] /\ w.says = {p.section_heading}

\* What is left out on purpose: hidden slides, page furniture, the name of an empty
\* sheet, and the pictures of a typed PDF page that are not tables.
LeftOut(u, b) ==
    LET kind == file.units[u].blocks[b].kind
    IN  \/ file.units[u].hidden
        \/ kind = "furniture"
        \/ kind = "heading" /\ file.mime = "xlsx"
        \/ kind = "picture" /\ file.mime = "pdf"

\* A gap somebody can find: in the artifact or in the worker's log.
Recorded(u, b) ==
    \/ u \in content.ocr_skipped_pages
    \/ <<u, b>> \in content.ocr_unreadable_lines
    \/ {<<u, 0>>, <<u, b>>} \cap log # {}

\* Every part of every block of a document that gets passages is in them, left
\* out on purpose, a recorded gap, or a picture or scan that its reader dropped
\* without a word; nothing that was read is ever lost.  The code behind it: sections,
\* lead text, packing, hard wrap and row groups of chunker.py, and "Recorded, never
\* silent" of PdfTextExtractor.extract.
NothingLost ==
    step = "done" =>
        \A u \in DOMAIN file.units : \A b \in DOMAIN file.units[u].blocks :
            \/ \A w \in ToSet(Words(file, u, b)) : InPassages(w) \/ FiledUnder(w)
            \/ LeftOut(u, b) \/ Recorded(u, b) \/ <<u, b>> \in dropped

\* No passage of prose is longer than the model can read, and no group of a
\* table's rows either unless it is one row (TokenBudget, _hard_wrap, _fit_group);
\* nor a slice of a text without breaks, unless that text is denser in places than
\* the margin of _hard_wrap allows for.
FitsWindow ==
    \A p \in ToSet(passages) :
        \/ measure(p.head \o p.text) <= max_sequence_tokens
        \/ p.is_table /\ Len(p.text) <= 1
        \/ \E w \in ToSet(p.text) : w.uneven

\* Places in the file: unit and block, in reading order.
HeadingPlaces ==
    {p \in UNION {{u} \X DOMAIN file.units[u].blocks : u \in DOMAIN file.units} :
        file.units[p[1]].blocks[p[2]].kind = "heading"}

UpTo(p, q) == p[1] < q[1] \/ (p[1] = q[1] /\ p[2] <= q[2])

TitleAt(p) == TitleOf(file.units[p[1]].blocks[p[2]])

\* The headings that came through to the text of their unit.
CameThrough ==
    {p \in HeadingPlaces : \E x \in ToSet(content.units) :
        x.index = p[1] /\ \E w \in ToSet(x.text) : w.at = p}

\* The last of these headings above a place: {} or one title.
LastAbove(headings, p) ==
    {TitleAt(h) : h \in {h \in headings : UpTo(h, p) /\
                           \A k \in headings : UpTo(k, p) => UpTo(k, h)}}

\* The heading a place stands under: of all headings, or of those that came through
\* or, on a slide or sheet, the title of that.
Governing(p) ==
    IF units_stand_alone(file.mime) THEN {OwnTitle(file, p[1])}
    ELSE LastAbove(HeadingPlaces, p) \cup LastAbove(CameThrough, p)

\* Where else a heading's title is said on its page.
RepeatsOf(h) ==
    {<<h[1], b>> : b \in {b \in DOMAIN file.units[h[1]].blocks :
                            b # h[2] /\ TitleAt(h) \in file.units[h[1]].blocks[b].says}}

\* The code looks for a heading by its words.  Prose that repeats it ahead of it is
\* taken for the heading.  If the heading did not come through, whatever else says the
\* same is, and headings passed on the way may be missed: until the next page's first.
Mistaken(p) ==
    \E h \in HeadingPlaces : \E r \in RepeatsOf(h) :
        \/ r \notin HeadingPlaces /\ UpTo(r, p) /\ ~UpTo(h, p)
        \/ /\ h \notin CameThrough /\ (UpTo(h, p) \/ UpTo(r, p))
           /\ \A c \in CameThrough : UpTo(c, p) => c[1] <= h[1]

\* Where the code cannot tell, or guesses (README, section 5): repeated titles, Word
\* footnotes, and what has no heading of its own and stands above the only heading
\* of its unit.
Doubtful(w) ==
    LET own == {h \in HeadingPlaces : h[1] = w.at[1]}
    IN  \/ Mistaken(w.at)
        \/ w.kind = "note"
        \/ w.kind \in Tabular \cup Pictures /\ Cardinality(own) = 1 /\ \A h \in own : ~UpTo(h, w.at)

\* A passage that names a section holds nothing of another one: "A wrong citation
\* is worse than an absent one" (Chunker.chunk; Section for pictures).
CitedRight ==
    \A p \in ToSet(passages) : \A w \in ToSet(p.text) :
        \/ p.section_heading = None \/ w.at[2] = 0
        \/ p.section_heading \in Governing(w.at)
        \/ Doubtful(w)
=============================================================================
