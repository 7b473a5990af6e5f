------------------------------ MODULE Chunker ------------------------------
(***************************************************************************)
(* Cutting a normalized document into passages (chunking/chunker.py,       *)
(* chunking/sizing.py).  Operators only; Passages uses them.               *)
(*                                                                         *)
(* A text is a sequence of words: stretches of the document nothing cuts   *)
(* through except the hard wrap.  A word has the place it was read `at`    *)
(* (unit and block) and which `part` of the block it is, its `size` in     *)
(* characters, its `rate` of tokens to a character, the titles it `says`,  *)
(* how many cells it has `filled` if it is a table's row, and the break    *)
(* that follows it (`then`).  Tokens are counted in a fraction of a token  *)
(* by which every rate is whole.  `uneven` is a history variable of a      *)
(* word: it was cut out of a text that is not Balanced.                    *)
(***************************************************************************)
EXTENDS Integers, FiniteSets, Sequences, SequencesExt, FiniteSetsExt

CONSTANTS
    None,
    CHUNK_MAX_TOKENS,
    CHUNK_TARGET_TOKENS,
    max_sequence_tokens,    \* the model's window
    SpecialTokens,          \* what the tokenizer adds to every text it is given
    Rates                   \* the ratios of tokens to characters there are

\* The special tokens fit in the tenth that the hard wrap leaves: two, of hundreds.
\* A character fits in a passage.  The notices OCR adds have the rate 1.
ASSUME ChunkerAssumption ==
    /\ {CHUNK_MAX_TOKENS, CHUNK_TARGET_TOKENS, max_sequence_tokens, SpecialTokens}
           \subseteq Nat \ {0}
    /\ 10 * SpecialTokens <= CHUNK_MAX_TOKENS /\ 10 * SpecialTokens <= max_sequence_tokens
    /\ Rates \subseteq Nat \ {0} /\ 1 \in Rates
    /\ \A r \in Rates :
          r + SpecialTokens <= CHUNK_MAX_TOKENS /\ r + SpecialTokens <= max_sequence_tokens

\* The elements of a list that pass a test, in its order.
Only(list, passes(_)) ==
    FlattenSeq([i \in DOMAIN list |-> IF passes(list[i]) THEN <<list[i]>> ELSE <<>>])

(***************************************************************************)
(* Sizing                                                                  *)
(***************************************************************************)
maximum == Min({CHUNK_MAX_TOKENS, max_sequence_tokens})
target == Min({CHUNK_TARGET_TOKENS, maximum})

SizeOf(text) ==
    LET sum[k \in 0 .. Len(text)] == IF k = 0 THEN 0 ELSE sum[k - 1] + text[k].size
    IN  sum[Len(text)]

TokensOf(text) == SizeOf([i \in DOMAIN text |-> [text[i] EXCEPT !.size = @ * text[i].rate]])

measure(text) == SpecialTokens + TokensOf(text)

fits(text) == measure(text) <= maximum

\* The words in places (from, to] of a text, those on the edge cut.
Slice(text, from, to) ==
    LET start(i) == SizeOf(SubSeq(text, 1, i - 1))
        cut(i) == [text[i] EXCEPT !.size = Min({start(i) + @, to}) - Max({start(i), from})]
    IN  Only([i \in DOMAIN text |-> cut(i)], LAMBDA w : w.size > 0)

\* No word is denser than the whole by more than the tenth, less the special
\* tokens, makes up for: "the 10% margin covers the densest stretch being worse
\* than the average".
Balanced(text) ==
    \A i \in DOMAIN text :
        9 * maximum * SizeOf(text) * text[i].rate <= 10 * (maximum - SpecialTokens) * measure(text)

\* Mutant: the window's tokens taken for a width in characters.
WrapWidth_Window(text) == maximum

\* In characters: the widest slice that fits at this text's own ratio, less a tenth.
WrapWidth(text) == Max({1, (9 * maximum * SizeOf(text)) \div (10 * measure(text))})

Wrapped(text) == [i \in DOMAIN text |-> [text[i] EXCEPT !.uneven = ~Balanced(text)]]

\* By characters; the slices are not measured again.
_hard_wrap(text) ==
    LET width == WrapWidth(text)
    IN  [k \in 1 .. (SizeOf(text) + width - 1) \div width |->
            Slice(Wrapped(text), (k - 1) * width, k * width)]

\* Greedy, up to the target; a part too big for a passage is split further.
_pack(parts, split) ==
    LET flushed(s) == IF s.buffer = <<>> THEN s.packed ELSE Append(s.packed, s.buffer)
        add(s, part) ==
            IF measure(part) > maximum
            THEN [packed |-> flushed(s) \o split[part], buffer |-> <<>>]
            ELSE IF s.buffer # <<>> /\ measure(s.buffer \o part) > target
            THEN [packed |-> Append(s.packed, s.buffer), buffer |-> part]
            ELSE [s EXCEPT !.buffer = @ \o part]
        after[k \in 0 .. Len(parts)] ==
            IF k = 0 THEN [packed |-> <<>>, buffer |-> <<>>] ELSE add(after[k - 1], parts[k])
    IN  flushed(after[Len(parts)])

\* The text cut after every word that one of these breaks follows.
PartsAt(text, breaks) ==
    LET add(parts, w) ==
            IF parts = <<>> \/ Last(Last(parts)).then \in breaks THEN Append(parts, <<w>>)
            ELSE [parts EXCEPT ![Len(parts)] = Append(@, w)]
        after[k \in 0 .. Len(text)] == IF k = 0 THEN <<>> ELSE add(after[k - 1], text[k])
    IN  after[Len(text)]

\* The recursion of _split_to_size ends here: a paragraph has no paragraph
\* break in it, and a sentence has none at all.
SplitParagraph(text) ==
    LET sentences == PartsAt(text, {"sentence", "paragraph"})
    IN  IF fits(text) THEN <<text>>
        ELSE IF Len(sentences) > 1 THEN _pack(sentences, [p \in ToSet(sentences) |-> _hard_wrap(p)])
        ELSE _hard_wrap(text)

_split_to_size(text) ==
    LET paragraphs == PartsAt(text, {"paragraph"})
    IN  IF text = <<>> THEN <<>>
        ELSE IF fits(text) THEN <<text>>
        ELSE IF Len(paragraphs) > 1
        THEN _pack(paragraphs, [p \in ToSet(paragraphs) |-> SplitParagraph(p)])
        ELSE SplitParagraph(text)

(***************************************************************************)
(* Tables                                                                  *)
(***************************************************************************)

\* The column names: the first of three rows more than half as full as the fullest.
_header_row(rows) ==
    LET widest == Max({rows[i].filled : i \in 1 .. Min({12, Len(rows)})})
        full == {i \in 1 .. Min({3, Len(rows)}) : 2 * rows[i].filled > widest}
    IN  IF full = {} THEN 1 ELSE Min(full)

\* A group is emitted if it fits or is one row, and else halved, as often as it takes.
_fit_group(header, rows) ==
    LET whole(part) == Len(part) <= 1 \/ fits(header \o part)
        middle(part) == Len(part) \div 2
        halves(part) ==
            IF whole(part) THEN <<part>>
            ELSE <<SubSeq(part, 1, middle(part)), SubSeq(part, middle(part) + 1, Len(part))>>
        halved(parts) == FlattenSeq([g \in DOMAIN parts |-> halves(parts[g])])
        round[k \in 0 .. Len(rows)] == IF k = 0 THEN <<rows>> ELSE halved(round[k - 1])
    IN  round[Len(rows)]

_group_rows(header, rows) ==
    LET ceiling == Max({measure(header) + 1, (9 * maximum) \div 10})
        add(groups, row) ==
            LET estimate == FoldLeft(LAMBDA n, r : n + measure(<<r>>), measure(header),
                                     Append(Last(groups), row))
            IN  IF Last(groups) # <<>> /\ estimate > ceiling THEN Append(groups, <<row>>)
                ELSE [groups EXCEPT ![Len(groups)] = Append(@, row)]
        after[k \in 0 .. Len(rows)] ==
            IF k = 0 THEN << <<>> >> ELSE add(after[k - 1], rows[k])
        groups == after[Len(rows)]
    IN  FlattenSeq([g \in DOMAIN groups |-> _fit_group(header, groups[g])])

\* Titles above the header are a caption; it and the header go with every group.
_render_table(rows) ==
    LET start == _header_row(rows)
        header == SubSeq(rows, 1, start)
        body == SubSeq(rows, start + 1, Len(rows))
        rendered(groups) == [g \in DOMAIN groups |-> [head |-> header, text |-> groups[g]]]
    IN  IF rows = <<>> THEN <<>>
        ELSE rendered(IF body = <<>> THEN << <<>> >> ELSE _group_rows(header, body))

(***************************************************************************)
(* Structure                                                               *)
(***************************************************************************)

\* str.find: the first word from here on that says the title, or 0.
Find(text, title, from) ==
    LET hits == {i \in from .. Len(text) : title \in text[i].says}
    IN  IF hits = {} THEN 0 ELSE Min(hits)

\* Mutant: each heading is searched for from the start of the text.
Cuts_FromStart(text, titles) ==
    Only([k \in DOMAIN titles |-> [at |-> Find(text, titles[k], 1), heading |-> titles[k]]],
         LAMBDA cut : cut.at # 0)

\* Where each heading is, searched for in order; one that is not found is skipped.
Cuts(text, titles) ==
    LET add(cuts, title) ==
            LET at == Find(text, title, IF cuts = <<>> THEN 1 ELSE Last(cuts).at + 1)
            IN  IF at = 0 THEN cuts ELSE Append(cuts, [at |-> at, heading |-> title])
        after[k \in 0 .. Len(titles)] == IF k = 0 THEN <<>> ELSE add(after[k - 1], titles[k])
    IN  after[Len(titles)]

_split_unit_by_headings(text, titles) ==
    LET cuts == Cuts(text, titles)
        end(i) == IF i < Len(cuts) THEN cuts[i + 1].at - 1 ELSE Len(text)
        section(i) == [heading |-> cuts[i].heading, body |-> SubSeq(text, cuts[i].at, end(i))]
        before == IF cuts = <<>> THEN text ELSE SubSeq(text, 1, cuts[1].at - 1)
        lead == IF before = <<>> THEN <<>> ELSE <<[heading |-> None, body |-> before]>>
    IN  lead \o [i \in DOMAIN cuts |-> section(i)]

(***************************************************************************)
(* Passages                                                                *)
(***************************************************************************)
Chunk(head, text, page, heading, table) ==
    [head |-> head, text |-> text, page_number |-> page, section_heading |-> heading,
     is_table |-> table]

prose(pieces, page, heading) ==
    [k \in DOMAIN pieces |-> Chunk(<<>>, pieces[k], page, heading, FALSE)]

grid(pieces, page, heading) ==
    [k \in DOMAIN pieces |-> Chunk(pieces[k].head, pieces[k].text, page, heading, TRUE)]

add_table(table, heading) == grid(_render_table(table.rows), table.unit_index, heading)

\* Tables and figures under the section they name, or else this one.
NamedOr(x, heading) == IF x.heading = None THEN heading ELSE x.heading

add_tables(tables, heading) ==
    FlattenSeq([k \in DOMAIN tables |-> add_table(tables[k], NamedOr(tables[k], heading))])

add_figure(figure, heading) ==
    prose(_split_to_size(figure.label \o figure.text), figure.unit_index, heading)

add_figures(figures, heading) ==
    FlattenSeq([k \in DOMAIN figures |-> add_figure(figures[k], NamedOr(figures[k], heading))])

\* A title and nothing else; titles are words of their own, of size 1.
OnlyTitle(body, title) == Len(body) = 1 /\ body[1].says = {title} /\ body[1].size = 1

\* Mutant: a heading with nothing under it is dropped, whatever it is the heading of.
Dropped_Always(section, pending, pending_figures) ==
    section.heading # None /\ OnlyTitle(section.body, section.heading)

\* A heading with nothing under it but its own table or figure is not a passage.
Dropped(section, pending, pending_figures) ==
    /\ section.heading # None
    /\ OnlyTitle(section.body, section.heading)
    /\ \E x \in ToSet(pending) \cup ToSet(pending_figures) : x.heading = section.heading

\* A section's prose, then the tables and figures that name it.
add_section(s, section, page) ==
    LET heading == IF section.heading = None THEN s.heading ELSE section.heading
        mine(x) == section.heading # None /\ x.heading = section.heading
        rest(x) == ~mine(x)
    IN  [chunks |-> s.chunks
             \o prose(IF Dropped(section, s.tables, s.figures) THEN <<>>
                      ELSE _split_to_size(section.body), page, heading)
             \o add_tables(Only(s.tables, mine), heading)
             \o add_figures(Only(s.figures, mine), heading),
         heading |-> heading,
         tables |-> Only(s.tables, rest),
         figures |-> Only(s.figures, rest)]

add_sections(start, sections, page) ==
    LET after[k \in 0 .. Len(sections)] ==
            IF k = 0 THEN start ELSE add_section(after[k - 1], sections[k], page)
    IN  after[Len(sections)]

units_stand_alone(mime_type) == mime_type \in {"pptx", "xlsx"}

\* The section of what does not know its own.
Fallback(titles, heading) == IF Len(titles) > 1 THEN None ELSE heading

\* What no section of the unit took, after its text.
add_rest(s, titles) ==
    LET section == Fallback(titles, s.heading)
    IN  [chunks |-> s.chunks \o add_tables(s.tables, section) \o add_figures(s.figures, section),
         heading |-> s.heading]

\* One unit's passages, and the heading in force after it.
chunk_unit(doc, unit, current_heading) ==
    LET here(x) == x.unit_index = unit.index
        headings == Only(doc.headings, here)
        titles == [k \in DOMAIN headings |-> headings[k].title]
        start == [chunks |-> <<>>,
                  heading |-> IF units_stand_alone(doc.mime_type) THEN None ELSE current_heading,
                  tables |-> Only(doc.tables, here),
                  figures |-> Only(doc.figures, here)]
        sections == IF unit.text_is_table THEN <<>>
                    ELSE _split_unit_by_headings(unit.text, titles)
    IN  add_rest(add_sections(start, sections, unit.index), titles)
=============================================================================
