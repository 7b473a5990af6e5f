----------------------------- MODULE MCPassages -----------------------------
(***************************************************************************)
(* Small files of all four formats: every sequence of a few blocks.        *)
(***************************************************************************)
EXTENDS Passages

Block(kind, says, parts, filled, then) ==
    [kind |-> kind, says |-> says, parts |-> parts, rate |-> 1, filled |-> filled, then |-> then]

Plain(kind, parts) == Block(kind, {}, parts, [k \in DOMAIN parts |-> 1], "sentence")

HeadA == Block("heading", {"A"}, <<1>>, <<1>>, "space")
HeadB == Block("heading", {"B"}, <<1>>, <<1>>, "space")

\* Two sentences, a paragraph of its own, runs without a break, the second of twice
\* the tokens to a character, one that repeats a title.
Short == Plain("prose", <<2, 5>>)
Spaced == Block("prose", {}, <<4, 4>>, <<1, 1>>, "paragraph")
Run == Block("prose", {}, <<25>>, <<1>>, "space")
Dense == [Block("prose", {}, <<12>>, <<1>>, "sentence") EXCEPT !.rate = 2]
Repeated == Block("prose", {"A"}, <<3>>, <<1>>, "sentence")
Note == Plain("note", <<2>>)
Furniture == Plain("furniture", <<1>>)

\* A caption, the header, and rows that need two groups; a wide row; no body.
Captioned == Block("table", {}, <<1, 2, 3, 3, 1>>, <<1, 2, 2, 2, 2>>, "sentence")
Wide == Block("table", {}, <<1, 12, 1>>, <<2, 2, 2>>, "sentence")
Chart == Block("chart", {}, <<2>>, <<2>>, "sentence")
Figure == Plain("picture", <<3>>)
Scan == Block("picture of a table", {}, <<2, 3>>, <<2, 2>>, "sentence")

Shapes(blocks, n) == UNION {[1 .. k -> blocks] : k \in 0 .. n}
OneHeading(shape) == Cardinality({b \in DOMAIN shape : shape[b].kind = "heading"}) <= 1

Unit(blocks, scanned, hidden) == [blocks |-> blocks, scanned |-> scanned, hidden |-> hidden]
File(mime, units) == [mime |-> mime, units |-> units]

WordFiles ==
    {File("docx", <<Unit(s, FALSE, FALSE)>>) :
        s \in Shapes({HeadA, HeadB, Short, Run, Dense, Repeated, Note, Captioned, Chart, Figure,
                      Scan}, 3)}

Slides ==
    {Unit(s, FALSE, h) :
        s \in {x \in Shapes({HeadA, HeadB, Short, Note, Captioned, Figure}, 2) : OneHeading(x)},
        h \in BOOLEAN}
Decks == {File("pptx", <<s, t>>) : s \in Slides, t \in Slides}

Sheets ==
    {Unit(<<HeadA>> \o s, FALSE, FALSE) : s \in Shapes({Captioned, Wide, Chart, Figure, Scan}, 3)}
Books == {File("xlsx", <<s>>) : s \in Sheets}

ShortPages ==
    {Unit(s, p, FALSE) : s \in Shapes({HeadA, HeadB, Spaced, Captioned, Figure}, 2), p \in BOOLEAN}
LongPages ==
    {Unit(s, FALSE, FALSE) : s \in Shapes({HeadA, HeadB, Furniture, Captioned, Scan}, 3)}
\* Typed pages with little text and a picture, which OCR reads again in part.
LittlePages ==
    {Unit(Append(s, Figure), FALSE, FALSE) : s \in Shapes({HeadA, HeadB, Repeated}, 3)}
\* What a first page may be followed by.
LastPages ==
    {Unit(<<>>, FALSE, FALSE), Unit(<<Spaced>>, FALSE, FALSE),
     Unit(<<HeadB, Captioned>>, FALSE, FALSE), Unit(<<Spaced, Captioned>>, TRUE, FALSE),
     Unit(<<HeadB, Spaced>>, TRUE, FALSE)}
Pdfs == {File("pdf", <<p, q>>) : p \in ShortPages \cup LongPages \cup LittlePages, q \in LastPages}

SmallFiles == WordFiles \cup Decks \cup Books \cup Pdfs
=============================================================================
