------------------------------- MODULE Gateway ------------------------------
(***************************************************************************)
(* The data boundary (gateway/service.py), the only way to the external    *)
(* model: which passages may cross it, what replaces the sensitive values  *)
(* in them, and the record of both.  Operators only; Ask uses them.        *)
(***************************************************************************)
EXTENDS Naturals, Sequences, SequencesExt

CONSTANTS
    Values,     \* sensitive values that find_all recognises
    LabelOf     \* the recogniser that claims each: PHONE, PAN, ...

ASSUME GatewayAssumption == DOMAIN LabelOf = Values

\* Mutant: a tier nobody recorded is no obstacle.
Crosses_NotRestricted(tier, include_restricted) == include_restricted \/ tier # "RESTRICTED"

\* A passage may cross if it is PUBLIC in so many words, or if the deployment
\* sends everything.
Crosses(tier, include_restricted) == include_restricted \/ tier = "PUBLIC"

\* The indices of the passages that cross, in order: the k-th has k - 1 before it.
Kept(tiers, include_restricted) ==
    LET crossing == {i \in DOMAIN tiers : Crosses(tiers[i], include_restricted)}
    IN  [k \in 1 .. Cardinality(crossing) |->
            CHOOSE i \in crossing : Cardinality({j \in crossing : j < i}) = k - 1]

\* Mutant: only the word RESTRICTED counts.
classify_NotRestricted(tiers) ==
    IF \A i \in DOMAIN tiers : tiers[i] # "RESTRICTED" THEN "PUBLIC" ELSE "RESTRICTED"

\* The highest tier present; what is not PUBLIC counts as RESTRICTED.
classify(tiers) ==
    IF \A i \in DOMAIN tiers : tiers[i] = "PUBLIC" THEN "PUBLIC" ELSE "RESTRICTED"

\* The values in the order in which redact meets them: passage by passage, and
\* each from right to left.
Met(texts) == FlattenSeq([i \in DOMAIN texts |-> Reverse(texts[i])])

\* A value's number: how many others with its label were met before it, and one.
Number(met, v) ==
    LET first(x) == CHOOSE i \in DOMAIN met : met[i] = x /\ \A j \in 1 .. i - 1 : met[j] # x
    IN  1 + Cardinality({x \in ToSet(met) : LabelOf[x] = LabelOf[v] /\ first(x) < first(v)})

Placeholder(met, v) == <<LabelOf[v], Number(met, v)>>

\* Mutant: every passage starts at number one again.
redact_PerPassage(texts) ==
    [i \in DOMAIN texts |->
        [k \in DOMAIN texts[i] |-> Placeholder(Reverse(texts[i]), texts[i][k])]]

\* "Numbering is shared across passages on purpose."
redact(texts) ==
    [i \in DOMAIN texts |-> [k \in DOMAIN texts[i] |-> Placeholder(Met(texts), texts[i][k])]]

\* What the reader is told was masked: how many values of each label.
Masked(texts) ==
    [label \in {LabelOf[v] : v \in ToSet(Met(texts))} |->
        Cardinality({v \in ToSet(Met(texts)) : LabelOf[v] = label})]
=============================================================================
