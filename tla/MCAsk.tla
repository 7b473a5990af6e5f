------------------------------- MODULE MCAsk -------------------------------
(***************************************************************************)
(* An instance of Ask: two documents, of which one has two passages that   *)
(* share a phone number with the other's; an administrator and the owner   *)
(* of one document.  The other document may be without vectors, and the    *)
(* scan of the index may stop early.                                       *)
(***************************************************************************)
EXTENDS Ask

CONSTANTS d1, d2, owner, boss

MCOwnerOf == (d1 :> owner) @@ (d2 :> None)
MCCopyOf == (d1 :> None) @@ (d2 :> d1)
MCDocOf == <<d1, d2, d1>>
MCValues == {"98", "99", "A1"}
MCLabelOf == [v \in MCValues |-> IF v = "A1" THEN "PAN" ELSE "PHONE"]
MCValuesIn == << <<"98", "A1">>, <<"98", "99">>, <<>> >>
MCQuestions == {<<1, {}>>, <<2, {}>>, <<2, {d2}>>}
MCSemantic == {<<1, 2, 3>>, <<3, 2, 1>>}
MCEmbedded == {{1, 2, 3}, {2}}
MCReaches == {1, 3}
MCLexical == {<<>>, <<2, 3>>}
MCSettings == {{"redact", "rerank"}, {"include_restricted", "redact"}, {}}
=============================================================================
