--------------------------------- MODULE Ask --------------------------------
(***************************************************************************)
(* POST /ask and GET /search: a question is searched, the tiers of what    *)
(* was found are read again, the boundary decides what may leave, a model  *)
(* answers, and its citations are checked.  Between any two of these steps *)
(* documents are reclassified, hidden, restored and erased (Access).       *)
(***************************************************************************)
EXTENDS Access, Retrieval, Gateway

CONSTANTS
    DocOf,          \* the document of each passage
    ValuesIn,       \* the sensitive values in each passage, left to right
    Questions,      \* pairs: how many passages are asked for, of which documents
    MaxPassages,    \* GENERATION_MAX_PASSAGES
    Settings,       \* the deployments: which of "include_restricted", "redact",
                    \* "rerank" are on
    Semantic,       \* the orders of nearness a question may have
    Embedded,       \* the sets of passages that may have a vector when it is asked
    Reaches,        \* how far the scan of the vector index may come
    Lexical,        \* the passages a question's words may find, best first
    MaxAsked        \* bound: requests

ASSUME AskAssumption ==
    /\ DocOf \in [Passages -> Docs]
    /\ ValuesIn \in [Passages -> Seq(Values)]
    /\ Questions \subseteq (1 .. MAX_CANDIDATES) \X SUBSET Docs
    /\ MaxPassages \in Nat \ {0}
    /\ Semantic \cup Lexical \subseteq Seq(Passages)
    /\ \A found \in Semantic \cup Lexical : IsInjective(found)
    /\ Embedded \subseteq SUBSET Passages
    /\ Reaches \subseteq Nat

VARIABLES
    settings,   \* what is switched on in this deployment
    model,      \* the cross-encoder of the process: "unloaded", "ready", "failed"
    req,        \* the request
    seen,       \* the passages its search came upon that its caller might see
    publicAt,   \* documents that have been PUBLIC between then and the call
    asked       \* how many requests so far

reqVars == <<settings, model, req, seen, publicAt, asked>>
vars == <<accessVars, reqVars>>

NoRequest == [pc |-> "none", user |-> None, limit |-> 0, scope |-> {}, results |-> <<>>,
              grounded |-> FALSE, tiers |-> <<>>, prompt |-> <<>>,
              bodies |-> <<>>, record |-> None, cited |-> {}, invalid |-> {}, reply |-> None]

Init ==
    /\ AccessInit
    /\ settings \in Settings
    /\ model = "unloaded"
    /\ req = NoRequest
    /\ seen = {}
    /\ publicAt = {}
    /\ asked = 0

At(pc) == req.pc = pc

\* document_id: the caller may narrow a question to some documents.
ask(u, limit, scope) ==
    /\ At("none") /\ asked < MaxAsked
    /\ asked' = asked + 1
    /\ req' = [NoRequest EXCEPT !.pc = "search", !.user = u, !.limit = limit, !.scope = scope]
    /\ UNCHANGED <<accessVars, settings, model, seen, publicAt>>

\* get_reranker: loaded with the first question, and given up for good if that fails.
get_reranker ==
    /\ At("search") /\ "rerank" \in settings /\ model = "unloaded"
    /\ model' \in {"ready", "failed"}
    /\ UNCHANGED <<accessVars, settings, req, seen, publicAt, asked>>

\* The passages in the WHERE clauses of both arms.
_visible(u, scope) ==
    {p \in Passages :
        /\ ~docs[DocOf[p]].deleted
        /\ visible_documents_clause(u, DocOf[p])
        /\ scope # {} => DocOf[p] \in scope}

PublicNow == {d \in Docs : docs[d].tier = "PUBLIC"}

reranker == "rerank" \in settings /\ model = "ready"

\* One statement over both arms, then the cross-encoder, then assess: similarity is
\* known of the rows of the semantic arm alone.
search ==
    /\ At("search")
    /\ "rerank" \in settings => model # "unloaded"
    /\ \E ranked \in Semantic, embedded \in Embedded, reach \in Reaches, words \in Lexical,
          nearest \in 0 .. MAX_CANDIDATES, all \in BOOLEAN :
          LET allowed == _visible(req.user, req.scope)
              scanned == Scanned(ranked, embedded, reach)
              pool == candidate_pool(Fetch(req.limit, reranker))
              semantic == Arm(scanned, allowed, pool)
              lexical == Arm(words, allowed, pool)
              near == ToSet(Upto(semantic, nearest))
              literal == IF all THEN ToSet(words) ELSE {}
          IN  /\ seen' = allowed \cap (ToSet(scanned) \cup ToSet(words))
              /\ \E results \in Pages(semantic, lexical, req.limit, reranker) :
                    req' = [req EXCEPT !.pc = "found", !.results = results,
                                       !.grounded = assess(results, near, literal, lexical)]
    /\ publicAt' = PublicNow
    /\ UNCHANGED <<accessVars, settings, model, asked>>

\* GET /search: nothing is shown that does not answer the question.
semantic_search ==
    /\ At("found")
    /\ req' = [req EXCEPT !.pc = "done",
                          !.reply = IF req.grounded THEN req.results ELSE <<>>]
    /\ UNCHANGED <<accessVars, settings, model, seen, publicAt, asked>>

\* Each passage's tier, as it is by now: a question about named documents that
\* found something is grounded by its asker.
_tiers_for == [i \in DOMAIN req.results |-> docs[DocOf[req.results[i]]].tier]

ask_tiers ==
    /\ At("found")
    /\ req' = [req EXCEPT !.pc = "tiers", !.tiers = _tiers_for,
                          !.grounded = @ \/ (req.scope # {} /\ req.results # <<>>)]
    /\ UNCHANGED <<accessVars, settings, model, seen, publicAt, asked>>

usable == Upto(req.results, MaxPassages)
supplied == Upto(req.tiers, Len(usable))
kept == Kept(supplied, "include_restricted" \in settings)

\* No model call: nothing relevant, or nothing that may leave.
refuses ==
    /\ At("tiers")
    /\ ~req.grounded \/ req.results = <<>> \/ kept = <<>>
    /\ req' = [req EXCEPT !.pc = "done"]
    /\ UNCHANGED <<accessVars, settings, model, seen, publicAt, asked>>

\* compose: the passages that crossed, numbered from 1 in the prompt.
\* Mutant: numbered as they were offered.
Sent_AsOffered(indices) == Upto(usable, Len(indices))

Sent(indices) == [i \in DOMAIN indices |-> usable[indices[i]]]

\* send: the texts at those indices, redacted, are all that the model is shown.
send ==
    /\ At("tiers")
    /\ req.grounded /\ kept # <<>>
    /\ LET texts == [i \in DOMAIN kept |-> ValuesIn[usable[kept[i]]]]
           redacts == "redact" \in settings
       IN  req' = [req EXCEPT
               !.pc = "sent", !.prompt = Sent(kept),
               !.bodies = IF redacts THEN redact(texts) ELSE texts,
               !.record = [tier |-> classify([i \in DOMAIN kept |-> supplied[kept[i]]]),
                           considered |-> Len(usable), sent |-> Len(texts),
                           withheld |-> Len(usable) - Len(kept),
                           masked |-> IF redacts THEN Masked(texts) ELSE <<>>]]
    /\ UNCHANGED <<accessVars, settings, model, seen, publicAt, asked>>

\* The model may mark any number; a citation is the passage under it.
Cited(n) == [marker |-> n, passage |-> req.prompt[n]]

completes ==
    /\ At("sent")
    /\ \E markers \in SUBSET (0 .. Len(usable) + 1) :
          LET given == markers \cap DOMAIN req.prompt
          IN  req' = [req EXCEPT !.pc = "done", !.reply = req.prompt,
                                 !.cited = {Cited(n) : n \in given},
                                 !.invalid = markers \ given]
    /\ UNCHANGED <<accessVars, settings, model, seen, publicAt, asked>>

\* 503: the provider failed.
generation_fails ==
    /\ At("sent")
    /\ req' = [req EXCEPT !.pc = "done"]
    /\ UNCHANGED <<accessVars, settings, model, seen, publicAt, asked>>

forgets ==
    /\ At("done")
    /\ req' = NoRequest
    /\ seen' = {} /\ publicAt' = {}
    /\ UNCHANGED <<accessVars, settings, model, asked>>

ApiStep ==
    /\ AccessNext
    /\ publicAt' = publicAt \cup IF req.pc \in {"found", "tiers"} THEN PublicNow' ELSE {}
    /\ UNCHANGED <<settings, model, req, seen, asked>>

Next ==
    \/ \E u \in Users, q \in Questions : ask(u, q[1], q[2])
    \/ get_reranker \/ search \/ semantic_search \/ ask_tiers \/ refuses \/ send
    \/ completes \/ generation_fails \/ forgets
    \/ ApiStep

Spec == Init /\ [][Next]_vars

(***************************************************************************)
(* Properties.                                                             *)
(***************************************************************************)
Asked == req.prompt # <<>>

\* "Restricted passages do not go to external inference at all", and "an
\* unrecorded classification is not evidence that something is safe to send":
\* unless the deployment sends everything, whatever is reclassified, hidden or
\* erased between the search, the reading of the tiers and the call, each
\* document with a passage in the prompt was PUBLIC at some time between them.
NothingRestrictedSent ==
    Asked /\ "include_restricted" \notin settings =>
        {DocOf[p] : p \in ToSet(req.prompt)} \subseteq publicAt

\* "A citation marker has to point at a passage that was really sent": what the
\* model read under a citation's number is, values apart, the passage that the
\* reader is shown for it, although the boundary may have dropped passages before
\* it and numbered the rest again.
CitationsCheckOut ==
    \A c \in req.cited :
        LET read == req.bodies[c.marker]
            shown == ValuesIn[c.passage]
        IN  /\ c.passage \in ToSet(req.results)
            /\ IF "redact" \in settings
                   THEN [k \in DOMAIN read |-> read[k][1]] = [k \in DOMAIN shown |-> LabelOf[shown[k]]]
                   ELSE read = shown

\* "The same phone number appearing in three passages becomes <PHONE_1> in all
\* three": wherever two values stand in a redacted prompt, their placeholders are
\* the same if and only if they are.
SamePlaceholder ==
    Asked /\ "redact" \in settings =>
        \A i, j \in DOMAIN req.prompt :
            LET x == ValuesIn[req.prompt[i]]
                y == ValuesIn[req.prompt[j]]
            IN  \A k \in DOMAIN x, l \in DOMAIN y :
                    req.bodies[i][k] = req.bodies[j][l] <=> x[k] = y[l]

\* What the reader is told of the boundary is what happened at it: a request said
\* to be PUBLIC had nothing in it that was not, the passages add up, and each value
\* gone from the prompt is in the count of its label.
RecordIsHonest ==
    Asked =>
        /\ req.record.tier = "PUBLIC" => {DocOf[p] : p \in ToSet(req.prompt)} \subseteq publicAt
        /\ req.record.considered = req.record.sent + req.record.withheld
        /\ req.record.sent = Len(req.prompt)
        /\ "redact" \in settings =>
              LET gone == UNION {ToSet(ValuesIn[p]) : p \in ToSet(req.prompt)}
              IN  \A label \in {LabelOf[v] : v \in gone} :
                      req.record.masked[label] = Cardinality({v \in gone : LabelOf[v] = label})

\* "limit=5 returns four results, and the caller cannot distinguish a thin corpus
\* from a withheld answer": what the caller may not see never costs a place.  Of the
\* passages that the scan of the vectors or the words came upon, a page holds as many
\* as the caller may see, up to the limit, each once and no other, with or without the
\* cross-encoder.  (A passage without a vector, or past the end of the scan, whose
\* words do not match either is not come upon: such a page may be short.)
FullPage ==
    req.pc \notin {"none", "search"} =>
        /\ ToSet(req.results) \subseteq seen
        /\ IsInjective(req.results)
        /\ Len(req.results) = Least(req.limit, Cardinality(seen))
=============================================================================
