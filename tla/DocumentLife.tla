---------------------------- MODULE DocumentLife ----------------------------
(***************************************************************************)
(* What the ingestion pipeline promises to those who only see documents    *)
(* from outside: the Drive connector, the API, search.  A document is      *)
(* received with some content, is accepted into the corpus or refused, and *)
(* comes out live or failed.  Of two documents with the same content at    *)
(* most one is accepted; the other is a duplicate.  Ingestion implements   *)
(* this specification (LifeSpec in Ingestion), and DriveSync is built on   *)
(* it.                                                                     *)
(***************************************************************************)
EXTENDS Naturals

CONSTANTS
    Docs,       \* document ids
    Contents,   \* distinct file contents
    None        \* no content yet

VARIABLES
    life,       \* how far each document has got, by its status
    content     \* the bytes it was received with

lifeVars == <<life, content>>

\* received: QUARANTINED.  stalled: VALIDATION_FAILED.  accepted: promoted, not
\* searchable yet.  failed: one of the later *_FAILED statuses or
\* SKIPPED_UNSUPPORTED_LANGUAGE.  superseded: replaced by a newer version.
Lives ==
    {"absent", "received", "stalled", "refused", "duplicate", "accepted", "failed", "live",
     "superseded"}

LifeInit ==
    /\ life = [d \in Docs |-> "absent"]
    /\ content = [d \in Docs |-> None]

\* The documents that hold content c: no other document may be accepted with it.
Holders(c) == {d \in Docs : content[d] = c /\ life[d] \in {"accepted", "failed", "live"}}

\* The documents another may be a duplicate of: it has not been given up.
Originals(d) ==
    {e \in Docs \ {d} :
        content[e] = content[d] /\ life[e] \in {"stalled", "accepted", "failed", "live"}}

Moves(d, from, to) == life[d] \in from /\ life' = [life EXCEPT ![d] = to]

Receives_(d, c) ==
    /\ Moves(d, {"absent"}, "received")
    /\ content' = [content EXCEPT ![d] = c]

\* A scan that could not be carried out; it may be tried again.
Stalls(d) == Moves(d, {"received", "stalled"}, "stalled") /\ UNCHANGED content

Refuses(d) == Moves(d, {"received", "stalled"}, "refused") /\ UNCHANGED content

Accepts(d) ==
    /\ Holders(content[d]) = {}
    /\ Moves(d, {"received", "stalled"}, "accepted")
    /\ UNCHANGED content

Duplicates(d) ==
    /\ Originals(d) # {}
    /\ Moves(d, {"received", "stalled"}, "duplicate")
    /\ UNCHANGED content

\* A later stage fails, or a retry of it gets further after all.
Fails(d) == Moves(d, {"accepted"}, "failed") /\ UNCHANGED content
Recovers(d) == Moves(d, {"failed"}, "accepted") /\ UNCHANGED content

GoesLive(d) == Moves(d, {"accepted"}, "live") /\ UNCHANGED content

LifeNext ==
    /\ life' # life
    /\ \E d \in Docs :
          \/ \E c \in Contents : Receives_(d, c)
          \/ Stalls(d) \/ Refuses(d) \/ Accepts(d) \/ Duplicates(d)
          \/ Fails(d) \/ Recovers(d) \/ GoesLive(d)

LifeSpec == LifeInit /\ [][LifeNext]_lifeVars
=============================================================================
