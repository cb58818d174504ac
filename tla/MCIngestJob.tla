---------------------------- MODULE MCIngestJob ----------------------------
(***************************************************************************)
(* Small instances of IngestJob for TLC.                                   *)
(***************************************************************************)
EXTENDS IngestJob, TLC

CONSTANTS h1, h2, h3, u1, u2

\* RenderedPage of this repository's perceive_flow, the fallback of the public mirror
MirrorFields == {"html", "final_url", "render_quality", "is_blocked", "warnings"}
\* and of the cloud build's, which ingest_flow is written against
CloudFields == MirrorFields \cup {"content_category", "content_type"}
\* contents of different sizes
MCChunks == [h \in Hashes |-> IF h = h1 THEN 1 ELSE 2]
\* contents of one size are alike, and so are the addresses
MCSymmetry == Permutations({h2, h3}) \cup Permutations({u1, u2})

=============================================================================
