----------------------------- MODULE RagClaims -----------------------------
(***************************************************************************)
(* What a comment says of a new run of the ingest pipeline, stated of the  *)
(* model of the code, which does not keep it.                              *)
(***************************************************************************)
EXTENDS RagIngest

\* start_ingest resets a completed extract so that the task it dispatches is
\* accepted: the stage that it queued is taken and leaves queued.
StartedExtractIsTaken ==
  (open.op = "start") ~> (open.op = "none" /\ status[Extract] # "queued")
=============================================================================
