---------------------------- MODULE MCBatchTools ----------------------------
(* Zip files of up to four PDFs with every placing of empty ones, and files of records. *)
EXTENDS BatchTools

MCInputs ==
  UNION {[1 .. n -> {"blob", "empty"}] : n \in 0 .. 4}
  \cup UNION {[1 .. n -> {"skipped", "cdx"}] : n \in 1 .. 3}
  \cup {<<"item", "partial-cdx">>, <<"cdx", "other", "cdx">>}
=============================================================================
