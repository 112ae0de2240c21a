--------------------------- MODULE MCPersistBatch ---------------------------
\* Instances of PersistBatch for TLC.
EXTENDS PersistBatch, TLC

CONSTANTS g1, g2, t1, sha1a, sha1b

MCOneGrobid == {g1}
MCTwoGrobid == {g1, g2}
MCOnePdfText == {t1}
MCNoWorkers == {}
MCOneKey == {sha1a}
MCKeys == {sha1a, sha1b}
\* A failure of GROBID is stored as a success without text is.
MCOutcomes == {"success", "no-text", "no-status"}
MCText == {"success", "failure"}
MCSuccess == {"success"}
=============================================================================
