---------------------------- MODULE MCIngestFile ----------------------------
\* Instances of IngestFile for TLC.
EXTENDS IngestFile, TLC

CONSTANTS arxivPdf, arxiv, wall, blocked, paper

MCUrls == {arxivPdf, arxiv, wall, paper, blocked}
MCWall == {wall}
MCBlocked == {blocked}
MCNone == {}
MCStripped == (arxivPdf :> arxiv)
MCAllTypes == Types
MCSpn2 == BOOLEAN
=============================================================================
