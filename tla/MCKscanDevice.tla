--------------------------- MODULE MCKscanDevice ---------------------------
EXTENDS KscanDevice

CONSTANTS t1, t2, file, device, text, empty

MCTasks == {t1, t2}
MCPaths == {file}
MCTexts == {text}

\* A written text that is longer than a file's name and shorter than the
\* device's, so that a size that does not belong to the message shows.
MCLength ==
  [s \in {file, device, text, empty} |->
     CASE s = empty -> 0 [] s = file -> 1 [] s = text -> 2 [] OTHER -> 3]
=============================================================================
