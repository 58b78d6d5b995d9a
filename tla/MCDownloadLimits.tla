-------------------------- MODULE MCDownloadLimits --------------------------
EXTENDS DownloadLimits
Speeds == {1, 2}
SomeBlocks == {3}
==============================================================================
