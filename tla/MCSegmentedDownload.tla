------------------------ MODULE MCSegmentedDownload ------------------------
EXTENDS SegmentedDownload

SomeTotals == 0..9
SomeSplits == -1..4
SomeConnections == 0..3
SomeSizes == 0..4
Input(total, split, maxConn, piece) ==
    [start |-> 0, total |-> total, split |-> split, maxConn |-> maxConn,
     minSplit |-> 0, pieceLength |-> piece]
\* Two segments, and three pieces two at a time.
SomeFetched == {Input(4, 2, 0, 0), Input(3, 3, 2, 1)}
SomeLists == {<<"bad", "good">>, <<"good">>, <<"bad">>}
==============================================================================
