--------------------------- MODULE DownloadRanges ---------------------------
(***************************************************************************)
(* How an HTTP download is cut into ranges (protocol/common/split.go, as    *)
(* httpdl.downloadChunked uses it): EffectiveSegmentCount, and the loops of *)
(* BuildDownloadRanges, one turn of a loop to a step.                       *)
(***************************************************************************)
EXTENDS Integers, Sequences

CONSTANTS Totals, Splits, Connections, Sizes     \* values of the inputs

ASSUME InputAssumption ==
    /\ Totals \subseteq Nat /\ Splits \subseteq Int /\ Connections \subseteq Int
    /\ Sizes \subseteq Nat

VARIABLES
    in,       \* the arguments: start, total, and the options that count
    pc,
    n,        \* segments
    chunk,    \* chunkSize
    current,  \* where the next range begins; pos in buildPieceAlignedRanges
    ranges

vars == <<in, pc, n, chunk, current, ranges>>

Smaller(a, b) == IF a < b THEN a ELSE b

\* split, max-connection-per-server and min-split-size; 0 stands for "not set".
EffectiveSegmentCount(total, start, split, maxConn, minSplit) ==
    LET wanted == IF split <= 0 THEN 1 ELSE split
        allowed == IF maxConn > 0 THEN Smaller(wanted, maxConn) ELSE wanted
        fit == (total - start) \div minSplit
    IN CASE total <= start -> 1
         [] total > start /\ minSplit > 0 -> Smaller(allowed, IF fit < 1 THEN 1 ELSE fit)
         [] OTHER -> allowed

Remaining == in.total - in.start
Segments == EffectiveSegmentCount(in.total, in.start, in.split, in.maxConn, in.minSplit)
DownloadRange(first, last) == [first |-> first, last |-> last]

\* BuildDownloadRanges and the beginning of splitEvenRanges.
Build ==
    /\ pc = "build"
    /\ n' = Smaller(Segments, Remaining)
    /\ \/ /\ in.start >= in.total
          /\ pc' = "done" /\ UNCHANGED <<chunk, current, ranges>>
       \/ /\ in.start < in.total /\ in.pieceLength > 0
          /\ pc' = "pieces" /\ current' = in.start /\ UNCHANGED <<chunk, ranges>>
       \/ /\ in.start < in.total /\ in.pieceLength = 0 /\ n' <= 1
          /\ pc' = "done" /\ ranges' = <<DownloadRange(in.start, in.total - 1)>>
          /\ UNCHANGED <<chunk, current>>
       \/ /\ in.start < in.total /\ in.pieceLength = 0 /\ n' > 1
          /\ pc' = "even" /\ current' = in.start /\ chunk' = Remaining \div n'
          /\ UNCHANGED ranges
    /\ UNCHANGED in

\* Mutant: the next range begins on the last byte of this one.
AddOverlapping(end) ==
    /\ ranges' = Append(ranges, DownloadRange(current, end))
    /\ current' = end
    /\ pc' = IF end + 1 >= in.total THEN "done" ELSE pc
    /\ UNCHANGED <<in, n, chunk>>

Add(end) == /\ ranges' = Append(ranges, DownloadRange(current, end))
            /\ current' = end + 1
            /\ pc' = IF end + 1 >= in.total THEN "done" ELSE pc
            /\ UNCHANGED <<in, n, chunk>>

\* buildPieceAlignedRanges
Piece ==
    /\ pc = "pieces"
    /\ Add(Smaller(current + in.pieceLength - 1, in.total - 1))

\* splitEvenRanges: the last segment takes what is left.
Even ==
    /\ pc = "even"
    /\ LET end == current + chunk - 1
       IN Add(IF Len(ranges) = n - 1 \/ end >= in.total - 1 THEN in.total - 1 ELSE end)

Init ==
    /\ in \in [start : Totals, total : Totals, split : Splits, maxConn : Connections,
               minSplit : Sizes, pieceLength : Sizes]
    /\ pc = "build" /\ n = 0 /\ chunk = 0 /\ current = 0 /\ ranges = <<>>
Next == Build \/ Piece \/ Even
Spec == Init /\ [][Next]_vars
FairSpec == Spec /\ WF_vars(Next)

-----------------------------------------------------------------------------
(* Properties. *)

\* The variables have their types.
TypeOK ==
    /\ in \in [start : Nat, total : Nat, split : Int, maxConn : Int,
               minSplit : Nat, pieceLength : Nat]
    /\ pc \in {"build", "pieces", "even", "done"}
    /\ n \in Int /\ chunk \in Int /\ current \in Nat
    /\ ranges \in Seq([first : Nat, last : Nat])

\* The ranges built so far follow one another without gap or overlap from the start.
Chain ==
    \A k \in 1..Len(ranges) :
       /\ ranges[k].first = IF k = 1 THEN in.start ELSE ranges[k - 1].last + 1
       /\ ranges[k].first <= ranges[k].last /\ ranges[k].last < in.total

\* Together they are the rest of the resource: every byte is requested, and only once.
Partition ==
    /\ Chain
    /\ pc = "done" /\ in.start < in.total =>
          ranges # <<>> /\ ranges[Len(ranges)].last = in.total - 1

\* There are no more ranges than split and max-connection-per-server allow, and with
\* several of them none is shorter than min-split-size.
RespectsOptions ==
    pc = "done" /\ in.pieceLength = 0 =>
       /\ \A limit \in {in.split, in.maxConn} : limit > 0 => Len(ranges) <= limit
       /\ Len(ranges) > 1 =>
             \A k \in 1..Len(ranges) : ranges[k].last - ranges[k].first + 1 >= in.minSplit

\* The loops end.
Terminates == <>(pc = "done")
==============================================================================
