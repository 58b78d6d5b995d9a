----------------------- MODULE SegmentedDownloadProofs -----------------------
(* Theorems about DownloadRanges and SegmentedDownload for every resource,     *)
(* every option value and every list of mirrors.                               *)
EXTENDS TLAPS, FiniteSetTheorems, SegmentedDownload

-----------------------------------------------------------------------------
(* DownloadRanges: the ranges partition the resource. *)

InputType == in \in [start : Nat, total : Nat, split : Int, maxConn : Int,
                     minSplit : Nat, pieceLength : Nat]
Ranges == Seq([first : Nat, last : Nat])

\* Inside a loop the next range begins where the last one ended, within the resource, and
\* can be one byte long at least.
InLoop ==
    /\ pc = "pieces" => in.pieceLength > 0
    /\ pc = "even" => chunk >= 1
    /\ pc \in {"pieces", "even"} =>
          /\ current < in.total
          /\ current = IF ranges = <<>> THEN in.start ELSE ranges[Len(ranges)].last + 1
    /\ pc = "build" => ranges = <<>>
RangesInv == TypeOK /\ Partition /\ InLoop

LEMMA CountType ==
    ASSUME InputType
    PROVE  Segments \in Int /\ Remaining \in Int
<1>1. CASE in.minSplit > 0
  <2>1. (in.total - in.start) \div in.minSplit \in Int
    BY <1>1 DEF InputType
  <2> QED
    BY <2>1 DEF InputType, Segments, Remaining, EffectiveSegmentCount, Smaller
<1>2. CASE in.minSplit = 0
  BY <1>2 DEF InputType, Segments, Remaining, EffectiveSegmentCount, Smaller
<1> QED
  BY <1>1, <1>2 DEF InputType

LEMMA DivPositive ==
    ASSUME NEW a \in Nat, NEW b \in Nat, 0 < b, b <= a
    PROVE  a \div b \in Nat /\ a \div b >= 1
OBVIOUS

\* The three parts of RangesInv at the end of a step that leaves the arguments alone.
LEMMA Assemble ==
    ASSUME TypeOK, in' = in,
           pc' \in {"build", "pieces", "even", "done"},
           n' \in Int, chunk' \in Int, current' \in Nat, ranges' \in Ranges,
           Partition', InLoop'
    PROVE  RangesInv'
BY DEF RangesInv, TypeOK, Ranges

LEMMA BuildKeeps == ASSUME RangesInv, Build PROVE RangesInv'
<1>0. /\ TypeOK /\ InputType /\ in' = in /\ ranges = <<>> /\ pc = "build"
      /\ in.start \in Nat /\ in.total \in Nat /\ in.pieceLength \in Nat
      /\ n' = Smaller(Segments, Remaining)
      /\ chunk \in Int /\ current \in Nat /\ <<>> \in Ranges
  BY DEF RangesInv, TypeOK, InLoop, InputType, Build, Ranges
<1>1. n' \in Int /\ n' <= Remaining
  BY <1>0, CountType DEF Smaller
<1>2. CASE in.start >= in.total
  <2>1. /\ pc' = "done" /\ chunk' = chunk /\ current' = current /\ ranges' = <<>>
    BY <1>0, <1>2 DEF Build
  <2>2. Partition'
    BY <1>0, <1>2, <2>1 DEF Partition, Chain
  <2>3. InLoop'
    BY <2>1 DEF InLoop
  <2> QED
    BY <1>0, <1>1, <2>1, <2>2, <2>3, Assemble
<1>3. CASE in.start < in.total /\ in.pieceLength > 0
  <2>1. /\ pc' = "pieces" /\ current' = in.start /\ chunk' = chunk /\ ranges' = <<>>
    BY <1>0, <1>3 DEF Build
  <2>2. Partition'
    BY <1>0, <2>1 DEF Partition, Chain
  <2>3. InLoop'
    BY <1>0, <1>3, <2>1 DEF InLoop
  <2> QED
    BY <1>0, <1>1, <2>1, <2>2, <2>3, Assemble
<1>4. CASE in.start < in.total /\ in.pieceLength = 0 /\ n' <= 1
  <2>1. /\ ranges' = <<DownloadRange(in.start, in.total - 1)>> /\ pc' = "done"
        /\ chunk' = chunk /\ current' = current
    BY <1>0, <1>1, <1>4 DEF Build
  <2>2. DownloadRange(in.start, in.total - 1) \in [first : Nat, last : Nat]
    BY <1>0, <1>4 DEF DownloadRange
  <2>3. /\ ranges' \in Ranges /\ Len(ranges') = 1
        /\ ranges'[1].first = in.start /\ ranges'[1].last = in.total - 1
    BY <2>1, <2>2 DEF Ranges, DownloadRange
  <2>4. Partition'
    BY <1>0, <1>4, <2>1, <2>3 DEF Partition, Chain
  <2>5. InLoop'
    BY <2>1 DEF InLoop
  <2> QED
    BY <1>0, <1>1, <2>1, <2>3, <2>4, <2>5, Assemble
<1>5. CASE in.start < in.total /\ in.pieceLength = 0 /\ n' > 1
  <2>1. /\ pc' = "even" /\ current' = in.start /\ chunk' = Remaining \div n'
        /\ ranges' = <<>>
    BY <1>0, <1>1, <1>5 DEF Build
  <2>2. Remaining \in Nat /\ n' \in Nat /\ 0 < n' /\ n' <= Remaining
    BY <1>0, <1>1, <1>5 DEF Remaining
  <2>3. chunk' \in Nat /\ chunk' >= 1
    BY <2>1, <2>2, DivPositive
  <2>4. Partition'
    BY <1>0, <2>1 DEF Partition, Chain
  <2>5. InLoop'
    BY <1>0, <1>5, <2>1, <2>3 DEF InLoop
  <2> QED
    BY <1>0, <1>1, <2>1, <2>3, <2>4, <2>5, Assemble
<1> QED
  BY <1>0, <1>1, <1>2, <1>3, <1>4, <1>5

LEMMA AddKeeps ==
    ASSUME RangesInv, pc \in {"pieces", "even"},
           NEW end \in Nat, current <= end, end < in.total, Add(end)
    PROVE  RangesInv'
<1>0. /\ in.total \in Nat /\ ranges \in Ranges /\ current \in Nat /\ current < in.total
      /\ current = IF ranges = <<>> THEN in.start ELSE ranges[Len(ranges)].last + 1
  BY DEF RangesInv, TypeOK, InLoop, InputType, Ranges
<1>1. /\ ranges' = Append(ranges, DownloadRange(current, end)) /\ current' = end + 1
      /\ pc' = (IF end + 1 >= in.total THEN "done" ELSE pc)
      /\ in' = in /\ n' = n /\ chunk' = chunk
  BY DEF Add
<1>2. DownloadRange(current, end) \in [first : Nat, last : Nat]
  BY <1>0 DEF DownloadRange
<1>3. /\ ranges' \in Ranges /\ Len(ranges') = Len(ranges) + 1
      /\ \A k \in 1..Len(ranges) : ranges'[k] = ranges[k]
      /\ ranges'[Len(ranges')] = [first |-> current, last |-> end]
  BY <1>0, <1>1, <1>2 DEF Ranges, DownloadRange
<1>4. Chain'
  <2> SUFFICES ASSUME NEW k \in 1..Len(ranges')
               PROVE  /\ ranges'[k].first = IF k = 1 THEN in.start ELSE ranges'[k - 1].last + 1
                      /\ ranges'[k].first <= ranges'[k].last /\ ranges'[k].last < in.total
    BY <1>1 DEF Chain
  <2>1. CASE k \in 1..Len(ranges)
    <3>1. k # 1 => k - 1 \in 1..Len(ranges)
      BY <1>0, <2>1 DEF Ranges
    <3> QED
      BY <1>3, <2>1, <3>1 DEF RangesInv, Partition, Chain
  <2>2. CASE k = Len(ranges) + 1
    <3>1. CASE ranges = <<>>
      BY <1>0, <1>3, <2>2, <3>1
    <3>2. CASE ranges # <<>>
      <4>1. k # 1 /\ k - 1 = Len(ranges) /\ k - 1 \in 1..Len(ranges)
        BY <1>0, <2>2, <3>2 DEF Ranges
      <4> QED
        BY <1>0, <1>3, <2>2, <3>2, <4>1
    <3> QED
      BY <3>1, <3>2
  <2> QED
    BY <1>0, <1>3, <2>1, <2>2 DEF Ranges
<1>5. ranges' # <<>>
  BY <1>0, <1>3 DEF Ranges
<1>6. Partition'
  <2>1. pc' = "done" => end = in.total - 1
    BY <1>0, <1>1
  <2> QED
    BY <1>1, <1>3, <1>4, <1>5, <2>1 DEF Partition
<1>7. InLoop'
  BY <1>0, <1>1, <1>3, <1>5 DEF InLoop, RangesInv, InputType
<1>8. TypeOK'
  BY <1>1, <1>3 DEF TypeOK, RangesInv, Ranges
<1> QED
  BY <1>6, <1>7, <1>8 DEF RangesInv

\* RangesInv is inductive.
LEMMA Start == Init => RangesInv
<1> SUFFICES ASSUME Init PROVE RangesInv
  OBVIOUS
<1>1. /\ in \in [start : Totals, total : Totals, split : Splits, maxConn : Connections,
                  minSplit : Sizes, pieceLength : Sizes]
      /\ pc = "build" /\ n = 0 /\ chunk = 0 /\ current = 0 /\ ranges = <<>>
  BY DEF Init
<1>2. TypeOK
  <2>1. in \in [start : Nat, total : Nat, split : Int, maxConn : Int,
                minSplit : Nat, pieceLength : Nat]
    BY <1>1, InputAssumption
  <2>2. <<>> \in Seq([first : Nat, last : Nat])
    OBVIOUS
  <2> QED
    BY <1>1, <2>1, <2>2 DEF TypeOK
<1>3. Partition
  BY <1>1 DEF Partition, Chain
<1>4. InLoop
  BY <1>1 DEF InLoop
<1> QED
  BY <1>2, <1>3, <1>4 DEF RangesInv

LEMMA Step == RangesInv /\ [Next]_vars => RangesInv'
<1> SUFFICES ASSUME RangesInv, [Next]_vars PROVE RangesInv'
  OBVIOUS
<1>0. /\ InputType /\ current \in Nat /\ chunk \in Int
      /\ in.total \in Nat /\ in.pieceLength \in Nat
  BY DEF RangesInv, TypeOK, InputType
<1>1. CASE Piece
  <2>1. Smaller(current + in.pieceLength - 1, in.total - 1) \in current..(in.total - 1)
    BY <1>0, <1>1 DEF Piece, RangesInv, InLoop, Smaller
  <2> QED
    BY <1>0, <1>1, <2>1, AddKeeps DEF Piece
<1>2. CASE Even
  <2> DEFINE end == IF Len(ranges) = n - 1 \/ current + chunk - 1 >= in.total - 1
                    THEN in.total - 1 ELSE current + chunk - 1
  <2>1. end \in current..(in.total - 1)
    BY <1>0, <1>2 DEF Even, RangesInv, InLoop
  <2>2. Add(end) /\ pc = "even"
    BY <1>2 DEF Even
  <2> HIDE DEF end
  <2> QED
    BY <1>0, <2>1, <2>2, AddKeeps
<1>3. CASE UNCHANGED vars
  BY <1>3 DEF vars, RangesInv, TypeOK, Partition, Chain, InLoop
<1> QED
  BY <1>1, <1>2, <1>3, BuildKeeps DEF Next

\* The variables keep their types.
THEOREM TypeCorrect == Spec => []TypeOK
<1>1. RangesInv => TypeOK
  BY DEF RangesInv
<1> QED
  BY <1>1, Start, Step, PTL DEF Spec

\* Whatever the size of the resource and the options, BuildDownloadRanges asks for every
\* missing byte once.
THEOREM RangesPartition == Spec => []Partition
<1>1. RangesInv => Partition
  BY DEF RangesInv
<1> QED
  BY <1>1, Start, Step, PTL DEF Spec

-----------------------------------------------------------------------------
(* split, max-connection-per-server and min-split-size. *)

\* The even loop never runs out of segments or bytes: what is left is enough for the
\* segments that are left, and all of them are one chunk long, which min-split-size allows.
EvenInv ==
    pc = "even" =>
       /\ n > 1 /\ n <= Segments /\ Len(ranges) < n
       /\ n * chunk <= Remaining /\ current = in.start + Len(ranges) * chunk
       /\ chunk >= in.minSplit
       /\ \A k \in 1..Len(ranges) : ranges[k].last - ranges[k].first + 1 >= chunk
OptionInv == EvenInv /\ RespectsOptions

LEMMA SegmentsBound ==
    ASSUME InputType
    PROVE  /\ Segments \in Nat \ {0}
           /\ in.split > 0 => Segments <= in.split
           /\ in.maxConn > 0 => Segments <= in.maxConn
           /\ in.start < in.total /\ in.minSplit > 0 /\ Segments > 1 =>
                 Segments <= Remaining \div in.minSplit
<1>1. CASE in.minSplit > 0
  <2>1. (in.total - in.start) \div in.minSplit \in Int
    BY <1>1 DEF InputType
  <2> QED
    BY <1>1, <2>1 DEF InputType, Segments, Remaining, EffectiveSegmentCount, Smaller
<1>2. CASE in.minSplit = 0
  BY <1>2 DEF InputType, Segments, Remaining, EffectiveSegmentCount, Smaller
<1> QED
  BY <1>1, <1>2 DEF InputType

LEMMA TimesMonotonic ==
    ASSUME NEW a \in Nat, NEW b \in Nat, NEW c \in Nat, a <= b
    PROVE  a * c <= b * c
OBVIOUS

LEMMA EachRange ==
    ASSUME ranges \in Seq([first : Nat, last : Nat])
    PROVE  \A k \in 1..Len(ranges) : ranges[k] \in [first : Nat, last : Nat]
<1> DEFINE S == [first : Nat, last : Nat]
<1>1. ranges \in Seq(S)
  OBVIOUS
<1> HIDE DEF S
<1>2. \A k \in 1..Len(ranges) : ranges[k] \in S
  BY <1>1
<1> QED
  BY <1>2 DEF S

\* No more segments than fit of min-split-size are segments of min-split-size at least.
LEMMA ChunkIsEnough ==
    ASSUME NEW size \in Nat, NEW least \in Nat \ {0}, NEW count \in Nat \ {0},
           count <= size \div least
    PROVE  size \div count >= least
<1>1. (size \div least) \in Nat /\ (size \div least) * least <= size
  OBVIOUS
<1>2. count * least <= size
  <2>1. count * least <= (size \div least) * least
    BY <1>1, TimesMonotonic
  <2> QED
    BY <1>1, <2>1
<1> QED
  BY <1>2

LEMMA ChunkFits ==
    ASSUME NEW size \in Nat, NEW count \in Nat \ {0}
    PROVE  (size \div count) \in Nat /\ count * (size \div count) <= size
OBVIOUS

LEMMA BuildOptions == ASSUME RangesInv, Build PROVE OptionInv'
<1>0. /\ InputType /\ in' = in /\ ranges = <<>> /\ in.start \in Nat /\ in.total \in Nat
      /\ in.minSplit \in Nat /\ in.split \in Int /\ in.maxConn \in Int
      /\ n' = Smaller(Segments, Remaining) /\ Remaining \in Int
  BY CountType DEF RangesInv, TypeOK, InLoop, InputType, Build
<1>1. n' \in Int /\ n' <= Remaining /\ n' <= Segments /\ Segments \in Nat
  BY <1>0, SegmentsBound DEF Smaller
<1>2. CASE pc' = "even"
  <2>1. /\ in.start < in.total /\ n' > 1 /\ current' = in.start /\ ranges' = ranges
        /\ chunk' = Remaining \div n'
    BY <1>0, <1>1, <1>2 DEF Build
  <2>2. Remaining \in Nat /\ n' \in Nat \ {0}
    BY <1>0, <1>1, <2>1 DEF Remaining
  <2>3. chunk' \in Nat /\ n' * chunk' <= Remaining
    BY <2>1, <2>2, ChunkFits
  <2>4. chunk' >= in.minSplit
    <3>1. CASE in.minSplit = 0
      BY <2>3, <3>1
    <3>2. CASE in.minSplit > 0
      <4>1. Segments <= Remaining \div in.minSplit /\ (Remaining \div in.minSplit) \in Int
        BY <1>0, <1>1, <2>1, <2>2, <3>2, SegmentsBound
      <4>2. n' <= Remaining \div in.minSplit
        BY <1>1, <4>1
      <4> QED
        BY <1>0, <2>1, <2>2, <3>2, <4>2, ChunkIsEnough
    <3> QED
      BY <1>0, <3>1, <3>2
  <2>5. Segments' = Segments /\ Remaining' = Remaining
    BY <1>0 DEF Segments, Remaining
  <2>6. Len(ranges') = 0
    BY <1>0, <2>1
  <2> QED
    BY <1>0, <1>1, <1>2, <2>1, <2>2, <2>3, <2>4, <2>5, <2>6
       DEF OptionInv, EvenInv, RespectsOptions
<1>3. CASE pc' # "even"
  <2>1. in.pieceLength = 0 /\ pc' = "done" => Len(ranges') \in 0..1
    BY <1>0, <1>1, <1>3 DEF Build, RangesInv, TypeOK
  <2>2. RespectsOptions'
    <3> SUFFICES ASSUME in.pieceLength = 0, pc' = "done" PROVE RespectsOptions'
      BY <1>0 DEF RespectsOptions
    <3> DEFINE m == Len(ranges')
    <3>1. m \in 0..1
      BY <2>1
    <3> HIDE DEF m
    <3>2. /\ \A limit \in {in'.split, in'.maxConn} : limit > 0 => m <= limit
          /\ ~(m > 1)
      BY <1>0, <3>1
    <3> QED
      BY <3>2 DEF RespectsOptions, m
  <2> QED
    BY <1>3, <2>2 DEF OptionInv, EvenInv
<1> QED
  BY <1>2, <1>3

LEMMA EvenOptions == ASSUME RangesInv, OptionInv, Even PROVE OptionInv'
<1> DEFINE end == IF Len(ranges) = n - 1 \/ current + chunk - 1 >= in.total - 1
                  THEN in.total - 1 ELSE current + chunk - 1
           k == Len(ranges)
<1>0. /\ InputType /\ ranges \in Ranges /\ k \in Nat /\ current \in Nat /\ chunk \in Nat
      /\ n \in Nat /\ in.start \in Nat /\ in.total \in Nat /\ in.minSplit \in Nat
      /\ in.split \in Int /\ in.maxConn \in Int /\ current < in.total
      /\ Segments \in Nat /\ Remaining \in Int /\ n * chunk \in Nat /\ k * chunk \in Nat
  BY SegmentsBound, CountType DEF Even, RangesInv, TypeOK, InLoop, InputType, Ranges, OptionInv, EvenInv
<1>1. /\ n > 1 /\ n <= Segments /\ k < n /\ n * chunk <= Remaining
      /\ current = in.start + k * chunk /\ chunk >= in.minSplit
      /\ \A j \in 1..k : ranges[j].last - ranges[j].first + 1 >= chunk
  BY DEF Even, OptionInv, EvenInv
<1>2. (k + 1) * chunk <= n * chunk /\ (k + 1) * chunk = k * chunk + chunk
  <2> HIDE DEF k
  <2>1. (k + 1) * chunk <= n * chunk
    <3>1. k + 1 \in Nat /\ k + 1 <= n
      BY <1>0, <1>1
    <3> QED
      BY <1>0, <3>1, TimesMonotonic
  <2> QED
    BY <1>0, <2>1
<1>3. current + chunk <= in.total
  BY <1>0, <1>1, <1>2 DEF Remaining
<1>4. end \in Nat /\ current <= end /\ end < in.total /\ end - current + 1 >= chunk
  BY <1>0, <1>3 DEF RangesInv, InLoop, Even
<1>5. /\ ranges' = Append(ranges, DownloadRange(current, end)) /\ current' = end + 1
      /\ pc' = (IF end + 1 >= in.total THEN "done" ELSE pc)
      /\ in' = in /\ n' = n /\ chunk' = chunk /\ pc = "even"
  BY DEF Even, Add
<1>6. pc' = "even" => end = current + chunk - 1 /\ k + 1 < n
  BY <1>0, <1>1, <1>5
<1> HIDE DEF end
<1>7. /\ Len(ranges') = k + 1
      /\ \A j \in 1..k : ranges'[j] = ranges[j]
      /\ ranges'[k + 1].first = current /\ ranges'[k + 1].last = end
  <2>1. DownloadRange(current, end) \in [first : Nat, last : Nat]
    BY <1>0, <1>4 DEF DownloadRange
  <2> QED
    BY <1>0, <1>5, <2>1 DEF Ranges, DownloadRange
<1>8. \A j \in 1..(k + 1) : /\ ranges'[j].last \in Nat /\ ranges'[j].first \in Nat
                             /\ ranges'[j].last - ranges'[j].first + 1 >= chunk
  <2> SUFFICES ASSUME NEW j \in 1..(k + 1)
               PROVE  /\ ranges'[j].last \in Nat /\ ranges'[j].first \in Nat
                      /\ ranges'[j].last - ranges'[j].first + 1 >= chunk
    OBVIOUS
  <2>1. CASE j = k + 1
    BY <1>0, <1>4, <1>7, <2>1
  <2>2. CASE j \in 1..k
    <3>1. ranges[j] \in [first : Nat, last : Nat]
      BY <2>2, EachRange DEF RangesInv, TypeOK
    <3> QED
      BY <1>1, <1>7, <2>2, <3>1
  <2> QED
    BY <1>0, <2>1, <2>2
<1>9. Segments' = Segments /\ Remaining' = Remaining
  BY <1>5 DEF Segments, Remaining
<1>10. EvenInv'
  <2> HIDE DEF k
  <2>1. pc' = "even" => current' = in.start + (k + 1) * chunk
    <3> SUFFICES ASSUME pc' = "even" PROVE current' = in.start + (k * chunk + chunk)
      BY <1>2
    <3>1. end = current + chunk - 1
      BY <1>6
    <3>2. current' = current + chunk
      BY <1>0, <1>5, <3>1
    <3> QED
      BY <1>0, <1>1, <3>2
  <2> QED
    BY <1>0, <1>1, <1>5, <1>6, <1>7, <1>8, <1>9, <2>1 DEF EvenInv
<1>11. RespectsOptions'
  <2>1. \A limit \in {in.split, in.maxConn} : limit > 0 => k + 1 <= limit
    BY <1>0, <1>1, SegmentsBound
  <2>2. \A j \in 1..(k + 1) : ranges'[j].last - ranges'[j].first + 1 >= in.minSplit
    <3> SUFFICES ASSUME NEW j \in 1..(k + 1)
                 PROVE  ranges'[j].last - ranges'[j].first + 1 >= in.minSplit
      OBVIOUS
    <3>1. ranges'[j].last - ranges'[j].first + 1 \in Int
      BY <1>8
    <3> QED
      BY <1>0, <1>1, <1>8, <3>1
  <2> QED
    BY <1>5, <1>7, <2>1, <2>2 DEF RespectsOptions
<1> QED
  BY <1>10, <1>11 DEF OptionInv

LEMMA OptionStart == Init => OptionInv
BY DEF Init, OptionInv, EvenInv, RespectsOptions

LEMMA OptionStep == RangesInv /\ OptionInv /\ [Next]_vars => OptionInv'
<1> SUFFICES ASSUME RangesInv, OptionInv, [Next]_vars PROVE OptionInv'
  OBVIOUS
<1>1. CASE Piece
  <2>1. in.pieceLength > 0 /\ in' = in /\ pc' \in {"pieces", "done"} /\ in.pieceLength \in Nat
    BY <1>1 DEF Piece, Add, RangesInv, InLoop, TypeOK
  <2> QED
    BY <2>1 DEF OptionInv, EvenInv, RespectsOptions
<1>2. CASE UNCHANGED vars
  BY <1>2 DEF vars, OptionInv, EvenInv, RespectsOptions, Segments, Remaining
<1> QED
  BY <1>1, <1>2, BuildOptions, EvenOptions DEF Next

\* Whatever the size of the resource and the options: split and max-connection-per-server
\* bound the number of ranges, and several ranges are no shorter than min-split-size.
THEOREM OptionsKept == Spec => []RespectsOptions
<1>1. OptionInv => RespectsOptions
  BY DEF OptionInv
<1> QED
  BY <1>1, Start, Step, OptionStart, OptionStep, PTL DEF Spec

-----------------------------------------------------------------------------
(* Every byte belongs to a range. *)

Within(b) == \E k \in 1..Len(ranges) : ranges[k].first <= b /\ b <= ranges[k].last
Inside ==
    /\ pc \in {"pieces", "even"} => in.start <= current
    /\ \A k \in 1..Len(ranges) : in.start <= ranges[k].first /\ ranges[k].last < in.total
Covered ==
    /\ Inside
    /\ \A b \in in.start..(in.total - 1) :
          pc = "done" \/ (pc # "build" /\ b < current) => Within(b)

LEMMA CoveredStart == Init => Covered
BY DEF Init, Covered, Inside

LEMMA CoveredStep == RangesInv /\ Covered /\ [Next]_vars => Covered'
<1> SUFFICES ASSUME RangesInv, Covered, [Next]_vars PROVE Covered'
  OBVIOUS
<1>0. /\ in.start \in Nat /\ in.total \in Nat /\ ranges \in Ranges /\ current \in Nat
      /\ pc \in {"build", "pieces", "even", "done"} /\ Len(ranges) \in Nat
  BY DEF RangesInv, TypeOK, Ranges
<1>1. CASE Build
  <2>1. in' = in /\ ranges = <<>>
    BY <1>1 DEF Build, RangesInv, InLoop
  <2>2. CASE in.start >= in.total
    BY <1>0, <1>1, <2>1, <2>2 DEF Build, Covered, Inside
  <2>3. CASE pc' \in {"pieces", "even"}
    BY <1>0, <1>1, <2>1, <2>3 DEF Build, Covered, Inside
  <2>4. CASE ranges' = <<DownloadRange(in.start, in.total - 1)>> /\ in.start < in.total
    <3>1. /\ Len(ranges') = 1 /\ ranges'[1].first = in.start
          /\ ranges'[1].last = in.total - 1
      BY <2>4 DEF DownloadRange
    <3> QED
      BY <1>0, <1>1, <2>1, <2>4, <3>1 DEF Build, Covered, Inside, Within
  <2> QED
    BY <1>1, <2>2, <2>3, <2>4 DEF Build
<1>2. ASSUME NEW end \in Int, current <= end, end < in.total, Add(end),
             pc \in {"pieces", "even"}
      PROVE  Covered'
  <2>1. /\ ranges' = Append(ranges, DownloadRange(current, end)) /\ current' = end + 1 /\ in' = in
        /\ pc' = (IF end + 1 >= in.total THEN "done" ELSE pc)
    BY <1>2 DEF Add
  <2>2. /\ Len(ranges') = Len(ranges) + 1
        /\ \A k \in 1..Len(ranges) : ranges'[k] = ranges[k]
        /\ ranges'[Len(ranges) + 1].first = current /\ ranges'[Len(ranges) + 1].last = end
    BY <1>0, <2>1 DEF DownloadRange, Ranges
  <2>3. Inside'
    BY <1>0, <1>2, <2>1, <2>2 DEF Covered, Inside
  <2> SUFFICES ASSUME NEW b \in in.start..(in.total - 1), pc' = "done" \/ b < current'
               PROVE  Within(b)'
    BY <2>1, <2>3 DEF Covered
  <2>4. b <= end
    BY <1>0, <1>2, <2>1
  <2>5. CASE b < current
    BY <1>0, <1>2, <2>2, <2>5 DEF Covered, Within
  <2>6. CASE current <= b
    BY <1>0, <2>2, <2>4, <2>6 DEF Within
  <2> QED
    BY <1>0, <2>5, <2>6
<1>3. CASE Piece
  <2>1. Smaller(current + in.pieceLength - 1, in.total - 1) \in current..(in.total - 1)
    BY <1>0, <1>3 DEF Piece, RangesInv, InLoop, Smaller, TypeOK
  <2> QED
    BY <1>0, <1>2, <1>3, <2>1 DEF Piece
<1>4. CASE Even
  <2> DEFINE end == IF Len(ranges) = n - 1 \/ current + chunk - 1 >= in.total - 1
                    THEN in.total - 1 ELSE current + chunk - 1
  <2>1. end \in current..(in.total - 1)
    BY <1>0, <1>4 DEF Even, RangesInv, InLoop, TypeOK
  <2>2. Add(end) /\ pc = "even"
    BY <1>4 DEF Even
  <2> HIDE DEF end
  <2> QED
    BY <1>0, <1>2, <2>1, <2>2
<1>5. CASE UNCHANGED vars
  BY <1>5 DEF vars, Covered, Inside, Within
<1> QED
  BY <1>1, <1>3, <1>4, <1>5 DEF Next

-----------------------------------------------------------------------------
(* SegmentedDownload: the invariant. *)

\* A download begins when the plan is made, and has one goroutine for each range.
Goroutine(s) == \E S : s \in [pc : S, urls : S, i : S, url : S]
ShapeInv ==
    /\ edits \in Nat
    /\ seg = <<>> => ~errC /\ edits = 0 /\ ~paused /\ result = None
    /\ seg # <<>> => /\ pc = "done" /\ ranges # <<>>
                     /\ DOMAIN seg = 1..Len(ranges) /\ \A k \in DOMAIN seg : Goroutine(seg[k])

\* A goroutine is over when its bytes are there or one has failed.
WholeInv ==
    /\ got \subseteq Bytes
    /\ \A k \in DOMAIN seg : At(k, "done") /\ ~errC =>
          ranges[k].first..ranges[k].last \subseteq got \cup leftOut
    /\ result # None => seg # <<>> /\ \A k \in DOMAIN seg : At(k, "done")
    /\ result = "ok" => ~errC
    /\ result = "error" => errC

\* The semaphore.
PlacesInv == seg # <<>> => IsFiniteSet(Running) /\ Cardinality(Running) <= Concurrency

\* The mirrors that the goroutines and the task hold are those of the task, and with mirrors
\* that all answer no request fails before a pause.
Own == {sourceURLs[i] : i \in 1..Len(sourceURLs)}
Fits(s) ==
    /\ s.pc \in {"idle", "begin", "switch"} => s.url = None
    /\ s.pc \in {"switch", "switched", "ask", "fetch", "retry"} => s.i \in Nat \ {0}
    /\ s.pc = "switched" => s.url \in Own \cup {None}
    /\ s.pc = "fetch" => s.url \in Own
Unharmed == ~paused /\ Own \subseteq Good
MirrorInv ==
    edits = 0 =>
       /\ sourceURLs \in MirrorLists /\ sourceIndex \in 1..Len(sourceURLs) /\ sourceURL \in Own
       /\ \A k \in DOMAIN seg : Fits(seg[k])
       /\ Unharmed => ~errC /\ \A k \in DOMAIN seg : seg[k].pc # "retry"

SegmentsInv == ShapeInv /\ WholeInv /\ PlacesInv /\ MirrorInv
PlanInv == RangesInv /\ OptionInv /\ Covered

-----------------------------------------------------------------------------
(* The plan. *)

\* A download makes its plan the way DownloadRanges does, and leaves it alone afterwards.
LEMMA PlanSteps == [DownloadNext]_allVars => [Next]_vars
BY DEF DownloadNext, Work, Plan, Spawn, Segment, Begin, Switch, SwitchURL, Ask, Fetch, NextMirror,
   Return, Pause, ChangeURI, allVars, vars, fetchVars

LEMMA PlanType ==
    ASSUME PlanInv
    PROVE  /\ in.start \in Nat /\ in.total \in Nat /\ in.split \in Int /\ in.maxConn \in Int
           /\ ranges \in Ranges /\ Len(ranges) \in Nat /\ Segments \in Nat \ {0}
BY SegmentsBound DEF PlanInv, RangesInv, TypeOK, Ranges, InputType

LEMMA RangeType ==
    ASSUME PlanInv, NEW k \in 1..Len(ranges)
    PROVE  /\ ranges[k].first \in Nat /\ ranges[k].last \in Nat
           /\ ranges[k].first..ranges[k].last \subseteq Bytes
<1>1. ranges[k] \in [first : Nat, last : Nat]
  BY EachRange DEF PlanInv, RangesInv, TypeOK
<1>2. in.start <= ranges[k].first /\ ranges[k].last < in.total
  BY DEF PlanInv, Covered, Inside
<1> QED
  BY <1>1, <1>2, PlanType DEF Bytes

LEMMA PlanDone ==
    ASSUME PlanInv, ShapeInv, seg # <<>>
    PROVE  ~Next /\ \A b \in Bytes : Within(b)
BY DEF ShapeInv, Next, Build, Piece, Even, PlanInv, Covered, Bytes

-----------------------------------------------------------------------------
(* What the steps of the goroutines have in common. *)

LEMMA MakeGoroutine ==
    ASSUME NEW a, NEW b, NEW c, NEW d
    PROVE  Goroutine([pc |-> a, urls |-> b, i |-> c, url |-> d])
<1> DEFINE S == {a, b, c, d}
<1>1. a \in S /\ b \in S /\ c \in S /\ d \in S
  OBVIOUS
<1> HIDE DEF S
<1> QED
  BY <1>1 DEF Goroutine

LEMMA StepMoves ==
    ASSUME NEW s, Goroutine(s), NEW a
    PROVE  /\ Goroutine([s EXCEPT !.pc = a])
           /\ [s EXCEPT !.pc = a].pc = a
           /\ [s EXCEPT !.pc = a].urls = s.urls
           /\ [s EXCEPT !.pc = a].i = s.i
           /\ [s EXCEPT !.pc = a].url = s.url
<1>1. PICK S : s \in [pc : S, urls : S, i : S, url : S]
  BY DEF Goroutine
<1> DEFINE T == S \cup {a}
<1>2. s \in [pc : T, urls : T, i : T, url : T] /\ a \in T
  BY <1>1
<1> HIDE DEF T
<1>3. [s EXCEPT !.pc = a] \in [pc : T, urls : T, i : T, url : T]
  BY <1>2
<1> QED
  BY <1>2, <1>3 DEF Goroutine

LEMMA OverType == Goroutine(Idle) /\ Goroutine(Over) /\ Over.pc = "done" /\ Idle.pc = "idle"
<1>1. Goroutine(Idle) /\ Idle.pc = "idle"
  BY MakeGoroutine DEF Idle
<1>2. Goroutine(Over) /\ Over.pc = "done"
  BY <1>1, StepMoves DEF Over
<1> QED
  BY <1>1, <1>2

\* Goroutine k alone moves, to a step.
Moves(k, step) ==
    /\ DOMAIN seg' = DOMAIN seg /\ \A j \in DOMAIN seg \ {k} : seg'[j] = seg[j]
    /\ Goroutine(seg'[k]) /\ seg'[k].pc = step

LEMMA GotoMoves ==
    ASSUME ShapeInv, NEW k \in DOMAIN seg, NEW step, Goto(k, step)
    PROVE  /\ Moves(k, step) /\ seg'[k].i = seg[k].i /\ seg'[k].urls = seg[k].urls
           /\ seg'[k].url = seg[k].url
<1> DEFINE s == [seg[k] EXCEPT !.pc = step]
<1>1. Goroutine(seg[k])
  BY DEF ShapeInv
<1>2. seg' = [seg EXCEPT ![k] = s]
  BY DEF Goto
<1>3. Goroutine(s) /\ s.pc = step /\ s.i = seg[k].i /\ s.urls = seg[k].urls /\ s.url = seg[k].url
  BY <1>1, StepMoves
<1> HIDE DEF s
<1> QED
  BY <1>2, <1>3 DEF Moves

LEMMA SegmentMoves ==
    ASSUME ShapeInv, NEW k \in DOMAIN seg
    PROVE  /\ Begin(k) => /\ Moves(k, "switch") /\ seg'[k].urls = sourceURLs
                          /\ seg'[k].i = IF sourceIndex <= Len(sourceURLs)
                                          THEN sourceIndex ELSE 1
                          /\ seg'[k].url = seg[k].url
           /\ Switch(k) => /\ Moves(k, "switched")
                           /\ seg'[k].i = seg[k].i /\ seg'[k].urls = seg[k].urls
                           /\ seg'[k].url = IF seg[k].i <= Len(sourceURLs)
                                             THEN sourceURLs[seg[k].i] ELSE seg[k].url
           /\ SwitchURL(k) => Moves(k, "ask") /\ seg'[k].i = seg[k].i
           /\ Ask(k) => Moves(k, "fetch") /\ seg'[k].i = seg[k].i /\ seg'[k].url = sourceURL
           /\ Fetch(k) => \/ Moves(k, "done")
                          \/ /\ Moves(k, "retry") /\ (~Answered(k) \/ Cancelled)
                             /\ seg'[k].i = seg[k].i
           /\ NextMirror(k) => \/ /\ Moves(k, "done") /\ errC'
                                  /\ Cancelled \/ seg[k].i >= Len(seg[k].urls)
                               \/ /\ Moves(k, "switch") /\ ~Cancelled /\ errC' = errC
                                  /\ seg[k].i < Len(seg[k].urls)
                                  /\ seg'[k].i = seg[k].i + 1 /\ seg'[k].url = None
<1>1. Goroutine(seg[k])
  BY DEF ShapeInv
<1>2. Goroutine(Over) /\ Over.pc = "done"
  BY OverType
<1>3. ASSUME NEW s, Goroutine(s), seg' = [seg EXCEPT ![k] = s]
      PROVE  Moves(k, s.pc) /\ seg'[k] = s
  BY <1>3 DEF Moves
<1>4. ASSUME Begin(k)
      PROVE  /\ Moves(k, "switch") /\ seg'[k].urls = sourceURLs
             /\ seg'[k].i = IF sourceIndex <= Len(sourceURLs) THEN sourceIndex ELSE 1
             /\ seg'[k].url = seg[k].url
  <2> DEFINE i == IF sourceIndex <= Len(sourceURLs) THEN sourceIndex ELSE 1
             s == [seg[k] EXCEPT !.urls = sourceURLs, !.pc = "switch", !.i = i]
  <2>1. seg' = [seg EXCEPT ![k] = s]
    BY <1>4 DEF Begin
  <2>2. Goroutine(s) /\ s.pc = "switch" /\ s.urls = sourceURLs /\ s.i = i /\ s.url = seg[k].url
    <3>1. PICK S : seg[k] \in [pc : S, urls : S, i : S, url : S]
      BY <1>1 DEF Goroutine
    <3> DEFINE T == S \cup {sourceURLs, i, "switch"}
    <3>2. /\ seg[k] \in [pc : T, urls : T, i : T, url : T]
          /\ sourceURLs \in T /\ i \in T /\ "switch" \in T
      BY <3>1
    <3> HIDE DEF i, T
    <3>3. s \in [pc : T, urls : T, i : T, url : T]
      BY <3>2
    <3> QED
      BY <3>2, <3>3 DEF Goroutine
  <2> HIDE DEF s
  <2> QED
    BY <1>3, <2>1, <2>2
<1>5. ASSUME NEW step, Goto(k, step)
      PROVE  /\ Moves(k, step) /\ seg'[k].i = seg[k].i /\ seg'[k].urls = seg[k].urls
             /\ seg'[k].url = seg[k].url
  BY <1>5, GotoMoves
<1>6. ASSUME Switch(k)
      PROVE  /\ Moves(k, "switched") /\ seg'[k].i = seg[k].i /\ seg'[k].urls = seg[k].urls
             /\ seg'[k].url = IF seg[k].i <= Len(sourceURLs)
                               THEN sourceURLs[seg[k].i] ELSE seg[k].url
  <2>1. CASE seg[k].i <= Len(sourceURLs)
    <3> DEFINE s == [seg[k] EXCEPT !.pc = "switched", !.url = sourceURLs[seg[k].i]]
    <3>1. seg' = [seg EXCEPT ![k] = s]
      BY <1>6, <2>1 DEF Switch
    <3>2. /\ Goroutine(s) /\ s.pc = "switched" /\ s.i = seg[k].i /\ s.urls = seg[k].urls
          /\ s.url = sourceURLs[seg[k].i]
      <4>1. PICK S : seg[k] \in [pc : S, urls : S, i : S, url : S]
        BY <1>1 DEF Goroutine
      <4> DEFINE u == sourceURLs[seg[k].i]
                 T == S \cup {u, "switched"}
      <4>2. seg[k] \in [pc : T, urls : T, i : T, url : T] /\ u \in T /\ "switched" \in T
        BY <4>1
      <4> HIDE DEF u, T
      <4>3. s \in [pc : T, urls : T, i : T, url : T]
        BY <4>2 DEF u
      <4> QED
        BY <4>2, <4>3 DEF Goroutine, u
    <3> HIDE DEF s
    <3> QED
      BY <1>3, <2>1, <3>1, <3>2
  <2>2. CASE ~(seg[k].i <= Len(sourceURLs))
    BY <1>5, <1>6, <2>2 DEF Switch
  <2> QED
    BY <2>1, <2>2
<1>7. ASSUME seg' = [seg EXCEPT ![k] = Over] PROVE Moves(k, "done")
  BY <1>2, <1>3, <1>7
<1>8. ASSUME Fetch(k)
      PROVE  \/ Moves(k, "done")
             \/ /\ Moves(k, "retry") /\ (~Answered(k) \/ Cancelled)
                /\ seg'[k].i = seg[k].i
  <2>1. CASE seg' = [seg EXCEPT ![k] = Over]
    BY <1>7, <2>1
  <2>2. CASE Goto(k, "retry") /\ (~Answered(k) \/ Cancelled)
    BY <1>5, <2>2
  <2> QED
    BY <1>8, <2>1, <2>2 DEF Fetch
<1>9. ASSUME NextMirror(k)
      PROVE  \/ /\ Moves(k, "done") /\ errC'
                /\ Cancelled \/ seg[k].i >= Len(seg[k].urls)
             \/ /\ Moves(k, "switch") /\ ~Cancelled /\ errC' = errC
                /\ seg[k].i < Len(seg[k].urls)
                /\ seg'[k].i = seg[k].i + 1 /\ seg'[k].url = None
  <2>0. \/ /\ seg' = [seg EXCEPT ![k].i = @ + 1, ![k].pc = "switch", ![k].url = None]
           /\ ~Cancelled /\ errC' = errC /\ seg[k].i < Len(seg[k].urls)
        \/ /\ seg' = [seg EXCEPT ![k] = Over] /\ errC'
           /\ Cancelled \/ seg[k].i >= Len(seg[k].urls)
    BY <1>9 DEF NextMirror
  <2>1. ASSUME seg' = [seg EXCEPT ![k].i = @ + 1, ![k].pc = "switch", ![k].url = None]
        PROVE  Moves(k, "switch") /\ seg'[k].i = seg[k].i + 1 /\ seg'[k].url = None
    <3> DEFINE i == seg[k].i + 1
               s == [seg[k] EXCEPT !.i = i, !.pc = "switch", !.url = None]
    <3>1. seg' = [seg EXCEPT ![k] = s]
      BY <2>1
    <3>2. Goroutine(s) /\ s.pc = "switch" /\ s.i = i /\ s.url = None
      <4>1. PICK S : seg[k] \in [pc : S, urls : S, i : S, url : S]
        BY <1>1 DEF Goroutine
      <4> DEFINE T == S \cup {i, "switch", None}
      <4>2. /\ seg[k] \in [pc : T, urls : T, i : T, url : T]
            /\ i \in T /\ "switch" \in T /\ None \in T
        BY <4>1
      <4> HIDE DEF i, T
      <4>3. s \in [pc : T, urls : T, i : T, url : T]
        BY <4>2
      <4> QED
        BY <4>2, <4>3 DEF Goroutine
    <3> HIDE DEF s
    <3> QED
      BY <1>3, <3>1, <3>2
  <2> QED
    BY <1>7, <2>0, <2>1
<1>10. SwitchURL(k) => Goto(k, "ask")
  BY DEF SwitchURL
<1>11. ASSUME Ask(k) PROVE Moves(k, "fetch") /\ seg'[k].i = seg[k].i /\ seg'[k].url = sourceURL
  <2> DEFINE s == [seg[k] EXCEPT !.pc = "fetch", !.url = sourceURL]
  <2>1. seg' = [seg EXCEPT ![k] = s]
    BY <1>11 DEF Ask
  <2>2. Goroutine(s) /\ s.pc = "fetch" /\ s.i = seg[k].i /\ s.url = sourceURL
    <3>1. PICK S : seg[k] \in [pc : S, urls : S, i : S, url : S]
      BY <1>1 DEF Goroutine
    <3> DEFINE T == S \cup {sourceURL, "fetch"}
    <3>2. seg[k] \in [pc : T, urls : T, i : T, url : T] /\ sourceURL \in T /\ "fetch" \in T
      BY <3>1
    <3> HIDE DEF T
    <3>3. s \in [pc : T, urls : T, i : T, url : T]
      BY <3>2
    <3>4. s.pc = "fetch" /\ s.i = seg[k].i /\ s.url = sourceURL
      BY <3>2
    <3> HIDE DEF s
    <3> QED
      BY <3>3, <3>4 DEF Goroutine
  <2> HIDE DEF s
  <2> QED
    BY <1>3, <2>1, <2>2
<1> QED
  BY <1>4, <1>5, <1>6, <1>8, <1>9, <1>10, <1>11

\* The goroutines that run do so before the download returns; one that makes a step is
\* one of them, and no other begins.
SegmentKeeps(k) ==
    /\ seg # <<>> /\ k \in Running /\ Running' \subseteq Running /\ result = None
    /\ \A j \in DOMAIN seg \ {k} : seg'[j] = seg[j]
    /\ DOMAIN seg' = DOMAIN seg /\ Goroutine(seg'[k])
    /\ UNCHANGED <<vars, sourceURLs, edits, paused, result>>

LEMMA SegmentFrame ==
    ASSUME SegmentsInv, NEW k \in DOMAIN seg, Segment(k)
    PROVE  SegmentKeeps(k)
<1>0. ShapeInv /\ WholeInv /\ seg # <<>>
  BY DEF SegmentsInv, ShapeInv
<1>1. PICK step : Moves(k, step)
  <2>1. CASE Begin(k)
    BY <1>0, <2>1, SegmentMoves
  <2>2. CASE Switch(k)
    BY <1>0, <2>2, SegmentMoves
  <2>3. CASE SwitchURL(k)
    BY <1>0, <2>3, SegmentMoves
  <2>4. CASE Fetch(k)
    BY <1>0, <2>4, SegmentMoves
  <2>5. CASE NextMirror(k)
    BY <1>0, <2>5, SegmentMoves
  <2>6. CASE Ask(k)
    BY <1>0, <2>6, SegmentMoves
  <2> QED
    BY <2>1, <2>2, <2>3, <2>4, <2>5, <2>6 DEF Segment
<1>2. seg[k].pc \in {"begin", "switch", "switched", "ask", "fetch", "retry"}
  BY DEF Segment, Begin, Switch, SwitchURL, Ask, Fetch, NextMirror, At
<1>3. k \in Running /\ ~At(k, "done")
  BY <1>2 DEF Running, At
<1>4. result = None
  BY <1>0, <1>3 DEF WholeInv
<1>5. Running' \subseteq Running
  <2> SUFFICES ASSUME NEW j \in Running' PROVE j \in Running
    OBVIOUS
  <2>1. j \in DOMAIN seg
    BY <1>1 DEF Running, Moves
  <2> QED
    BY <1>1, <1>3, <2>1 DEF Running, Moves
<1>6. UNCHANGED <<vars, sourceURLs, edits, paused, result>>
  <2>1. CASE Begin(k)
    BY <2>1 DEF Begin, vars, mirrorVars
  <2>2. CASE Switch(k)
    BY <2>2 DEF Switch, vars, mirrorVars
  <2>3. CASE SwitchURL(k)
    BY <2>3 DEF SwitchURL, vars, mirrorVars
  <2>4. CASE Fetch(k)
    BY <2>4 DEF Fetch, vars, mirrorVars
  <2>5. CASE NextMirror(k)
    BY <2>5 DEF NextMirror, vars, mirrorVars
  <2>6. CASE Ask(k)
    BY <2>6 DEF Ask, vars, mirrorVars
  <2> QED
    BY <2>1, <2>2, <2>3, <2>4, <2>5, <2>6 DEF Segment
<1> QED
  BY <1>0, <1>1, <1>3, <1>4, <1>5, <1>6 DEF Moves, SegmentKeeps

-----------------------------------------------------------------------------
(* The invariant, part by part. *)

LEMMA SegmentShape ==
    ASSUME SegmentsInv, NEW k \in DOMAIN seg, SegmentKeeps(k)
    PROVE  ShapeInv'
<1>0. ShapeInv /\ vars' = vars /\ edits' = edits
  BY DEF SegmentsInv, SegmentKeeps, vars
<1>1. DOMAIN seg' = 1..Len(ranges) /\ ranges' = ranges /\ pc' = pc
  BY <1>0 DEF ShapeInv, SegmentKeeps, vars
<1>2. \A j \in DOMAIN seg' : Goroutine(seg'[j])
  BY <1>0 DEF ShapeInv, SegmentKeeps
<1>3. seg' # <<>>
  BY DEF SegmentKeeps
<1> QED
  BY <1>0, <1>1, <1>2, <1>3 DEF ShapeInv, SegmentKeeps

LEMMA PlacesType ==
    ASSUME PlanInv, ShapeInv, seg # <<>>
    PROVE  Concurrency \in Nat \ {0}
BY PlanType DEF Concurrency, Smaller, ShapeInv, PlanInv, RangesInv, TypeOK, Ranges

LEMMA SegmentPlaces ==
    ASSUME PlanInv, SegmentsInv, NEW k \in DOMAIN seg, SegmentKeeps(k)
    PROVE  PlacesInv'
<1>0. /\ IsFiniteSet(Running) /\ Cardinality(Running) <= Concurrency
      /\ Concurrency \in Nat /\ Concurrency' = Concurrency
  BY PlacesType DEF SegmentsInv, PlacesInv, SegmentKeeps, vars, Concurrency, Segments
<1>1. Running' \in SUBSET Running
  BY DEF SegmentKeeps
<1>2. IsFiniteSet(Running') /\ Cardinality(Running') <= Cardinality(Running)
  BY <1>0, <1>1, FS_Subset
<1>3. Cardinality(Running) \in Nat /\ Cardinality(Running') \in Nat
  BY <1>0, <1>2, FS_CardinalityType
<1> QED
  BY <1>0, <1>2, <1>3 DEF PlacesInv

LEMMA SegmentWhole ==
    ASSUME PlanInv, SegmentsInv, NEW k \in DOMAIN seg, Segment(k)
    PROVE  WholeInv'
<1>0. ShapeInv /\ WholeInv /\ SegmentKeeps(k)
  BY SegmentFrame DEF SegmentsInv
<1>1. /\ k \in 1..Len(ranges) /\ in' = in /\ ranges' = ranges
  BY <1>0 DEF ShapeInv, SegmentKeeps, vars
<1>2. ranges[k].first \in Nat /\ ranges[k].last \in Nat /\ ranges[k].first..ranges[k].last \subseteq Bytes
  BY <1>1, RangeType
<1>3. got \subseteq got' /\ leftOut \subseteq leftOut' /\ got' \subseteq Bytes
  <2>1. CASE Fetch(k)
    <3>1. PICK last \in (ranges[k].first - 1)..(IF ranges[k].first = 0 THEN in.total - 1
                                                                      ELSE ranges[k].last) :
             got' = got \cup ranges[k].first..last
      BY <2>1 DEF Fetch, Receive
    <3>2. leftOut \subseteq leftOut'
      BY <2>1 DEF Fetch
    <3>3. in.start <= ranges[k].first /\ ranges[k].last < in.total
      BY <1>1 DEF PlanInv, Covered, Inside
    <3>4. ranges[k].first..last \subseteq Bytes
      BY <1>2, <3>1, <3>3, PlanType DEF Bytes
    <3> QED
      BY <1>0, <3>1, <3>2, <3>4 DEF WholeInv
  <2>2. CASE ~Fetch(k)
    BY <1>0, <2>2 DEF Segment, Begin, Switch, SwitchURL, Ask, NextMirror, WholeInv
  <2> QED
    BY <2>1, <2>2
<1>4. errC => errC'
  BY DEF Segment, Begin, Switch, SwitchURL, Ask, Fetch, NextMirror
<1>5. ASSUME At(k, "done")', ~errC'
      PROVE  ranges[k].first..ranges[k].last \subseteq got' \cup leftOut'
  <2>0. seg'[k].pc = "done"
    BY <1>5 DEF At
  <2>1. CASE Begin(k)
    BY <1>0, <2>0, <2>1, SegmentMoves DEF Moves
  <2>2. CASE Switch(k)
    BY <1>0, <2>0, <2>2, SegmentMoves DEF Moves
  <2>3. CASE SwitchURL(k)
    BY <1>0, <2>0, <2>3, SegmentMoves DEF Moves
  <2>4. CASE Fetch(k)
    <3>1. ~Goto(k, "retry")
      BY <1>0, <2>0, GotoMoves DEF Moves
    <3>2. PICK last \in (ranges[k].first - 1)..(IF ranges[k].first = 0 THEN in.total - 1
                                                                      ELSE ranges[k].last) :
             /\ got' = got \cup ranges[k].first..last
             /\ leftOut' = leftOut \cup (last + 1)..ranges[k].last
      BY <2>4, <3>1 DEF Fetch, Receive
    <3> QED
      BY <1>2, <3>2, PlanType
  <2>5. CASE NextMirror(k)
    BY <1>0, <1>5, <2>0, <2>5, SegmentMoves DEF Moves
  <2>6. CASE Ask(k)
    BY <1>0, <2>0, <2>6, SegmentMoves DEF Moves
  <2> QED
    BY <2>1, <2>2, <2>3, <2>4, <2>5, <2>6 DEF Segment
<1>6. \A j \in DOMAIN seg' : At(j, "done")' /\ ~errC' =>
         ranges'[j].first..ranges'[j].last \subseteq got' \cup leftOut'
  <2> SUFFICES ASSUME NEW j \in DOMAIN seg, At(j, "done")', ~errC'
               PROVE  ranges[j].first..ranges[j].last \subseteq got' \cup leftOut'
    BY <1>0, <1>1 DEF SegmentKeeps
  <2>1. CASE j = k
    BY <1>5, <2>1
  <2>2. CASE j # k
    BY <1>0, <1>3, <1>4, <2>2 DEF SegmentKeeps, At, WholeInv
  <2> QED
    BY <2>1, <2>2
<1>7. Bytes' = Bytes
  BY <1>1 DEF Bytes
<1>8. result' = None
  BY <1>0 DEF SegmentKeeps
<1>9. ~(result' # None) /\ result' # "ok" /\ result' # "error"
  BY <1>8, MirrorAssumption
<1> QED
  BY <1>3, <1>6, <1>7, <1>9 DEF WholeInv

LEMMA MirrorType ==
    ASSUME sourceURLs \in MirrorLists
    PROVE  Len(sourceURLs) \in Nat \ {0} /\ DOMAIN sourceURLs = 1..Len(sourceURLs)
BY MirrorAssumption

LEMMA SegmentMirrors ==
    ASSUME PlanInv, SegmentsInv, NEW k \in DOMAIN seg, Segment(k)
    PROVE  MirrorInv'
<1>0. ShapeInv /\ MirrorInv /\ SegmentKeeps(k)
  BY SegmentFrame DEF SegmentsInv
<1> SUFFICES ASSUME edits = 0 PROVE MirrorInv'
  BY <1>0 DEF MirrorInv, SegmentKeeps
<1>1. /\ sourceURLs \in MirrorLists /\ sourceURLs' = sourceURLs
      /\ Len(sourceURLs) \in Nat \ {0} /\ sourceIndex \in 1..Len(sourceURLs)
      /\ sourceURL \in Own /\ Own' = Own /\ Unharmed' = Unharmed
  BY <1>0, MirrorType DEF MirrorInv, SegmentKeeps, Own, Unharmed
<1>2. /\ \A j \in DOMAIN seg : Fits(seg[j])
      /\ Unharmed => ~errC /\ \A j \in DOMAIN seg : seg[j].pc # "retry"
  BY <1>0 DEF MirrorInv
\* What is asked of the step.
<1> DEFINE Goal ==
       /\ sourceIndex' \in 1..Len(sourceURLs) /\ sourceURL' \in Own
       /\ seg'[k].pc \in {"idle", "begin", "switch"} => seg'[k].url = None
       /\ seg'[k].pc \in {"switch", "switched", "ask", "fetch", "retry"} => seg'[k].i \in Nat \ {0}
       /\ seg'[k].pc = "switched" => seg'[k].url \in Own \cup {None}
       /\ seg'[k].pc = "fetch" => seg'[k].url \in Own
       /\ Unharmed => ~errC' /\ seg'[k].pc # "retry"
<1>4. ASSUME Goal PROVE MirrorInv'
  <2>1. ASSUME NEW j \in DOMAIN seg' PROVE Fits(seg[j])'
    <3>1. CASE j = k
      BY <1>1, <1>4, <3>1 DEF Fits
    <3>2. CASE j # k
      BY <1>0, <1>1, <1>2, <3>2 DEF Fits, SegmentKeeps
    <3> QED
      BY <3>1, <3>2
  <2>2. Unharmed => ~errC' /\ \A j \in DOMAIN seg' : seg'[j].pc # "retry"
    BY <1>0, <1>2, <1>4 DEF SegmentKeeps
  <2> QED
    BY <1>1, <1>4, <2>1, <2>2 DEF MirrorInv
<1>5. CASE Begin(k)
  <2>1. errC' = errC /\ sourceIndex' = sourceIndex /\ sourceURL' = sourceURL /\ seg[k].pc = "begin"
    BY <1>5 DEF Begin, mirrorVars, At
  <2>2. seg'[k].pc = "switch" /\ seg'[k].i = sourceIndex /\ seg'[k].url = seg[k].url
    BY <1>0, <1>1, <1>5, SegmentMoves DEF Moves
  <2> QED
    BY <1>1, <1>2, <1>4, <2>1, <2>2 DEF Fits
<1>6. CASE Switch(k)
  <2>1. errC' = errC /\ sourceURL' = sourceURL /\ seg[k].pc = "switch"
    BY <1>6 DEF Switch, At
  <2>2. /\ seg'[k].pc = "switched" /\ seg'[k].i = seg[k].i
        /\ seg'[k].url = IF seg[k].i <= Len(sourceURLs) THEN sourceURLs[seg[k].i] ELSE seg[k].url
    BY <1>0, <1>6, SegmentMoves DEF Moves
  <2>3. sourceIndex' = IF seg[k].i <= Len(sourceURLs) THEN seg[k].i ELSE sourceIndex
    BY <1>6 DEF Switch
  <2>4. seg[k].i \in Nat \ {0} /\ seg[k].url = None
    BY <1>2, <2>1 DEF Fits
  <2>5. seg'[k].url \in Own \cup {None} /\ sourceIndex' \in 1..Len(sourceURLs)
    BY <1>1, <2>2, <2>3, <2>4 DEF Own
  <2> QED
    BY <1>1, <1>2, <1>4, <2>1, <2>2, <2>4, <2>5
<1>7. CASE SwitchURL(k)
  <2>1. /\ errC' = errC /\ sourceIndex' = sourceIndex /\ seg[k].pc = "switched"
        /\ sourceURL' = IF seg[k].url = None THEN sourceURL ELSE seg[k].url
    BY <1>7 DEF SwitchURL, At
  <2>2. seg'[k].pc = "ask" /\ seg'[k].i = seg[k].i
    BY <1>0, <1>7, SegmentMoves DEF Moves
  <2> QED
    BY <1>1, <1>2, <1>4, <2>1, <2>2 DEF Fits
<1>8. CASE Ask(k)
  <2>1. errC' = errC /\ sourceIndex' = sourceIndex /\ sourceURL' = sourceURL /\ seg[k].pc = "ask"
    BY <1>8 DEF Ask, mirrorVars, At
  <2>2. seg'[k].pc = "fetch" /\ seg'[k].i = seg[k].i /\ seg'[k].url = sourceURL
    BY <1>0, <1>8, SegmentMoves DEF Moves
  <2> QED
    BY <1>1, <1>2, <1>4, <2>1, <2>2 DEF Fits
<1>9. CASE Fetch(k)
  <2>1. errC' = errC /\ sourceIndex' = sourceIndex /\ sourceURL' = sourceURL /\ seg[k].pc = "fetch"
    BY <1>9 DEF Fetch, mirrorVars, At
  <2>2. \/ seg'[k].pc = "done"
        \/ seg'[k].pc = "retry" /\ (~Answered(k) \/ Cancelled) /\ seg'[k].i = seg[k].i
    BY <1>0, <1>9, SegmentMoves DEF Moves
  <2>3. Unharmed => Answered(k) /\ ~Cancelled
    BY <1>2, <2>1 DEF Unharmed, Fits, Answered, Cancelled
  <2> QED
    BY <1>1, <1>2, <1>4, <2>1, <2>2, <2>3 DEF Fits
<1>10. CASE NextMirror(k)
  <2>1. sourceIndex' = sourceIndex /\ sourceURL' = sourceURL /\ seg[k].pc = "retry"
    BY <1>10 DEF NextMirror, mirrorVars, At
  <2>2. ~Unharmed /\ seg[k].i \in Nat \ {0}
    BY <1>2, <2>1 DEF Fits
  <2>3. \/ seg'[k].pc = "done"
        \/ seg'[k].pc = "switch" /\ seg'[k].i = seg[k].i + 1 /\ seg'[k].url = None
    BY <1>0, <1>10, SegmentMoves DEF Moves
  <2> QED
    BY <1>1, <1>4, <2>1, <2>2, <2>3
<1> QED
  BY <1>5, <1>6, <1>7, <1>8, <1>9, <1>10 DEF Segment

-----------------------------------------------------------------------------
(* The other steps. *)

LEMMA PlanKeeps ==
    ASSUME PlanInv, SegmentsInv, Plan
    PROVE  SegmentsInv'
<1>0. ShapeInv /\ WholeInv /\ MirrorInv
  BY DEF SegmentsInv
<1>1. Next /\ UNCHANGED <<sourceURLs, sourceIndex, sourceURL, edits, seg, got, errC, paused, result>>
  BY DEF Plan, mirrorVars, fetchVars
<1>2. seg = <<>> /\ DOMAIN seg = {}
  BY <1>0, <1>1, PlanDone
<1>3. in' = in
  BY <1>1 DEF Next, Build, Piece, Even, Add
<1>4. ShapeInv'
  BY <1>0, <1>1, <1>2 DEF ShapeInv
<1>5. WholeInv'
  BY <1>0, <1>1, <1>2, <1>3 DEF WholeInv, Bytes
<1>6. PlacesInv' /\ MirrorInv'
  BY <1>0, <1>1, <1>2 DEF PlacesInv, MirrorInv, Own, Unharmed, Fits
<1> QED
  BY <1>4, <1>5, <1>6 DEF SegmentsInv

LEMMA SpawnKeeps ==
    ASSUME PlanInv, SegmentsInv, Spawn
    PROVE  SegmentsInv'
<1>0. ShapeInv /\ WholeInv /\ PlacesInv /\ MirrorInv
  BY DEF SegmentsInv
<1>1. /\ pc = "done" /\ ranges # <<>> /\ result = None
      /\ UNCHANGED <<in, pc, ranges, sourceURLs, sourceIndex, sourceURL, edits, got, leftOut, errC,
                     paused, result>>
  BY DEF Spawn, Fetching, vars, mirrorVars
<1>2. result' # "ok" /\ result' # "error" /\ ~(result' # None)
  BY <1>1, MirrorAssumption
<1>3. ranges \in Ranges /\ Len(ranges) \in Nat \ {0}
  BY <1>1, PlanType DEF Ranges
<1>4. Concurrency' = Concurrency /\ Bytes' = Bytes
  BY <1>1 DEF Concurrency, Segments, Bytes
<1>5. CASE seg = <<>> /\ seg' = [k \in 1..Len(ranges) |-> Idle]
  <2>1. DOMAIN seg' = 1..Len(ranges) /\ \A k \in DOMAIN seg' : seg'[k] = Idle
    BY <1>5
  <2>2. Goroutine(Idle) /\ Idle.pc = "idle"
    BY OverType
  <2>3. Running' = {} /\ \A k \in DOMAIN seg' : ~At(k, "done")'
    BY <2>1, <2>2 DEF Running, At
  <2>4. ShapeInv'
    BY <1>0, <1>1, <1>3, <1>5, <2>1, <2>2 DEF ShapeInv
  <2>5. WholeInv'
    BY <1>0, <1>1, <1>2, <1>4, <2>3 DEF WholeInv
  <2>6. PlacesInv'
    <3>1. Concurrency \in Nat \ {0}
      BY <1>1, <1>3, PlanType DEF Concurrency, Smaller
    <3> QED
      BY <1>4, <2>3, <3>1, FS_EmptySet DEF PlacesInv
  <2>7. MirrorInv'
    <3>1. \A k \in DOMAIN seg' : Fits(seg[k])' /\ seg'[k].pc # "retry"
      BY <2>1 DEF Idle, Fits
    <3>2. Own' = Own /\ Unharmed' = Unharmed
      BY <1>1 DEF Own, Unharmed
    <3> QED
      BY <1>0, <1>1, <3>1, <3>2 DEF MirrorInv
  <2> QED
    BY <2>4, <2>5, <2>6, <2>7 DEF SegmentsInv
<1>6. ASSUME NEW k \in DOMAIN seg, At(k, "idle"), Cardinality(Running) < Concurrency,
             Goto(k, "begin")
      PROVE  SegmentsInv'
  <2>0. seg # <<>> /\ k \in 1..Len(ranges)
    BY <1>0, <1>6 DEF ShapeInv
  <2>1. Moves(k, "begin")
    BY <1>0, <1>6, GotoMoves
  <2>2. Running' = Running \cup {k} /\ k \notin Running
    BY <1>6, <2>1 DEF Running, Moves, At
  <2>3. ShapeInv'
    BY <1>0, <1>1, <2>0, <2>1 DEF ShapeInv, Moves
  <2>4. WholeInv'
    <3>1. \A j \in DOMAIN seg' : At(j, "done")' => At(j, "done")
      BY <2>1 DEF Moves, At
    <3> QED
      BY <1>0, <1>1, <1>2, <1>4, <2>1, <3>1 DEF WholeInv, Moves
  <2>5. PlacesInv'
    <3>1. IsFiniteSet(Running) /\ Cardinality(Running) \in Nat /\ Concurrency \in Nat
      BY <1>0, <2>0, FS_CardinalityType, PlacesType DEF PlacesInv
    <3>2. IsFiniteSet(Running') /\ Cardinality(Running') = Cardinality(Running) + 1
      BY <2>2, <3>1, FS_AddElement
    <3> QED
      BY <1>4, <1>6, <3>1, <3>2 DEF PlacesInv
  <2>6. MirrorInv'
    <3>1. Own' = Own /\ Unharmed' = Unharmed
      BY <1>1 DEF Own, Unharmed
    <3>2. ASSUME edits = 0, NEW j \in DOMAIN seg'
          PROVE  Fits(seg[j])' /\ (Unharmed => seg'[j].pc # "retry")
      <4>1. Fits(seg[j]) /\ (Unharmed => seg[j].pc # "retry")
        BY <1>0, <2>1, <3>2 DEF MirrorInv, Moves
      <4>2. CASE j = k
        BY <1>6, <2>1, <3>1, <4>1, <4>2, GotoMoves, <1>0 DEF Fits, Moves, At
      <4>3. CASE j # k
        BY <2>1, <3>1, <3>2, <4>1, <4>3 DEF Fits, Moves
      <4> QED
        BY <4>2, <4>3
    <3> QED
      BY <1>0, <1>1, <3>1, <3>2 DEF MirrorInv
  <2> QED
    BY <2>3, <2>4, <2>5, <2>6 DEF SegmentsInv
<1> QED
  BY <1>5, <1>6 DEF Spawn

\* What a step keeps that leaves the goroutines alone.
LEMMA StillKeeps ==
    ASSUME SegmentsInv, UNCHANGED <<vars, seg, got, leftOut, errC>>
    PROVE  /\ PlacesInv' /\ Running' = Running /\ Concurrency' = Concurrency /\ Bytes' = Bytes
           /\ \A k \in DOMAIN seg' : At(k, "done")' /\ ~errC' =>
                 ranges'[k].first..ranges'[k].last \subseteq got' \cup leftOut'
<1>1. Running' = Running /\ Concurrency' = Concurrency /\ Bytes' = Bytes
  BY DEF Running, Concurrency, Segments, Bytes, vars
<1>2. \A k \in DOMAIN seg : At(k, "done")' = At(k, "done")
  BY DEF At
<1>3. ranges' = ranges
  BY DEF vars
<1> QED
  BY <1>1, <1>2, <1>3 DEF SegmentsInv, PlacesInv, WholeInv

LEMMA MirrorsStill ==
    ASSUME SegmentsInv,
           UNCHANGED <<vars, sourceURLs, sourceIndex, sourceURL, edits, seg, got, errC, paused>>
    PROVE  MirrorInv'
<1>1. MirrorInv /\ Own' = Own /\ Unharmed' = Unharmed
  BY DEF SegmentsInv, Own, Unharmed
<1>2. \A k \in DOMAIN seg : Fits(seg[k])' = Fits(seg[k])
  BY <1>1 DEF Fits
<1> QED
  BY <1>1, <1>2 DEF MirrorInv

LEMMA ReturnKeeps ==
    ASSUME PlanInv, SegmentsInv, Return
    PROVE  SegmentsInv'
<1>0. ShapeInv /\ WholeInv /\ MirrorInv
  BY DEF SegmentsInv
<1>1. /\ seg # <<>> /\ \A k \in DOMAIN seg : At(k, "done")
      /\ result' = IF errC THEN "error" ELSE "ok"
      /\ UNCHANGED <<vars, in, pc, ranges, sourceURLs, sourceIndex, sourceURL, edits, seg, got,
                     leftOut, errC, paused>>
  BY DEF Return, vars, mirrorVars
<1>2. ShapeInv'
  BY <1>0, <1>1 DEF ShapeInv
<1>3. WholeInv' /\ PlacesInv'
  BY <1>0, <1>1, StillKeeps DEF WholeInv, At
<1>4. MirrorInv'
  BY <1>1, MirrorsStill
<1> QED
  BY <1>2, <1>3, <1>4 DEF SegmentsInv

LEMMA PauseKeeps ==
    ASSUME PlanInv, SegmentsInv, Pause
    PROVE  SegmentsInv'
<1>0. ShapeInv /\ WholeInv /\ MirrorInv
  BY DEF SegmentsInv
<1>1. /\ paused' = TRUE /\ Running # {}
      /\ UNCHANGED <<vars, in, pc, ranges, sourceURLs, sourceIndex, sourceURL, edits, seg, got,
                     leftOut, errC, result>>
  BY DEF Pause, vars, mirrorVars
<1>2. seg # <<>>
  BY <1>1 DEF Running
<1>3. ShapeInv'
  BY <1>0, <1>1, <1>2 DEF ShapeInv
<1>4. WholeInv' /\ PlacesInv'
  BY <1>0, <1>1, StillKeeps DEF WholeInv, At
<1>5. MirrorInv'
  BY <1>0, <1>1 DEF MirrorInv, Own, Unharmed, Fits
<1> QED
  BY <1>3, <1>4, <1>5 DEF SegmentsInv

LEMMA ChangeURIKeeps ==
    ASSUME PlanInv, SegmentsInv, ChangeURI
    PROVE  SegmentsInv'
<1>0. ShapeInv /\ WholeInv
  BY DEF SegmentsInv
<1>1. /\ edits' = edits + 1 /\ Running # {}
      /\ UNCHANGED <<vars, in, pc, ranges, seg, got, leftOut, errC, paused, result>>
  BY DEF ChangeURI, vars, fetchVars
<1>2. seg # <<>>
  BY <1>1 DEF Running
<1>3. ShapeInv'
  BY <1>0, <1>1, <1>2 DEF ShapeInv
<1>4. WholeInv' /\ PlacesInv'
  BY <1>0, <1>1, StillKeeps DEF WholeInv, At
<1>5. MirrorInv'
  BY <1>0, <1>1 DEF MirrorInv, ShapeInv
<1> QED
  BY <1>3, <1>4, <1>5 DEF SegmentsInv

LEMMA DownloadStart == DownloadInit => PlanInv /\ SegmentsInv
<1> SUFFICES ASSUME DownloadInit PROVE PlanInv /\ SegmentsInv
  OBVIOUS
<1>1. PlanInv
  BY Start, OptionStart, CoveredStart DEF DownloadInit, PlanInv
<1>2. /\ seg = <<>> /\ DOMAIN seg = {} /\ sourceURLs \in MirrorLists
      /\ sourceIndex \in DOMAIN sourceURLs /\ sourceURL = sourceURLs[sourceIndex]
      /\ edits = 0 /\ got = {} /\ ~errC /\ ~paused /\ result = None
  BY DEF DownloadInit
<1>3. result # "ok" /\ result # "error"
  BY <1>2, MirrorAssumption
<1>4. MirrorInv
  BY <1>2, MirrorType DEF MirrorInv, Own
<1> QED
  BY <1>1, <1>2, <1>3, <1>4 DEF SegmentsInv, ShapeInv, WholeInv, PlacesInv

LEMMA DownloadStep == PlanInv /\ SegmentsInv /\ [DownloadNext]_allVars => PlanInv' /\ SegmentsInv'
<1> SUFFICES ASSUME PlanInv, SegmentsInv, [DownloadNext]_allVars PROVE PlanInv' /\ SegmentsInv'
  OBVIOUS
<1>1. PlanInv'
  BY PlanSteps, Step, OptionStep, CoveredStep DEF PlanInv
<1>2. ASSUME NEW k \in DOMAIN seg, Segment(k) PROVE SegmentsInv'
  BY <1>2, SegmentFrame, SegmentShape, SegmentWhole, SegmentPlaces, SegmentMirrors
     DEF SegmentsInv
<1>3. CASE UNCHANGED allVars
  <2>1. /\ UNCHANGED <<vars, in, pc, ranges, sourceURLs, sourceIndex, sourceURL, edits, seg, got,
                       leftOut, errC, paused, result>>
    BY <1>3 DEF allVars, vars, mirrorVars, fetchVars
  <2>2. ShapeInv' /\ WholeInv' /\ PlacesInv'
    BY <2>1, StillKeeps DEF SegmentsInv, ShapeInv, WholeInv, At
  <2>3. MirrorInv'
    BY <2>1, MirrorsStill
  <2> QED
    BY <1>1, <2>2, <2>3 DEF SegmentsInv
<1> QED
  BY <1>1, <1>2, <1>3, PlanKeeps, SpawnKeeps, ReturnKeeps, PauseKeeps, ChangeURIKeeps
     DEF DownloadNext, Work

-----------------------------------------------------------------------------
(* The theorems. *)

LEMMA Limited == PlanInv /\ SegmentsInv => ConnectionsBounded
<1> SUFFICES ASSUME PlanInv, SegmentsInv, NEW limit \in {in.split, in.maxConn}, limit > 0
             PROVE  Cardinality(Running) <= limit
  BY DEF ConnectionsBounded
<1>1. CASE seg = <<>>
  <2>1. Running = {}
    BY <1>1 DEF Running
  <2> QED
    BY <2>1, FS_EmptySet, PlanType
<1>2. CASE seg # <<>>
  <2>1. IsFiniteSet(Running) /\ Cardinality(Running) <= Concurrency
    BY <1>2 DEF SegmentsInv, PlacesInv
  <2>2. Cardinality(Running) \in Nat
    BY <2>1, FS_CardinalityType
  <2>3. Concurrency \in Nat /\ Concurrency <= Segments
    BY <1>2, PlacesType, PlanType DEF SegmentsInv, Concurrency, Smaller
  <2>4. Segments <= limit
    BY SegmentsBound DEF PlanInv, RangesInv, TypeOK, InputType
  <2> QED
    BY <2>1, <2>2, <2>3, <2>4, PlanType
<1> QED
  BY <1>1, <1>2

LEMMA Whole == PlanInv /\ SegmentsInv => SuccessIsWhole
<1> SUFFICES ASSUME PlanInv, SegmentsInv, result = "ok", NEW b \in Bytes
             PROVE  b \in got \cup leftOut
  BY DEF SuccessIsWhole
<1>1. seg # <<>> /\ ~errC /\ \A k \in DOMAIN seg : At(k, "done")
  BY MirrorAssumption DEF SegmentsInv, WholeInv
<1>2. \A k \in 1..Len(ranges) : ranges[k].first..ranges[k].last \subseteq got \cup leftOut
  BY <1>1 DEF SegmentsInv, WholeInv, ShapeInv
<1>3. PICK k \in 1..Len(ranges) : ranges[k].first <= b /\ b <= ranges[k].last
  BY <1>1, PlanDone DEF SegmentsInv, Within
<1>4. b \in Int
  BY PlanType DEF Bytes
<1>5. b \in ranges[k].first..ranges[k].last
  BY <1>3, <1>4, RangeType
<1> QED
  BY <1>2, <1>5

LEMMA Caused == PlanInv /\ SegmentsInv => FailureHasCause
<1> SUFFICES ASSUME PlanInv, SegmentsInv, result = "error", edits = 0, ~paused
             PROVE  \E i \in DOMAIN sourceURLs : sourceURLs[i] \notin Good
  BY DEF FailureHasCause
<1>1. errC /\ sourceURLs \in MirrorLists /\ ~Unharmed
  BY MirrorAssumption DEF SegmentsInv, WholeInv, MirrorInv
<1>2. DOMAIN sourceURLs = 1..Len(sourceURLs)
  BY <1>1, MirrorType
<1> QED
  BY <1>1, <1>2 DEF Unharmed, Own

LEMMA DownloadSafe == DownloadSpec => [](PlanInv /\ SegmentsInv)
BY DownloadStart, DownloadStep, PTL DEF DownloadSpec

\* Whatever the resource, the options, the mirrors and the order in which the goroutines run:
\* the ranges that httpdl.BuildDownloadRanges makes, and the connections downloadChunked has
\* open at a time, stay within split, max-connection-per-server and min-split-size.
THEOREM OptionsAreRespected == DownloadSpec => []OptionsRespected
<1>1. PlanInv /\ SegmentsInv => OptionsRespected
  BY Limited DEF OptionsRespected, PlanInv, OptionInv
<1> QED
  BY <1>1, DownloadSafe, PTL

\* A segmented download that downloadChunked returns without an error has every byte it was
\* asked for and the answers had; and one that fails has been paused or has a mirror that does
\* not answer in full, however its goroutines share the mirror in use.
THEOREM OutcomeCorrect == DownloadSpec => []OutcomeIsTrue
<1>1. PlanInv /\ SegmentsInv => OutcomeIsTrue
  BY Whole, Caused DEF OutcomeIsTrue
<1> QED
  BY <1>1, DownloadSafe, PTL
==============================================================================
