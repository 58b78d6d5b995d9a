--------------------------- MODULE ManagerProofs ----------------------------
(***************************************************************************)
(* Theorems about what the manager has beside the life of its tasks: about  *)
(* EventBus for any number of emitters, connections and events, about       *)
(* Notifications for any number of goroutines and any calls that they make, *)
(* and about TaskQueue for any tasks, callers, positions and clock.         *)
(***************************************************************************)
EXTENDS ClientEvents, DownloadQueue, FiniteSetTheorems, SequenceTheorems, TLAPS

BusType  == subscribers \subseteq Conns /\ chan \in [Conns -> Seq(Events)]
EmitType == /\ emitPc \in [Actors -> {"idle", "lock", "send"}]
            /\ unsent \in [Actors -> SUBSET Conns] /\ emitted \in [Actors -> 0..EmitBound]
ConnType ==
    /\ taken \in [Conns -> Seq(Events)]
    /\ link \in [Conns -> {"up", "down"}] /\ cancelled \in [Conns -> BOOLEAN]
    /\ reader \in [Conns -> {"new", "subscribe", "read", "serve", "wait", "unsubscribe", "gone"}]
    /\ writer \in [Conns -> {"none", "select", "write", "done"}]

LEMMA TypeParts == TypeOK <=> BusType /\ EmitType /\ ConnType
BY DEF TypeOK, BusType, EmitType, ConnType

LEMMA EnterType ==
    ASSUME EmitType, NEW a \in Actors, Enter(a), unsent' = unsent
    PROVE  EmitType'
BY SizeAssumption DEF EmitType, Enter

LEMMA EmitStepType ==
    ASSUME TypeOK, NEW a \in Actors, Emit(a) \/ EmitStep(a)
    PROVE  TypeOK'
<1>0. BusType /\ EmitType /\ ConnType
  BY TypeParts
<1>1. CASE Emit(a)
  BY <1>0, <1>1, EnterType DEF Emit, busVars, connVars, BusType, EmitType, ConnType, TypeOK
<1>2. CASE EmitLock(a)
  BY <1>0, <1>2 DEF EmitLock, busVars, connVars, BusType, EmitType, ConnType, TypeOK
<1>3. ASSUME NEW c \in Conns, EmitSend(a, c) PROVE TypeOK'
  <2>1. chan[c] \in Seq(Events) /\ <<a, emitted[a]>> \in Events
    BY <1>0 DEF BusType, EmitType, Events
  <2>2. Append(chan[c], <<a, emitted[a]>>) \in Seq(Events)
    BY <2>1
  <2>3. chan' \in [Conns -> Seq(Events)]
    BY <1>0, <1>3, <2>2 DEF EmitSend, BusType
  <2>4. unsent' \in [Actors -> SUBSET Conns]
    BY <1>0, <1>3 DEF EmitSend, EmitType
  <2> QED
    BY <1>0, <1>3, <2>3, <2>4 DEF EmitSend, connVars, BusType, EmitType, ConnType, TypeOK
<1>4. CASE EmitUnlock(a)
  BY <1>0, <1>4 DEF EmitUnlock, busVars, connVars, BusType, EmitType, ConnType, TypeOK
<1> QED
  BY <1>1, <1>2, <1>3, <1>4 DEF EmitStep

LEMMA ReaderStepType ==
    ASSUME TypeOK, NEW c \in Conns,
           Connect(c) \/ Request(c) \/ PeerLeaves(c) \/ ReaderStep(c)
    PROVE  TypeOK'
<1>0. BusType /\ EmitType /\ ConnType
  BY TypeParts
<1>1. CASE Connect(c) \/ PeerLeaves(c)
  <2>1. ConnType'
    BY <1>0, <1>1 DEF Connect, PeerLeaves, To, ConnType
  <2> QED
    BY <1>0, <1>1, <2>1 DEF Connect, PeerLeaves, busVars, emitVars, BusType, EmitType,
       ConnType, TypeOK
<1>2. CASE Request(c)
  <2>1. EmitType'
    BY <1>0, <1>2, EnterType DEF Request, Actors
  <2> QED
    BY <1>0, <1>2, <2>1 DEF Request, To, busVars, BusType, EmitType, ConnType, TypeOK
<1>3. CASE Subscribe(c) \/ Unsubscribe(c)
  <2>1. ConnType'
    BY <1>0, <1>3 DEF Subscribe, Unsubscribe, To, ConnType
  <2> QED
    BY <1>0, <1>3, <2>1 DEF Subscribe, Unsubscribe, emitVars, BusType, EmitType, ConnType,
       TypeOK
<1>4. CASE Reply(c) \/ ReadFails(c) \/ Joined(c)
  <2>1. ConnType'
    BY <1>0, <1>4 DEF Reply, ReadFails, Joined, To, Broken, ConnType
  <2> QED
    BY <1>0, <1>4, <2>1 DEF Reply, ReadFails, Joined, busVars, emitVars, BusType, EmitType,
       ConnType, TypeOK
<1> QED
  BY <1>1, <1>2, <1>3, <1>4 DEF ReaderStep

LEMMA WriterStepType ==
    ASSUME TypeOK, NEW c \in Conns, WriterStep(c)
    PROVE  TypeOK'
<1>0. BusType /\ EmitType /\ ConnType
  BY TypeParts
<1>1. CASE Take(c)
  <2>1. /\ chan[c] \in Seq(Events) /\ chan[c] # <<>> /\ taken[c] \in Seq(Events)
    BY <1>0, <1>1 DEF Take, BusType, ConnType
  <2>2. Tail(chan[c]) \in Seq(Events) /\ Append(taken[c], Head(chan[c])) \in Seq(Events)
    BY <2>1
  <2>3. chan' \in [Conns -> Seq(Events)] /\ taken' \in [Conns -> Seq(Events)]
    BY <1>0, <1>1, <2>2 DEF Take, BusType, ConnType
  <2> QED
    BY <1>0, <1>1, <2>3 DEF Take, emitVars, BusType, EmitType, ConnType, TypeOK
<1>2. CASE WriterStops(c) \/ Write(c)
  <2>1. ConnType'
    BY <1>0, <1>2 DEF WriterStops, Write, Broken, ConnType
  <2> QED
    BY <1>0, <1>2, <2>1 DEF WriterStops, Write, busVars, emitVars, BusType, EmitType,
       ConnType, TypeOK
<1> QED
  BY <1>1, <1>2 DEF WriterStep

\* Every variable keeps its type.
THEOREM TypeCorrect == Spec => []TypeOK
<1>1. Init => TypeOK
  BY SizeAssumption DEF Init, TypeOK
<1>2. TypeOK /\ [Next]_vars => TypeOK'
  <2> SUFFICES ASSUME TypeOK, [Next]_vars PROVE TypeOK'
    OBVIOUS
  <2>1. CASE UNCHANGED vars
    BY <2>1 DEF vars, busVars, emitVars, connVars, TypeOK
  <2> QED
    BY <2>1, EmitStepType, ReaderStepType, WriterStepType DEF Next
<1> QED
  BY <1>1, <1>2, PTL DEF Spec

-----------------------------------------------------------------------------

LEMMA EmitKeepsOpen ==
    ASSUME TypeOK, NoSendOnClosed, NEW a \in Actors, Emit(a) \/ EmitStep(a)
    PROVE  NoSendOnClosed'
<1>1. CASE Emit(a)
  BY <1>1 DEF Emit, Enter, busVars, TypeOK, NoSendOnClosed
<1>2. CASE EmitLock(a)
  BY <1>2 DEF EmitLock, busVars, TypeOK, NoSendOnClosed
<1>3. CASE \E c \in Conns : EmitSend(a, c)
  BY <1>3 DEF EmitSend, TypeOK, NoSendOnClosed
<1>4. CASE EmitUnlock(a)
  BY <1>4 DEF EmitUnlock, busVars, TypeOK, NoSendOnClosed
<1> QED
  BY <1>1, <1>2, <1>3, <1>4 DEF EmitStep

LEMMA ConnKeepsOpen ==
    ASSUME TypeOK, NoSendOnClosed, NEW c \in Conns,
           Connect(c) \/ Request(c) \/ PeerLeaves(c) \/ ReaderStep(c) \/ WriterStep(c)
    PROVE  NoSendOnClosed'
<1>1. CASE Request(c)
  BY <1>1 DEF Request, Enter, busVars, TypeOK, NoSendOnClosed
<1>2. CASE Subscribe(c)
  BY <1>2 DEF Subscribe, emitVars, NoSendOnClosed
<1>3. CASE Unsubscribe(c)
  BY <1>3 DEF Unsubscribe, ReadHeld, emitVars, NoSendOnClosed
<1>4. CASE UNCHANGED <<subscribers, emitPc, unsent>>
  BY <1>4 DEF NoSendOnClosed
<1> QED
  BY <1>1, <1>2, <1>3, <1>4 DEF Connect, PeerLeaves, ReaderStep, WriterStep, Reply, ReadFails,
     Joined, Take, WriterStops, Write, busVars, emitVars

\* No event is ever sent on the closed channel of a connection that left.
THEOREM OpenChannels == Spec => []NoSendOnClosed
<1>1. Init => NoSendOnClosed
  BY DEF Init, NoSendOnClosed
<1>2. TypeOK /\ NoSendOnClosed /\ [Next]_vars => NoSendOnClosed'
  <2> SUFFICES ASSUME TypeOK, NoSendOnClosed, [Next]_vars PROVE NoSendOnClosed'
    OBVIOUS
  <2>1. CASE UNCHANGED vars
    BY <2>1 DEF vars, busVars, emitVars, NoSendOnClosed
  <2> QED
    BY <2>1, EmitKeepsOpen, ConnKeepsOpen DEF Next
<1> QED
  BY <1>1, <1>2, TypeCorrect, PTL DEF Spec

-----------------------------------------------------------------------------
(* What a connection sees of one goroutine has no gaps.                       *)

NoGaps(s) ==
    \A i \in 1..Len(s) : Following(i, s) # {} =>
       \E j \in Following(i, s) : s[j][2] = s[i][2] + 1 /\ \A k \in Following(i, s) : j <= k

\* The last event that s has of a goroutine has the number that last gives.
Latest(s, last) ==
    \A i \in 1..Len(s) : Following(i, s) = {} => s[i][2] = last[s[i][1]]

\* The numbers of the last events that were sent to subscriber c, or might have been.
Due(c) == [a \in Actors |->
    IF emitPc[a] = "lock" \/ (emitPc[a] = "send" /\ c \in unsent[a])
    THEN emitted[a] - 1 ELSE emitted[a]]

OrderInv ==
    \A c \in Conns :
       /\ NoGaps(Seen(c))
       /\ c \in subscribers => Latest(Seen(c), Due(c))
       /\ reader[c] \in {"new", "subscribe"} => Seen(c) = <<>> /\ c \notin subscribers

\* A connection is in emit only while its reader serves a request.
QuietReader == \A c \in Conns : reader[c] # "serve" => emitPc[c] = "idle"

LEMMA QuietStep == ASSUME TypeOK, QuietReader, [Next]_vars PROVE QuietReader'
<1>1. ASSUME NEW a \in Actors, Emit(a) \/ EmitStep(a) PROVE QuietReader'
  <2>1. reader' = reader
    BY <1>1 DEF Emit, EmitStep, EmitLock, EmitSend, EmitUnlock, connVars
  <2>2. CASE Emit(a)
    BY <2>1, <2>2, NameAssumption DEF Emit, Enter, QuietReader, TypeOK
  <2>3. CASE EmitLock(a) \/ EmitUnlock(a)
    <3>1. emitPc[a] # "idle" /\ \A c \in Actors \ {a} : emitPc'[c] = emitPc[c]
      BY <2>3 DEF EmitLock, EmitUnlock, TypeOK
    <3>2. CASE EmitLock(a)
      BY <2>1, <3>1 DEF QuietReader, Actors
    <3>3. CASE EmitUnlock(a)
      BY <2>1, <3>1, <3>3 DEF EmitUnlock, QuietReader, Actors, TypeOK
    <3> QED
      BY <2>3, <3>2, <3>3
  <2>4. CASE \E c \in Conns : EmitSend(a, c)
    BY <2>1, <2>4 DEF EmitSend, QuietReader
  <2> QED
    BY <1>1, <2>2, <2>3, <2>4 DEF EmitStep
<1>2. ASSUME NEW c \in Conns, Request(c) PROVE QuietReader'
  BY <1>2 DEF Request, Enter, To, QuietReader, TypeOK, Actors
<1>3. ASSUME NEW c \in Conns,
             Connect(c) \/ PeerLeaves(c) \/ ReaderStep(c) \/ WriterStep(c)
      PROVE  QuietReader'
  BY <1>3 DEF Connect, PeerLeaves, ReaderStep, Subscribe, Reply, ReadFails, Joined,
     Unsubscribe, WriterStep, Take, WriterStops, Write, To, emitVars, QuietReader, TypeOK
<1>4. CASE UNCHANGED vars
  BY <1>4 DEF vars, emitVars, connVars, QuietReader
<1> QED
  BY <1>1, <1>2, <1>3, <1>4 DEF Next

LEMMA SeenType == ASSUME TypeOK, NEW c \in Conns PROVE Seen(c) \in Seq(Events)
BY DEF TypeOK, Seen

\* What the writer takes was seen already.
LEMMA TakeIsSeen ==
    ASSUME NEW s \in Seq(Events), NEW t \in Seq(Events), t # <<>>
    PROVE  Append(s, Head(t)) \o Tail(t) = s \o t
<1>1. Head(t) \in Events /\ Tail(t) \in Seq(Events)
  OBVIOUS
<1>2. <<Head(t)>> \in Seq(Events) /\ t = <<Head(t)>> \o Tail(t)
  BY <1>1
<1>3. Append(s, Head(t)) = s \o <<Head(t)>>
  BY <1>1, AppendIsConcat
<1> QED
  BY <1>1, <1>2, <1>3, ConcatAssociative

\* What is sent is seen last.
LEMMA SentIsSeen ==
    ASSUME NEW s \in Seq(Events), NEW t \in Seq(Events), NEW e \in Events
    PROVE  s \o Append(t, e) = Append(s \o t, e)
<1>1. <<e>> \in Seq(Events) /\ s \o t \in Seq(Events)
  OBVIOUS
<1>2. Append(t, e) = t \o <<e>> /\ Append(s \o t, e) = (s \o t) \o <<e>>
  BY <1>1, AppendIsConcat
<1> QED
  BY <1>1, <1>2, ConcatAssociative

\* The next event of a goroutine continues what was seen of it.
LEMMA NextEvent ==
    ASSUME NEW s \in Seq(Events), NEW e \in Events, NEW last \in [Actors -> Int],
           NoGaps(s), Latest(s, last), e[2] = last[e[1]] + 1
    PROVE  /\ NoGaps(Append(s, e))
           /\ Latest(Append(s, e), [last EXCEPT ![e[1]] = e[2]])
<1> DEFINE t == Append(s, e)
           n == Len(s) + 1
<1>1. /\ Len(t) = n /\ t[n] = e /\ n \in Nat
      /\ \A i \in 1..Len(s) : t[i] = s[i] /\ s[i] \in Events
  BY AppendProperties
<1>2. e[1] \in Actors /\ \A i \in 1..Len(s) : s[i][1] \in Actors /\ s[i][2] \in Int
  BY <1>1, SizeAssumption DEF Events
<1>3. Following(n, t) = {}
  BY <1>1 DEF Following
<1>4. \A i \in 1..Len(s) :
         Following(i, t) = Following(i, s) \cup (IF s[i][1] = e[1] THEN {n} ELSE {})
  <2> SUFFICES ASSUME NEW i \in 1..Len(s), NEW j
               PROVE  j \in Following(i, t) <=>
                         j \in Following(i, s) \/ (j = n /\ s[i][1] = e[1])
    OBVIOUS
  <2>1. CASE j \in 1..Len(s)
    BY <1>1, <2>1 DEF Following
  <2>2. CASE j = n
    BY <1>1, <2>2 DEF Following
  <2>3. CASE j \notin 1..Len(t)
    BY <1>1, <2>3 DEF Following
  <2> QED
    BY <1>1, <2>1, <2>2, <2>3
<1>5. \A i \in 1..Len(s) : Following(i, s) \subseteq 1..Len(s)
  BY <1>1 DEF Following
<1> HIDE DEF t, n
<1>6. ASSUME NEW i \in 1..Len(t), Following(i, t) # {}
      PROVE  \E j \in Following(i, t) :
                t[j][2] = t[i][2] + 1 /\ \A k \in Following(i, t) : j <= k
  <2>1. i \in 1..Len(s)
    BY <1>1, <1>3, <1>6 DEF n
  <2>2. CASE Following(i, s) # {}
    <3>1. PICK j \in Following(i, s) :
                  s[j][2] = s[i][2] + 1 /\ \A k \in Following(i, s) : j <= k
      BY <2>1, <2>2 DEF NoGaps
    <3>2. j \in 1..Len(s) /\ j <= n
      BY <1>1, <1>5, <2>1, <3>1 DEF n
    <3> QED
      BY <1>1, <1>4, <2>1, <3>1, <3>2
  <2>3. CASE Following(i, s) = {}
    <3>1. Following(i, t) = {n} /\ s[i][1] = e[1]
      BY <1>4, <1>6, <2>1, <2>3
    <3>2. s[i][2] = last[s[i][1]]
      BY <2>1, <2>3 DEF Latest
    <3> QED
      BY <1>1, <2>1, <3>1, <3>2
  <2> QED
    BY <2>2, <2>3
<1>7. ASSUME NEW i \in 1..Len(t), Following(i, t) = {}
      PROVE  t[i][2] = [last EXCEPT ![e[1]] = e[2]][t[i][1]]
  <2>1. CASE i = n
    BY <1>1, <1>2, <2>1
  <2>2. CASE i \in 1..Len(s)
    <3>1. Following(i, s) = {} /\ s[i][1] # e[1]
      BY <1>4, <1>7, <2>2
    <3> QED
      BY <1>1, <1>2, <2>2, <3>1 DEF Latest
  <2> QED
    BY <1>1, <2>1, <2>2 DEF n
<1> QED
  BY <1>6, <1>7 DEF NoGaps, Latest, t

\* Nothing is seen of a step that neither sends nor subscribes.
LEMMA OthersKeepOrder ==
    ASSUME TypeOK, OrderInv, \A c \in Conns : Seen(c)' = Seen(c),
           subscribers' \subseteq subscribers,
           \A c \in subscribers' : Due(c)' = Due(c),
           \A c \in Conns : reader'[c] \in {"new", "subscribe"} =>
                               reader[c] \in {"new", "subscribe"}
    PROVE  OrderInv'
<1> SUFFICES ASSUME NEW c \in Conns
             PROVE  /\ NoGaps(Seen(c)')
                    /\ c \in subscribers' => Latest(Seen(c)', Due(c)')
                    /\ reader'[c] \in {"new", "subscribe"} =>
                          Seen(c)' = <<>> /\ c \notin subscribers'
  BY DEF OrderInv, NoGaps, Latest, Following
<1> QED
  BY DEF OrderInv

LEMMA SendKeepsOrder ==
    ASSUME TypeOK, NoSendOnClosed, OrderInv, NEW a \in Actors, NEW c \in Conns, EmitSend(a, c)
    PROVE  OrderInv'
<1> DEFINE e == <<a, emitted[a]>>
<1>0. /\ chan[c] \in Seq(Events) /\ taken[c] \in Seq(Events) /\ emitted[a] \in 0..EmitBound
      /\ EmitBound \in Nat /\ e \in Events
  BY SizeAssumption DEF TypeOK, Events
<1>1. c \in subscribers /\ emitPc[a] = "send" /\ c \in unsent[a]
  BY DEF EmitSend, NoSendOnClosed
<1>2. /\ UNCHANGED <<subscribers, emitPc, emitted, taken, reader>>
      /\ chan' = [chan EXCEPT ![c] = Append(@, e)]
      /\ unsent' = [unsent EXCEPT ![a] = @ \ {c}]
  BY DEF EmitSend, connVars
<1>3. Seen(c)' = Append(Seen(c), e)
  <2>1. chan'[c] = Append(chan[c], e)
    BY <1>2 DEF TypeOK
  <2>2. taken[c] \o Append(chan[c], e) = Append(taken[c] \o chan[c], e)
    BY <1>0, SentIsSeen
  <2> QED
    BY <1>2, <2>1, <2>2 DEF Seen
<1>4. \A d \in Conns \ {c} : Seen(d)' = Seen(d)
  BY <1>2 DEF Seen, TypeOK
<1>5. \A d \in Conns \ {c} : Due(d)' = Due(d)
  <2>1. \A d \in Conns \ {c}, b \in Actors : d \in unsent'[b] <=> d \in unsent[b]
    BY <1>2 DEF TypeOK
  <2> QED
    BY <1>2, <2>1 DEF Due
<1>6. Due(c) \in [Actors -> Int] /\ e[2] = Due(c)[e[1]] + 1
  BY <1>0, <1>1 DEF Due, TypeOK
<1>7. Due(c)' = [Due(c) EXCEPT ![e[1]] = e[2]]
  <2>1. c \notin unsent'[a] /\ \A b \in Actors \ {a} : unsent'[b] = unsent[b]
    BY <1>2 DEF TypeOK
  <2> QED
    BY <1>1, <1>2, <2>1 DEF Due
<1>8. NoGaps(Seen(c)) /\ Latest(Seen(c), Due(c))
  BY <1>1 DEF OrderInv
<1> HIDE DEF e
<1>9. NoGaps(Seen(c)') /\ Latest(Seen(c)', Due(c)')
  <2>1. /\ NoGaps(Append(Seen(c), e))
        /\ Latest(Append(Seen(c), e), [Due(c) EXCEPT ![e[1]] = e[2]])
    BY <1>0, <1>6, <1>8, NextEvent, SeenType
  <2> QED
    BY <1>3, <1>7, <2>1
<1> SUFFICES ASSUME NEW d \in Conns
             PROVE  /\ NoGaps(Seen(d)')
                    /\ d \in subscribers' => Latest(Seen(d)', Due(d)')
                    /\ reader'[d] \in {"new", "subscribe"} =>
                          Seen(d)' = <<>> /\ d \notin subscribers'
  BY DEF OrderInv, NoGaps, Latest, Following
<1>10. CASE d = c
  BY <1>1, <1>2, <1>9, <1>10 DEF OrderInv
<1>11. CASE d # c
  BY <1>2, <1>4, <1>5, <1>11 DEF OrderInv
<1> QED
  BY <1>10, <1>11

LEMMA SubscribeKeepsOrder ==
    ASSUME TypeOK, OrderInv, NEW c \in Conns, Subscribe(c)
    PROVE  OrderInv'
<1>1. /\ \A d \in Conns : Seen(d)' = Seen(d) /\ Due(d)' = Due(d)
      /\ subscribers' = subscribers \cup {c} /\ Seen(c) = <<>>
      /\ reader'[c] = "read" /\ \A d \in Conns \ {c} : reader'[d] = reader[d]
  BY DEF Subscribe, emitVars, Seen, Due, OrderInv, To, TypeOK
<1>2. NoGaps(<<>>) /\ Latest(<<>>, Due(c))
  BY DEF NoGaps, Latest
<1> SUFFICES ASSUME NEW d \in Conns
             PROVE  /\ NoGaps(Seen(d)')
                    /\ d \in subscribers' => Latest(Seen(d)', Due(d)')
                    /\ reader'[d] \in {"new", "subscribe"} =>
                          Seen(d)' = <<>> /\ d \notin subscribers'
  BY DEF OrderInv, NoGaps, Latest, Following
<1>3. CASE d = c
  BY <1>1, <1>2, <1>3
<1>4. CASE d # c
  BY <1>1, <1>4 DEF OrderInv
<1> QED
  BY <1>3, <1>4

\* A connection sees the events of each goroutine in order and without a gap, and none is
\* missing at the end while the goroutine is not in emit, however many emit at once.
THEOREM SeenInOrder == Spec => []InOrder
<1>1. Init => OrderInv /\ QuietReader
  BY DEF Init, OrderInv, QuietReader, Seen, NoGaps, Actors
<1>2. TypeOK /\ NoSendOnClosed /\ OrderInv /\ QuietReader /\ [Next]_vars
      => (OrderInv /\ QuietReader)'
  <2> SUFFICES ASSUME TypeOK, NoSendOnClosed, OrderInv, QuietReader, [Next]_vars
               PROVE  OrderInv'
    BY QuietStep
  <2>1. ASSUME UNCHANGED <<chan, taken>>, subscribers' \subseteq subscribers,
               \A c \in subscribers' : Due(c)' = Due(c),
               \A c \in Conns : reader'[c] \in {"new", "subscribe"} =>
                                   reader[c] \in {"new", "subscribe"}
        PROVE  OrderInv'
    BY <2>1, OthersKeepOrder DEF Seen
  <2>2. ASSUME NEW a \in Actors, Enter(a), emitPc[a] = "idle",
               UNCHANGED <<subscribers, unsent>>
        PROVE  \A c \in subscribers' : Due(c)' = Due(c)
    BY <2>2, SizeAssumption DEF Enter, Due, TypeOK
  <2>3. ASSUME NEW a \in Actors, Emit(a) PROVE OrderInv'
    <3>1. UNCHANGED <<busVars, unsent, connVars>> /\ Enter(a) /\ emitPc[a] = "idle"
      BY <2>3 DEF Emit
    <3> QED
      BY <2>1, <2>2, <3>1 DEF busVars, connVars
  <2>4. ASSUME NEW a \in Actors, EmitLock(a) \/ EmitUnlock(a) PROVE OrderInv'
    <3>1. UNCHANGED <<busVars, emitted, connVars>>
      BY <2>4 DEF EmitLock, EmitUnlock
    <3>2. \A c \in subscribers' : Due(c)' = Due(c)
      <4>1. CASE EmitLock(a)
        BY <4>1 DEF EmitLock, busVars, Due, TypeOK
      <4>2. CASE EmitUnlock(a)
        BY <4>2 DEF EmitUnlock, busVars, Due, TypeOK
      <4> QED
        BY <2>4, <4>1, <4>2
    <3> QED
      BY <2>1, <3>1, <3>2 DEF busVars, connVars
  <2>5. ASSUME NEW c \in Conns, Request(c) PROVE OrderInv'
    <3>1. c \in Actors /\ emitPc[c] = "idle" /\ Enter(c)
          /\ UNCHANGED <<busVars, unsent, taken>>
      BY <2>5 DEF Request, QuietReader, Actors
    <3>2. \A d \in Conns : reader'[d] \in {"new", "subscribe"} =>
                              reader[d] \in {"new", "subscribe"}
      BY <2>5 DEF Request, To, TypeOK
    <3> QED
      BY <2>1, <2>2, <3>1, <3>2 DEF busVars
  <2>6. ASSUME NEW c \in Conns,
               Connect(c) \/ PeerLeaves(c) \/ Reply(c) \/ ReadFails(c) \/ Joined(c)
               \/ Unsubscribe(c) \/ WriterStops(c) \/ Write(c)
        PROVE  OrderInv'
    <3>1. UNCHANGED <<chan, taken, emitVars>> /\ subscribers' \subseteq subscribers
      BY <2>6 DEF Connect, PeerLeaves, Reply, ReadFails, Joined, Unsubscribe, WriterStops,
         Write, busVars
    <3>2. \A d \in Conns : reader'[d] \in {"new", "subscribe"} =>
                              reader[d] \in {"new", "subscribe"}
      BY <2>6 DEF Connect, PeerLeaves, Reply, ReadFails, Joined, Unsubscribe, WriterStops,
         Write, To, TypeOK
    <3> QED
      BY <2>1, <3>1, <3>2 DEF emitVars, Due
  <2>7. ASSUME NEW c \in Conns, Take(c) PROVE OrderInv'
    <3>1. /\ chan[c] \in Seq(Events) /\ chan[c] # <<>> /\ taken[c] \in Seq(Events)
          /\ chan' = [chan EXCEPT ![c] = Tail(@)]
          /\ taken' = [taken EXCEPT ![c] = Append(@, Head(chan[c]))]
          /\ UNCHANGED <<subscribers, emitVars, reader>>
      BY <2>7 DEF Take, TypeOK
    <3>2. Append(taken[c], Head(chan[c])) \o Tail(chan[c]) = taken[c] \o chan[c]
      BY <3>1, TakeIsSeen
    <3>3. \A d \in Conns : Seen(d)' = Seen(d)
      BY <3>1, <3>2 DEF Seen, TypeOK
    <3> QED
      BY <3>1, <3>3, OthersKeepOrder DEF emitVars, Due
  <2>8. CASE UNCHANGED vars
    BY <2>1, <2>8 DEF vars, busVars, emitVars, connVars, Due
  <2> QED
    BY <2>3, <2>4, <2>5, <2>6, <2>7, <2>8, SendKeepsOrder, SubscribeKeepsOrder
       DEF Next, EmitStep, ReaderStep, WriterStep
<1>3. TypeOK /\ OrderInv => InOrder
  <2> SUFFICES ASSUME TypeOK, OrderInv, NEW c \in Conns, NEW i \in 1..Len(Seen(c))
               PROVE  LET seen == Seen(c)
                          a == seen[i][1]
                          rest == Following(i, seen)
                      IN IF rest = {}
                         THEN c \in subscribers /\ emitPc[a] = "idle" => seen[i][2] = emitted[a]
                         ELSE \E j \in rest : /\ seen[j][2] = seen[i][2] + 1
                                              /\ \A k \in rest : j <= k
    BY DEF InOrder
  <2>1. Seen(c)[i][1] \in Actors
    BY SeenType DEF Events
  <2> QED
    BY <2>1 DEF OrderInv, NoGaps, Latest, Due
<1> QED
  BY <1>1, <1>2, <1>3, TypeCorrect, OpenChannels, PTL DEF Spec

-----------------------------------------------------------------------------
(* What a connection makes of the events: Notifications, for any number of goroutines. *)

Mapped == {"store", "save", "emit"}     \* the call has read the status
Waits(x) == x # None /\ x.status = "waiting"

\* One goroutine at most is in a call.
Alone == \A p, q \in Callers : call[p] # N!Idle /\ call[q] # N!Idle => p = q

\* What a call may rely on while it is the only one: a removal has taken the task out, any
\* other finds it in the driver, the manager and, unless it adds it, the connection.
InCall(p) ==
    LET c == call[p]
    IN IF c.op = "remove" THEN c.at = "emit" /\ held = None
       ELSE /\ held # None /\ c.op \in N!OpNames /\ c.at # "idle"
            /\ c.at \in Mapped => c.got # None /\ (Waits(c.got) <=> Waits(drv))
            /\ c.op = "add" <=> prev = None
Course ==
    /\ Alone
    /\ drv = None <=> held = None
    /\ \A p \in Callers : call[p] # N!Idle => InCall(p)
    /\ N!Busy = {} => (prev = None <=> held = None)
    /\ prev # None /\ Waits(drv) => Waits(prev)

\* The last notification and the entry of the task fit each other.
Turns ==
    /\ prev = None => told \notin {"Start", "Pause"}
    /\ told = "Start" => prev.status \notin {"waiting", "paused"}
    /\ told = "Pause" => prev.status = "paused"
    /\ again => told \notin {"Start", "Pause"}

\* Only a torrent is a seeder.
Seeding(x) == x # None /\ x.seeder
NoSeeder == /\ ~Seeding(drv) /\ ~Seeding(held) /\ ~Seeding(prev)
            /\ \A p \in Callers : ~Seeding(call[p].got)

TurnInv == /\ N!TypeOK
           /\ ~bt => NoSeeder
           /\ ~overlapped => Course
           /\ ~overlapped /\ ~bt => Turns

Calls == [op : N!OpNames \cup {None}, at : {"idle", "policy", "tell", "store", "save", "emit"},
          got : N!Snap \cup {None}]

LEMMA ToldTypes ==
    ASSUME N!NotificationsAssumption, N!TypeOK, [N!Next]_(N!vars) PROVE N!TypeOK'
<1>0. /\ call \in [Callers -> Calls] /\ {drv, held, prev} \subseteq N!Snap \cup {None}
      /\ None \notin N!Snap /\ None \notin N!OpNames /\ N!Idle \in Calls
  BY DEF N!TypeOK, Calls, N!NotificationsAssumption, N!Idle
<1>1. ASSUME NEW p \in Callers, NEW op \in N!OpNames, NEW step \in {"policy", "tell", "emit"},
             N!Enter(p, op, step)
      PROVE  call' \in [Callers -> Calls] /\ overlapped' \in BOOLEAN
  BY <1>0, <1>1 DEF N!Enter, N!TypeOK, Calls
<1>2. ASSUME NEW p \in Callers, N!Add(p) \/ N!Pause(p) \/ N!Unpause(p) \/ N!Remove(p)
      PROVE  N!TypeOK'
  <2>1. {drv', held', prev'} \subseteq N!Snap \cup {None}
    <3>1. \A x \in N!Snap : [x EXCEPT !.status = "paused"] \in N!Snap
      BY DEF N!Snap, N!Statuses
    <3>2. \A s \in N!Statuses, b \in BOOLEAN : [status |-> s, seeder |-> b] \in N!Snap
      BY DEF N!Snap
    <3>3. CASE N!Add(p)
      BY <1>0, <3>2, <3>3 DEF N!Add, N!toldVars, N!Statuses
    <3>4. CASE N!Pause(p)
      BY <1>0, <3>1, <3>4 DEF N!Pause, N!toldVars
    <3>5. CASE N!Unpause(p)
      BY <1>0, <3>2, <3>5 DEF N!Unpause, N!toldVars, N!Statuses
    <3>6. CASE N!Remove(p)
      BY <1>0, <3>6 DEF N!Remove, N!toldVars
    <3> QED
      BY <1>2, <3>3, <3>4, <3>5, <3>6
  <2>2. call' \in [Callers -> Calls] /\ overlapped' \in BOOLEAN
    BY <1>1, <1>2 DEF N!Add, N!Pause, N!Unpause, N!Remove, N!OpNames
  <2> QED
    BY <1>2, <2>1, <2>2 DEF N!Add, N!Pause, N!Unpause, N!Remove, N!toldVars, N!TypeOK, Calls
<1>3. ASSUME NEW p \in Callers, N!Query(p) \/ N!SyncActive(p) \/ N!EnforceSeedLimits(p)
      PROVE  N!TypeOK'
  <2>1. call' \in [Callers -> Calls] /\ overlapped' \in BOOLEAN
    BY <1>1, <1>3 DEF N!Query, N!SyncActive, N!EnforceSeedLimits, N!OpNames
  <2> QED
    BY <1>0, <1>3, <2>1 DEF N!Query, N!SyncActive, N!EnforceSeedLimits, N!toldVars, N!TypeOK, Calls
<1>4. ASSUME NEW p \in Callers, N!EnforceSeedPolicy(p) \/ N!Tell(p) \/ N!Store(p) \/ N!Save(p)
      PROVE  N!TypeOK'
  <2>1. call[p] \in Calls
    BY <1>0
  <2>2. CASE N!EnforceSeedPolicy(p)
    <3>1. \A x \in N!Snap : [x EXCEPT !.seeder = FALSE] \in N!Snap
      BY DEF N!Snap
    <3>2. [call[p] EXCEPT !.at = "tell", !.got = held] \in Calls
      BY <1>0, <2>1 DEF Calls
    <3>3. call' \in [Callers -> Calls]
      BY <1>0, <2>2, <3>2 DEF N!EnforceSeedPolicy
    <3>4. {drv', held', prev'} \subseteq N!Snap \cup {None}
      BY <1>0, <2>2, <3>1 DEF N!EnforceSeedPolicy, N!toldVars, N!Is
    <3> QED
      BY <2>2, <3>3, <3>4 DEF N!EnforceSeedPolicy, N!toldVars, N!TypeOK, Calls
  <2>3. CASE N!Tell(p)
    <3>1. [call[p] EXCEPT !.at = "store", !.got = drv] \in Calls
      BY <1>0, <2>1 DEF Calls
    <3>2. call' \in [Callers -> Calls]
      BY <1>0, <2>3, <3>1 DEF N!Tell
    <3>3. {drv', held', prev'} \subseteq N!Snap \cup {None}
      BY <1>0, <2>3 DEF N!Tell, N!toldVars
    <3> QED
      BY <2>3, <3>2, <3>3 DEF N!Tell, N!toldVars, N!TypeOK, Calls
  <2>4. CASE N!Store(p) \/ N!Save(p)
    <3>1. \A step \in {"save", "emit"} : [call[p] EXCEPT !.at = step] \in Calls
      BY <2>1 DEF Calls
    <3>2. call' \in [Callers -> Calls]
      BY <1>0, <2>4, <3>1 DEF N!Store, N!Save, N!Goto
    <3>3. {drv', held', prev'} \subseteq N!Snap \cup {None}
      BY <1>0, <2>1, <2>4 DEF N!Store, N!Save, N!toldVars, Calls
    <3> QED
      BY <2>4, <3>2, <3>3 DEF N!Store, N!Save, N!toldVars, N!TypeOK, Calls
  <2> QED
    BY <1>4, <2>2, <2>3, <2>4
<1>5. ASSUME NEW p \in Callers, N!Emit(p) PROVE N!TypeOK'
  <2>1. call[p].got \in N!Snap \cup {None}
    BY <1>0 DEF Calls
  <2>2. \A old, new : N!Transition(old, new) \in N!Kinds \cup {None}
    BY DEF N!Transition, N!Kinds
  <2>3. prev' \in N!Snap \cup {None} /\ told' \in N!Kinds \cup {None} /\ again' \in BOOLEAN
    <3>1. ASSUME NEW n \in N!Kinds \cup {None}, N!Say(n)
          PROVE  told' \in N!Kinds \cup {None} /\ again' \in BOOLEAN
      BY <3>1 DEF N!Say, N!TypeOK
    <3>2. CASE N!Added(call[p].got)
      BY <2>1, <3>1, <3>2 DEF N!Added, N!Kinds
    <3>3. CASE N!Removed
      BY <3>1, <3>3 DEF N!Removed, N!Kinds
    <3>4. CASE N!Updated(call[p].got)
      BY <2>1, <2>2, <3>1, <3>4 DEF N!Updated
    <3> QED
      BY <1>5, <3>2, <3>3, <3>4 DEF N!Emit
  <2>4. call' \in [Callers -> Calls]
    BY <1>0, <1>5 DEF N!Emit
  <2> QED
    BY <1>5, <2>3, <2>4 DEF N!Emit, N!TypeOK, Calls
<1>6. CASE N!End
  BY <1>6 DEF N!End, N!toldVars, N!TypeOK, N!Snap, N!Statuses, N!Is
<1>7. CASE UNCHANGED N!vars
  BY <1>7 DEF N!vars, N!toldVars, N!TypeOK
<1> QED
  BY <1>2, <1>3, <1>4, <1>5, <1>6, <1>7 DEF N!Next, N!GoOn

LEMMA NoSeederKept ==
    ASSUME N!NotificationsAssumption, N!TypeOK, ~bt, NoSeeder, [N!Next]_(N!vars) PROVE NoSeeder'
<1>0. /\ call \in [Callers -> Calls] /\ {drv, held, prev} \subseteq N!Snap \cup {None} /\ None \notin N!Snap
  BY DEF N!TypeOK, Calls, N!NotificationsAssumption
<1>1. ASSUME NEW p \in Callers, NEW op, NEW step, N!Enter(p, op, step)
      PROVE  \A q \in Callers : ~Seeding(call'[q].got)
  BY <1>0, <1>1 DEF N!Enter, NoSeeder, Seeding, Calls
<1>2. ASSUME NEW p \in Callers, N!Add(p) \/ N!Pause(p) \/ N!Unpause(p) \/ N!Remove(p)
      PROVE  NoSeeder'
  <2>1. \A q \in Callers : ~Seeding(call'[q].got)
    BY <1>1, <1>2 DEF N!Add, N!Pause, N!Unpause, N!Remove
  <2>2. ~Seeding(drv')
    <3>1. CASE N!Add(p)
      BY <3>1 DEF N!Add, Seeding
    <3>2. CASE N!Pause(p)
      BY <1>0, <3>2 DEF N!Pause, Seeding, NoSeeder, N!Snap
    <3>3. CASE N!Unpause(p)
      BY <3>3 DEF N!Unpause, Seeding
    <3>4. CASE N!Remove(p)
      BY <3>4 DEF N!Remove, Seeding
    <3> QED
      BY <1>2, <3>1, <3>2, <3>3, <3>4
  <2> QED
    BY <1>2, <2>1, <2>2 DEF N!Add, N!Pause, N!Unpause, N!Remove, N!toldVars, NoSeeder, Seeding
<1>3. ASSUME NEW p \in Callers, N!Query(p) \/ N!SyncActive(p) PROVE NoSeeder'
  BY <1>1, <1>3 DEF N!Query, N!SyncActive, N!toldVars, NoSeeder, Seeding
<1>4. ASSUME NEW p \in Callers, N!EnforceSeedLimits(p) PROVE FALSE
  BY <1>4 DEF N!EnforceSeedLimits
<1>5. ASSUME NEW p \in Callers, N!EnforceSeedPolicy(p) PROVE NoSeeder'
  <2>1. ~Seeding(drv')
    BY <1>0, <1>5 DEF N!EnforceSeedPolicy, NoSeeder, Seeding, N!Is, N!Snap
  <2>2. \A q \in Callers : ~Seeding(call'[q].got)
    BY <1>0, <1>5 DEF N!EnforceSeedPolicy, NoSeeder, Seeding, Calls
  <2> QED
    BY <1>5, <2>1, <2>2 DEF N!EnforceSeedPolicy, N!toldVars, NoSeeder, Seeding
<1>6. ASSUME NEW p \in Callers, N!Tell(p) \/ N!Store(p) \/ N!Save(p) \/ N!Emit(p)
      PROVE  NoSeeder'
  <2>1. \A q \in Callers : ~Seeding(call'[q].got)
    <3>1. call[p] \in Calls /\ \A q \in Callers : ~Seeding(call[q].got)
      BY <1>0 DEF NoSeeder
    <3>2. /\ \A q \in Callers \ {p} : call'[q] = call[q]
          /\ \/ call'[p] = N!Idle
             \/ call'[p] = [call[p] EXCEPT !.at = "store", !.got = drv]
             \/ call'[p] = [call[p] EXCEPT !.at = "save"]
             \/ call'[p] = [call[p] EXCEPT !.at = "emit"]
      BY <1>0, <1>6 DEF N!Tell, N!Store, N!Save, N!Emit, N!Goto
    <3>3. call'[p].got \in {None, drv, call[p].got}
      <4>1. /\ [call[p] EXCEPT !.at = "store", !.got = drv].got = drv
            /\ [call[p] EXCEPT !.at = "save"].got = call[p].got
            /\ [call[p] EXCEPT !.at = "emit"].got = call[p].got
            /\ N!Idle.got = None
        BY <3>1 DEF Calls, N!Idle
      <4> QED
        BY <3>2, <4>1
    <3>4. ~Seeding(call'[p].got)
      BY <3>1, <3>3 DEF NoSeeder, Seeding
    <3> QED
      BY <3>1, <3>2, <3>4
  <2>2. ~Seeding(held') /\ drv' = drv
    <3>1. held' \in {held, drv, call[p].got} /\ drv' = drv
      BY <1>6 DEF N!Tell, N!Store, N!Save, N!Emit
    <3> QED
      BY <3>1 DEF NoSeeder
  <2>3. ~Seeding(prev')
    BY <1>6 DEF N!Tell, N!Store, N!Save, N!Emit, N!toldVars, N!Added, N!Updated, N!Removed,
       NoSeeder, Seeding
  <2> QED
    BY <2>1, <2>2, <2>3 DEF NoSeeder
<1>7. CASE N!End
  BY <1>7 DEF N!End, N!toldVars, NoSeeder, Seeding
<1>8. CASE UNCHANGED N!vars
  BY <1>8 DEF N!vars, N!toldVars, NoSeeder, Seeding
<1> QED
  BY <1>2, <1>3, <1>4, <1>5, <1>6, <1>7, <1>8 DEF N!Next, N!GoOn

\* A call that begins while no other is under way is the only one.
LEMMA EnterAlone ==
    ASSUME N!NotificationsAssumption, N!TypeOK, NEW p \in Callers, NEW op \in N!OpNames, NEW step,
           N!Enter(p, op, step), ~overlapped'
    PROVE  /\ N!Busy = {} /\ call'[p] = [op |-> op, at |-> step, got |-> None]
           /\ \A q \in Callers \ {p} : call'[q] = N!Idle
           /\ N!Busy' # {}
<1>1. N!Busy = {} /\ call \in [Callers -> Calls] /\ None \notin N!OpNames
  BY DEF N!Enter, N!TypeOK, Calls, N!NotificationsAssumption
<1>2. call'[p] = [op |-> op, at |-> step, got |-> None] /\ call'[p] # N!Idle
  BY <1>1 DEF N!Enter, N!Idle
<1> QED
  BY <1>1, <1>2 DEF N!Enter, N!Busy

\* So is one that goes on.
LEMMA StepAlone ==
    ASSUME N!NotificationsAssumption, N!TypeOK, Course, NEW p \in Callers,
           N!GoOn(p)
    PROVE  /\ call[p] # N!Idle /\ InCall(p)
           /\ \A q \in Callers \ {p} : call[q] = N!Idle /\ call'[q] = N!Idle
           /\ call'[p] = N!Idle => N!Busy' = {}
           /\ call'[p] # N!Idle => N!Busy' # {}
<1>1. call[p] # N!Idle /\ call \in [Callers -> Calls]
  <2>1. call[p].at # "idle"
    BY DEF N!GoOn, N!EnforceSeedPolicy, N!Tell, N!Store, N!Save, N!Emit, N!At
  <2> QED
    BY <2>1 DEF N!Idle, N!TypeOK, Calls
<1>2. \A q \in Callers \ {p} : call'[q] = call[q]
  BY <1>1 DEF N!GoOn, N!EnforceSeedPolicy, N!Tell, N!Store, N!Save, N!Emit, N!Goto
<1> QED
  BY <1>1, <1>2 DEF Course, Alone, N!Busy

LEMMA EnterCourse ==
    ASSUME N!NotificationsAssumption, N!TypeOK, Course, NEW p \in Callers, ~overlapped',
           \/ N!Add(p) \/ N!Pause(p) \/ N!Unpause(p) \/ N!Remove(p)
           \/ N!Query(p) \/ N!SyncActive(p) \/ N!EnforceSeedLimits(p)
    PROVE  Course'
<1>0. {drv, held, prev} \subseteq N!Snap \cup {None} /\ None \notin N!Snap
  BY DEF N!TypeOK, N!NotificationsAssumption
<1>7. \A s \in N!Statuses, b \in BOOLEAN : [status |-> s, seeder |-> b] \in N!Snap
  BY DEF N!Snap
<1>1. PICK op \in N!OpNames, step \in {"policy", "tell", "emit"} :
        /\ N!Enter(p, op, step)
        /\ op = "remove" => step = "emit" /\ drv' = None /\ held' = None
        /\ op = "add" => held = None /\ held' # None /\ drv' # None /\ drv = None
        /\ op \notin {"add", "remove"} =>
              held # None /\ held' # None /\ drv' # None /\ drv # None /\ (Waits(drv') => Waits(drv))
        /\ op # "remove" => step # "emit"
  <2>1. CASE N!Add(p)
    <3>1. drv' \in N!Snap /\ held' \in N!Snap
      BY <2>1, <1>7 DEF N!Add, N!Statuses
    <3> QED
      BY <1>0, <2>1, <3>1 DEF N!Add, N!OpNames
  <2>2. CASE N!Remove(p)
    BY <2>2 DEF N!Remove, N!OpNames
  <2>3. CASE N!Pause(p)
    <3>1. drv' \in N!Snap /\ ~Waits(drv')
      BY <1>0, <2>3 DEF N!Pause, N!Snap, N!Statuses, Waits
    <3> QED
      BY <1>0, <2>3, <3>1 DEF N!Pause, N!OpNames
  <2>4. CASE N!Unpause(p)
    <3> PICK b \in BOOLEAN : drv' = [status |-> "active", seeder |-> b]
      BY <2>4 DEF N!Unpause
    <3>1. drv' \in N!Snap
      BY <1>7 DEF N!Statuses
    <3>2. ~Waits(drv')
      BY DEF Waits
    <3>3. held # None /\ drv # None /\ held' = held /\ N!Enter(p, "unpause", "tell")
      BY <2>4 DEF N!Unpause
    <3> QED
      BY <1>0, <2>4, <3>1, <3>2, <3>3 DEF N!OpNames
  <2>5. CASE N!Query(p) \/ N!SyncActive(p)
    BY <1>0, <2>5 DEF N!Query, N!SyncActive, N!OpNames, Course, N!Is
  <2>6. CASE N!EnforceSeedLimits(p)
    BY <1>0, <2>6 DEF N!EnforceSeedLimits, N!OpNames
  <2> QED
    BY <2>1, <2>2, <2>3, <2>4, <2>5, <2>6
<1>2. /\ N!Busy = {} /\ call'[p] = [op |-> op, at |-> step, got |-> None]
      /\ \A q \in Callers \ {p} : call'[q] = N!Idle
      /\ N!Busy' # {} /\ prev' = prev
  BY <1>1, EnterAlone DEF N!Add, N!Pause, N!Unpause, N!Remove, N!Query, N!SyncActive,
     N!EnforceSeedLimits, N!toldVars
<1>3. prev = None <=> held = None
  BY <1>2 DEF Course
<1>6. drv' = None <=> held' = None
  BY <1>1
<1>4. InCall(p)'
  <2> DEFINE c == call'[p]
  <2>1. c.op = op /\ c.at = step /\ c.got = None
    BY <1>2
  <2>2. CASE op = "remove"
    BY <1>1, <2>1, <2>2 DEF InCall
  <2>3. CASE op # "remove"
    BY <1>1, <1>2, <1>3, <2>1, <2>3 DEF InCall, Mapped
  <2> QED
    BY <2>2, <2>3
<1>5. prev' # None /\ Waits(drv') => Waits(prev')
  BY <1>1, <1>2, <1>3 DEF Course, Waits
<1> QED
  BY <1>2, <1>4, <1>5, <1>6 DEF Course, Alone

LEMMA StepCourse ==
    ASSUME N!NotificationsAssumption, N!TypeOK, Course, NEW p \in Callers, N!GoOn(p)
    PROVE  Course'
<1>0. /\ {drv, held, prev} \subseteq N!Snap \cup {None} /\ None \notin N!Snap
      /\ call \in [Callers -> Calls] /\ None \notin N!OpNames
  BY DEF N!TypeOK, N!NotificationsAssumption, Calls
<1>1. /\ call[p] # N!Idle /\ InCall(p) /\ \A q \in Callers \ {p} : call'[q] = N!Idle
      /\ call'[p] = N!Idle => N!Busy' = {}
      /\ call'[p] # N!Idle => N!Busy' # {}
  BY StepAlone
<1>2. SUFFICES /\ drv' = None <=> held' = None
               /\ call'[p] # N!Idle => InCall(p)'
               /\ call'[p] = N!Idle => (prev' = None <=> held' = None)
               /\ prev' # None /\ Waits(drv') => Waits(prev')
  BY <1>1 DEF Course, Alone
<1>3. call[p] \in Calls /\ (drv = None <=> held = None) /\ (prev # None /\ Waits(drv) => Waits(prev))
  BY <1>0 DEF Course
<1>4. CASE N!EnforceSeedPolicy(p)
  <2>1. call'[p].op = call[p].op /\ call'[p].at = "tell" /\ call[p].op = "seed limit"
    BY <1>0, <1>3, <1>4 DEF N!EnforceSeedPolicy, N!At, Calls
  <2>2. (drv' = None <=> drv = None) /\ (Waits(drv') => Waits(drv))
    BY <1>0, <1>4 DEF N!EnforceSeedPolicy, N!Is, N!Snap, N!Statuses, Waits
  <2>3. held' = held /\ prev' = prev
    BY <1>4 DEF N!EnforceSeedPolicy, N!toldVars
  <2> QED
    BY <1>1, <1>3, <2>1, <2>2, <2>3 DEF InCall, Mapped, N!Idle
<1>5. CASE N!Tell(p)
  <2>1. held # None /\ drv # None /\ (call[p].op = "add" <=> prev = None) /\ call[p].op # "remove"
    BY <1>1, <1>3, <1>5 DEF N!Tell, InCall
  <2>2. held' # None /\ drv' = drv /\ prev' = prev
    BY <1>5, <2>1 DEF N!Tell, N!toldVars
  <2>3. CASE call'[p] = N!Idle
    <3>1. call[p].op = "seed limit"
      BY <1>0, <1>3, <1>5, <2>1, <2>3 DEF N!Tell, N!Idle, Calls
    <3> QED
      BY <1>3, <2>1, <2>2, <2>3, <3>1
  <2>4. CASE call'[p] # N!Idle
    <3>1. call'[p] = [call[p] EXCEPT !.at = "store", !.got = drv]
      BY <1>0, <1>5, <2>4 DEF N!Tell
    <3>2. call'[p].op = call[p].op /\ call'[p].at = "store" /\ call'[p].got = drv
      BY <1>3, <3>1 DEF Calls
    <3> QED
      BY <1>1, <1>3, <2>1, <2>2, <2>4, <3>2, <1>5 DEF InCall, Mapped, Waits, N!Tell
  <2> QED
    BY <2>3, <2>4
<1>6. CASE N!Store(p)
  <2>1. /\ held # None /\ (call[p].op = "add" <=> prev = None) /\ call[p].op \in N!OpNames \ {"remove"}
        /\ call[p].got # None /\ (Waits(call[p].got) <=> Waits(drv))
    BY <1>1, <1>6 DEF N!Store, InCall, Mapped
  <2>2. held' = call[p].got /\ drv' = drv /\ prev' = prev
    BY <1>6 DEF N!Store, N!toldVars
  <2>3. CASE call[p].op = "query"
    <3>1. call'[p] = N!Idle
      BY <1>0, <1>6, <2>3 DEF N!Store
    <3> QED
      BY <1>3, <2>1, <2>2, <2>3, <3>1
  <2>4. CASE call[p].op # "query"
    <3>1. \E step \in {"save", "emit"} : call'[p] = [call[p] EXCEPT !.at = step]
      BY <1>0, <1>6, <2>4 DEF N!Store
    <3>2. call'[p].op = call[p].op /\ call'[p].at \in Mapped \ {"idle"} /\ call'[p].got = call[p].got
      BY <1>3, <3>1 DEF Calls, Mapped
    <3>3. InCall(p)'
      BY <2>1, <2>2, <3>2 DEF InCall, Waits
    <3>4. call'[p] # N!Idle
      BY <3>2, <1>0, <2>1 DEF N!Idle
    <3> QED
      BY <1>3, <2>1, <2>2, <3>3, <3>4 
  <2> QED
    BY <2>3, <2>4
<1>7. CASE N!Save(p)
  <2>1. /\ held # None /\ (call[p].op = "add" <=> prev = None) /\ call[p].op \in N!OpNames \ {"remove"}
        /\ call[p].got # None /\ (Waits(call[p].got) <=> Waits(drv))
    BY <1>1, <1>7 DEF N!Save, InCall, Mapped
  <2>2. held' # None /\ drv' = drv /\ prev' = prev
    BY <1>7, <2>1 DEF N!Save, N!toldVars
  <2>3. call'[p].op = call[p].op /\ call'[p].at = "emit" /\ call'[p].got = call[p].got
    BY <1>0, <1>3, <1>7 DEF N!Save, N!Goto, Calls
  <2>4. InCall(p)' /\ call'[p] # N!Idle
    BY <1>0, <2>1, <2>2, <2>3 DEF InCall, Waits, Mapped, N!Idle
  <2> QED
    BY <1>3, <2>1, <2>2, <2>4
<1>8. CASE N!Emit(p)
  <2>1. call'[p] = N!Idle /\ held' = held /\ drv' = drv
    BY <1>0, <1>8 DEF N!Emit
  <2>2. CASE call[p].op = "remove"
    <3>1. prev' = None /\ held = None
      BY <1>1, <1>8, <2>2 DEF N!Emit, N!Removed, InCall
    <3> QED
      BY <1>3, <2>1, <3>1
  <2>3. CASE call[p].op # "remove"
    <3>1. prev' = call[p].got
      BY <1>8, <2>3 DEF N!Emit, N!Added, N!Updated
    <3>2. held # None /\ call[p].got # None /\ (Waits(call[p].got) <=> Waits(drv))
      BY <1>1, <1>8, <2>3 DEF N!Emit, InCall, Mapped
    <3> QED
      BY <1>3, <2>1, <3>1, <3>2
  <2> QED
    BY <2>2, <2>3
<1> QED
  BY <1>4, <1>5, <1>6, <1>7, <1>8 DEF N!GoOn

LEMMA OverlapStays == ASSUME [N!Next]_(N!vars) PROVE bt' = bt /\ (overlapped => overlapped')
<1>1. ASSUME NEW p \in Callers,
             \/ N!Add(p) \/ N!Pause(p) \/ N!Unpause(p) \/ N!Remove(p)
             \/ N!Query(p) \/ N!SyncActive(p) \/ N!EnforceSeedLimits(p)
      PROVE  bt' = bt /\ (overlapped => overlapped')
  <2>1. overlapped => overlapped'
    BY <1>1 DEF N!Enter, N!Add, N!Pause, N!Unpause, N!Remove, N!Query, N!SyncActive,
       N!EnforceSeedLimits
  <2> QED
    BY <1>1, <2>1 DEF N!Add, N!Pause, N!Unpause, N!Remove, N!Query, N!SyncActive,
       N!EnforceSeedLimits
<1>2. ASSUME NEW p \in Callers, N!GoOn(p) PROVE bt' = bt /\ overlapped' = overlapped
  BY <1>2 DEF N!GoOn, N!EnforceSeedPolicy, N!Tell, N!Store, N!Save, N!Emit
<1>3. CASE N!End \/ UNCHANGED N!vars
  BY <1>3 DEF N!End, N!vars
<1> QED
  BY <1>1, <1>2, <1>3 DEF N!Next

LEMMA CourseKept ==
    ASSUME N!NotificationsAssumption, N!TypeOK, ~overlapped => Course, [N!Next]_(N!vars), ~overlapped'
    PROVE  Course'
<1>1. ~overlapped
  BY OverlapStays
<1>2. CASE N!End
  <2>1. drv # None /\ drv' # None /\ ~Waits(drv) /\ ~Waits(drv')
    <3>1. PICK s \in {"complete", "error"}, b \in BOOLEAN : drv' = [status |-> s, seeder |-> b]
      BY <1>2 DEF N!End
    <3>2. drv' \in N!Snap /\ ~Waits(drv')
      BY <3>1 DEF N!Snap, N!Statuses, Waits
    <3> QED
      BY <1>2, <3>2 DEF N!End, N!Is, Waits, N!NotificationsAssumption
  <2>2. held' = held /\ prev' = prev /\ call' = call
    BY <1>2 DEF N!End, N!toldVars
  <2> QED
    BY <1>1, <2>1, <2>2 DEF Course, Alone, InCall, N!Busy
<1>3. CASE UNCHANGED N!vars
  BY <1>1, <1>3 DEF N!vars, N!toldVars, Course, Alone, InCall, N!Busy, Waits
<1> QED
  BY <1>1, <1>2, <1>3, EnterCourse, StepCourse DEF N!Next

\* Every notification leaves the connection with an entry that fits it.
LEMMA TurnsKept ==
    ASSUME N!NotificationsAssumption, N!TypeOK, Course, NoSeeder, Turns, ~bt, N!Next
    PROVE  Turns'
<1>1. CASE UNCHANGED N!toldVars
  BY <1>1 DEF N!toldVars, Turns
<1>2. ASSUME NEW p \in Callers, N!Emit(p) PROVE Turns'
  <2> DEFINE new == call[p].got
  <2>1. InCall(p)
    BY <1>2, StepAlone DEF N!GoOn
  <2>2. CASE call[p].op = "remove"
    BY <1>2, <2>2 DEF N!Emit, N!Removed, N!Say, Turns, N!NotificationsAssumption, N!Kinds
  <2>3. CASE call[p].op # "remove"
    <3>1. /\ new # None /\ (Waits(new) <=> Waits(drv)) /\ (call[p].op = "add" <=> prev = None)
          /\ prev # None /\ Waits(drv) => Waits(prev)
      BY <1>2, <2>1, <2>3 DEF N!Emit, InCall, Mapped, Course
    <3>2. new \in N!Snap /\ new.seeder = FALSE /\ None \notin N!Snap /\ None \notin N!Kinds
      BY <3>1 DEF N!TypeOK, NoSeeder, Seeding, N!Snap, N!NotificationsAssumption
    <3>3. CASE call[p].op = "add"
      <4>1. prev = None /\ prev' = new
            /\ N!Say(IF new.status \in {"waiting", "paused"} THEN None ELSE "Start")
        BY <1>2, <3>1, <3>3 DEF N!Emit, N!Added
      <4>2. told \notin {"Start", "Pause"}
        BY <4>1 DEF Turns
      <4>3. prev' # None
        BY <3>1, <4>1
      <4>4. CASE new.status \in {"waiting", "paused"}
        <5>1. told' = told /\ again' \in {again, FALSE, None = told}
          BY <4>1, <4>4 DEF N!Say
        <5> QED
          BY <4>1, <4>2, <4>3, <5>1 DEF Turns
      <4>5. CASE new.status \notin {"waiting", "paused"}
        <5>1. told' = "Start" /\ again' = ("Start" = told)
          BY <3>2, <4>1, <4>5 DEF N!Say, N!Kinds
        <5> QED
          BY <4>1, <4>2, <4>3, <4>5, <5>1 DEF Turns
      <4> QED
        BY <4>4, <4>5
    <3>4. CASE call[p].op # "add"
      <4>1. prev # None /\ prev' = new /\ N!Say(IF prev = new THEN None ELSE N!Transition(prev, new))
        BY <1>2, <2>3, <3>1, <3>4 DEF N!Emit, N!Updated
      <4>2. prev \in N!Snap /\ prev.seeder = FALSE
        BY <4>1 DEF N!TypeOK, NoSeeder, Seeding, N!Snap
      <4>3. new.status = "waiting" => prev.status = "waiting"
        BY <3>1, <4>1 DEF Waits
      <4>4. CASE prev = new
        BY <3>1, <4>1, <4>4 DEF N!Say, Turns
      <4>5. CASE prev # new
        <5>1. prev.status # new.status
          BY <3>2, <4>2, <4>5 DEF N!Snap
        <5>2. new.status \in {"complete", "error", "paused", "active"}
          BY <3>2, <4>3, <5>1 DEF N!Snap, N!Statuses
        <5>3. PICK n : n = N!Transition(prev, new) /\ N!Say(n)
          BY <4>1, <4>5
        <5>4. CASE new.status = "paused"
          <6>1. n = "Pause"
            BY <5>3, <5>4 DEF N!Transition
          <6>2. told # "Pause" /\ told' = "Pause" /\ again' = FALSE
            BY <3>2, <5>1, <5>3, <5>4, <6>1 DEF N!Say, Turns, N!Kinds
          <6> QED
            BY <3>1, <4>1, <5>4, <6>2 DEF Turns
        <5>5. CASE new.status = "active"
          <6>1. n = IF prev.status \in {"paused", "waiting", ""} THEN "Start" ELSE None
            BY <5>3, <5>5 DEF N!Transition
          <6>2. CASE prev.status \in {"paused", "waiting", ""}
            <7>1. told # "Start" \/ prev.status = ""
              BY <6>2 DEF Turns
            <7>2. told # "Start"
              BY <4>2, <7>1 DEF N!Snap, N!Statuses
            <7>3. told' = "Start" /\ again' = FALSE
              BY <3>2, <5>3, <6>1, <6>2, <7>2 DEF N!Say, N!Kinds
            <7> QED
              BY <3>1, <4>1, <5>5, <7>3 DEF Turns
          <6>3. CASE prev.status \notin {"paused", "waiting", ""}
            <7>1. told' = told /\ again' = again
              BY <5>3, <6>1, <6>3 DEF N!Say
            <7>2. told # "Pause"
              BY <6>3 DEF Turns
            <7> QED
              BY <3>1, <4>1, <5>5, <7>1, <7>2 DEF Turns
          <6> QED
            BY <6>2, <6>3
        <5>6. CASE new.status \in {"complete", "error"}
          <6>1. n \in {"Complete", "BtComplete", "Error"}
            BY <5>3, <5>6 DEF N!Transition
          <6>2. told' = n
            BY <3>2, <5>3, <6>1 DEF N!Say, N!Kinds
          <6> QED
            BY <3>1, <4>1, <6>1, <6>2 DEF Turns
        <5> QED
          BY <5>2, <5>4, <5>5, <5>6
      <4> QED
        BY <4>4, <4>5
    <3> QED
      BY <3>3, <3>4
  <2> QED
    BY <2>2, <2>3
<1> QED
  BY <1>1, <1>2 DEF N!Next, N!GoOn, N!Add, N!Pause, N!Unpause, N!Remove, N!Query, N!SyncActive,
     N!EnforceSeedLimits, N!EnforceSeedPolicy, N!Tell, N!Store, N!Save, N!End

LEMMA TurnInvInit == ASSUME N!NotificationsAssumption, N!Init PROVE TurnInv
<1>1. N!TypeOK
  BY DEF N!Init, N!NotificationsAssumption, N!TypeOK, N!Idle
<1>2. \A p \in Callers : call[p] = N!Idle
  BY DEF N!Init
<1>3. NoSeeder
  BY <1>2 DEF N!Init, NoSeeder, Seeding, N!Idle
<1>4. Course
  BY <1>2 DEF N!Init, Course, Alone
<1>5. Turns
  BY DEF N!Init, Turns, N!NotificationsAssumption, N!Kinds
<1> QED
  BY <1>1, <1>3, <1>4, <1>5 DEF TurnInv

LEMMA TurnInvKept ==
    ASSUME N!NotificationsAssumption, TurnInv, [N!Next]_(N!vars) PROVE TurnInv'
<1>1. N!TypeOK' /\ (~overlapped' => Course')
  BY ToldTypes, CourseKept DEF TurnInv
<1>2. bt' = bt /\ (overlapped => overlapped')
  BY OverlapStays
<1>3. ~bt' => NoSeeder'
  BY <1>2, NoSeederKept DEF TurnInv
<1>4. ASSUME ~overlapped', ~bt' PROVE Turns'
  <2>1. Course /\ NoSeeder /\ Turns /\ ~bt
    BY <1>2, <1>4 DEF TurnInv
  <2>2. CASE UNCHANGED N!vars
    BY <2>1, <2>2 DEF N!vars, N!toldVars, Turns
  <2> QED
    BY <2>1, <2>2, TurnsKept DEF TurnInv
<1> QED
  BY <1>1, <1>3, <1>4 DEF TurnInv

\* What a connection tells its client of a task makes sense, however many goroutines call the
\* manager, as long as calls do not overlap: starts and pauses alternate for what is no torrent,
\* and the entry of a removed task is forgotten.
THEOREM ToldCorrect == N!Spec => []ToldInTurn
<1>1. TurnInv => ToldInTurn
  BY DEF TurnInv, Course, Turns, ToldInTurn, N!ToldInTurn, N!SaidInTurn, N!Forgotten
<1> QED
  BY <1>1, CallersAssumption, TurnInvInit, TurnInvKept, PTL DEF N!Spec

-----------------------------------------------------------------------------
(* The download queue. *)

\* The order of the queue under dates c; a task stands where its rank says, the number of those
\* before it.
Precedes(c, t, u) == c[t] < c[u] \/ (c[t] = c[u] /\ t < u)
RankOf(c, t, S)   == Q!Cardinality({u \in S : Precedes(c, u, t)})
Sorted(S, c)      == [i \in 1..Q!Cardinality(S) |-> CHOOSE t \in S : RankOf(c, t, S) = i - 1]

\* The counting that TaskQueue takes from the library is that of the theorems.
LEMMA SameCardinality == ASSUME NEW S PROVE Q!Cardinality(S) = Cardinality(S)
BY DEF Q!Cardinality, Cardinality

LEMMA InOrderIsSorted == ASSUME NEW S PROVE Q!InOrder(S) = Sorted(S, created)
BY DEF Q!InOrder, Q!Ahead, Q!Before, Sorted, RankOf, Precedes

LEMMA QueueIsSorted ==
    /\ Q!Queue = Sorted(Q!InQueue, created)
    /\ (Q!Queue)' = Sorted(Q!InQueue', created')
BY DEF Q!Queue, Q!InOrder, Q!Ahead, Q!Before, Sorted, RankOf, Precedes

LEMMA RankIs ==
    ASSUME NEW S, NEW c, NEW t
    PROVE  RankOf(c, t, S) = Cardinality({u \in S : Precedes(c, u, t)})
BY SameCardinality DEF RankOf

\* Ranks differ, as Precedes is a strict order: the tasks before an earlier one, and that one,
\* are before a later one.
LEMMA RankLess ==
    ASSUME NEW S \in SUBSET Nat, IsFiniteSet(S), NEW c, \A t \in S : c[t] \in Int,
           NEW t \in S, NEW u \in S, Precedes(c, t, u)
    PROVE  /\ RankOf(c, t, S) \in Nat /\ RankOf(c, u, S) \in Nat
           /\ RankOf(c, t, S) < RankOf(c, u, S)
<1> DEFINE A == {v \in S : Precedes(c, v, t)}
           B == {v \in S : Precedes(c, v, u)}
<1>1. IsFiniteSet(A) /\ IsFiniteSet(B)
  BY FS_Subset
<1>2. t \notin A /\ A \cup {t} \subseteq B
  <2>1. \A v \in S : v \in Nat /\ c[v] \in Int
    OBVIOUS
  <2>2. t \notin A
    BY <2>1 DEF Precedes
  <2>3. ASSUME NEW v \in S, Precedes(c, v, t) PROVE Precedes(c, v, u)
    <3>1. /\ c[v] \in Int /\ c[t] \in Int /\ c[u] \in Int
          /\ v \in Nat /\ t \in Nat /\ u \in Nat
      OBVIOUS
    <3> QED
      BY <2>3, <3>1 DEF Precedes
  <2> QED
    BY <2>2, <2>3
<1>3. Cardinality(A \cup {t}) = Cardinality(A) + 1
  BY <1>1, <1>2, FS_AddElement
<1>4. Cardinality(A \cup {t}) <= Cardinality(B)
  BY <1>1, <1>2, FS_Subset
<1>5. Cardinality(A) \in Nat /\ Cardinality(B) \in Nat
  BY <1>1, FS_CardinalityType
<1> QED
  BY <1>3, <1>4, <1>5, RankIs

LEMMA RankBound ==
    ASSUME NEW S \in SUBSET Nat, IsFiniteSet(S), NEW c, \A t \in S : c[t] \in Int, NEW t \in S
    PROVE  RankOf(c, t, S) \in 0..(Cardinality(S) - 1)
<1> DEFINE A == {v \in S : Precedes(c, v, t)}
<1>1. A \subseteq S \ {t}
  BY DEF Precedes
<1>2. IsFiniteSet(S \ {t}) /\ Cardinality(S \ {t}) = Cardinality(S) - 1
  BY FS_RemoveElement
<1>3. IsFiniteSet(A) /\ Cardinality(A) <= Cardinality(S) - 1
  BY <1>1, <1>2, FS_Subset
<1>4. Cardinality(A) \in Nat /\ Cardinality(S) \in Nat
  BY <1>3, FS_CardinalityType
<1> QED
  BY <1>3, <1>4, RankIs

\* Every rank is somebody's: n different ranks below n.
LEMMA RankOnto ==
    ASSUME NEW S \in SUBSET Nat, IsFiniteSet(S), NEW c, \A t \in S : c[t] \in Int,
           NEW k \in 0..(Cardinality(S) - 1)
    PROVE  \E t \in S : RankOf(c, t, S) = k
<1> DEFINE n == Cardinality(S)
           r == [t \in S |-> RankOf(c, t, S)]
<1>1. n \in Nat
  BY FS_CardinalityType
<1>2. r \in [S -> 0..(n - 1)]
  BY RankBound
<1>3. \A t, u \in S : r[t] = r[u] => t = u
  <2> SUFFICES ASSUME NEW t \in S, NEW u \in S, t # u PROVE r[t] # r[u]
    OBVIOUS
  <2>1. Precedes(c, t, u) \/ Precedes(c, u, t)
    BY DEF Precedes
  <2> QED
    BY <2>1, RankLess
<1>4. r \in Injection(S, 0..(n - 1))
  BY <1>2, <1>3 DEF Injection, IsInjective
<1>5. IsFiniteSet(0..(n - 1)) /\ Cardinality(0..(n - 1)) = n
  BY <1>1, FS_Interval
<1>6. r \in Surjection(S, 0..(n - 1))
  BY <1>4, <1>5, FS_Injection
<1> HIDE DEF r
<1>7. \E t \in S : r[t] = k
  BY <1>6 DEF Surjection
<1> QED
  BY <1>7 DEF r

\* The queue has the tasks of S, each once, the earlier ones first.
\* What a sorted queue is: every task once, in order.
LEMMA SortedFacts ==
    ASSUME NEW S \in SUBSET Nat, IsFiniteSet(S), NEW c, \A t \in S : c[t] \in Int
    PROVE  /\ Sorted(S, c) \in Seq(S) /\ Len(Sorted(S, c)) = Cardinality(S)
           /\ Cardinality(S) \in Nat
           /\ \A i, j \in 1..Cardinality(S) :
                 i < j => Precedes(c, Sorted(S, c)[i], Sorted(S, c)[j])
           /\ \A t \in S : \E i \in 1..Cardinality(S) : Sorted(S, c)[i] = t
<1> DEFINE n == Cardinality(S)
           q == Sorted(S, c)
<1>1. n \in Nat
  BY FS_CardinalityType
<1>2. ASSUME NEW i \in 1..n PROVE q[i] \in S /\ RankOf(c, q[i], S) = i - 1
  <2>1. \E t \in S : RankOf(c, t, S) = i - 1
    BY <1>1, RankOnto
  <2> QED
    BY <2>1, SameCardinality DEF Sorted
<1>3. q \in [1..n -> S]
  BY <1>2, SameCardinality DEF Sorted
<1>4. q \in Seq(S) /\ Len(q) = n
  BY <1>1, <1>3, SeqDef
<1>5. ASSUME NEW t \in S, NEW u \in S, RankOf(c, t, S) <= RankOf(c, u, S)
      PROVE  t = u \/ Precedes(c, t, u)
  <2> SUFFICES ASSUME Precedes(c, u, t) PROVE FALSE
    BY DEF Precedes
  <2> QED
    BY <1>5, RankLess
<1>6. ASSUME NEW i \in 1..n, NEW j \in 1..n, i < j PROVE Precedes(c, q[i], q[j])
  <2>1. /\ q[i] \in S /\ q[j] \in S
        /\ RankOf(c, q[i], S) = i - 1 /\ RankOf(c, q[j], S) = j - 1
    BY <1>2
  <2> HIDE DEF q
  <2>2. i \in Int /\ j \in Int
    BY <1>1
  <2>3. RankOf(c, q[i], S) <= RankOf(c, q[j], S)
    BY <1>6, <2>1, <2>2
  <2>4. q[i] = q[j] \/ Precedes(c, q[i], q[j])
    BY <1>5, <2>1, <2>3
  <2> QED
    BY <1>6, <2>1, <2>2, <2>4
<1>7. ASSUME NEW t \in S PROVE \E i \in 1..n : q[i] = t
  <2>1. RankOf(c, t, S) \in 0..(n - 1)
    BY RankBound
  <2> DEFINE i == RankOf(c, t, S) + 1
  <2>2. i \in 1..n
    BY <1>1, <2>1
  <2>3. q[i] \in S /\ RankOf(c, q[i], S) = RankOf(c, t, S)
    BY <1>2, <2>1, <2>2
  <2>4. q[i] = t
    <3> HIDE DEF i, q
    <3>1. RankOf(c, t, S) <= RankOf(c, t, S)
      BY <1>1, <2>1
    <3>2. (q[i] = t \/ Precedes(c, q[i], t)) /\ (q[i] = t \/ Precedes(c, t, q[i]))
      BY <1>5, <2>3, <3>1
    <3>3. c[t] \in Int /\ c[q[i]] \in Int /\ t \in Nat /\ q[i] \in Nat
      BY <2>3
    <3> QED
      BY <3>2, <3>3 DEF Precedes
  <2> QED
    BY <2>2, <2>4
<1> QED
  BY <1>1, <1>4, <1>6, <1>7

\* A task is taken out of a list and put in elsewhere.
LEMMA RemoveAtFacts ==
    ASSUME NEW T, NEW s \in Seq(T), NEW k \in 1..Len(s)
    PROVE  /\ Q!RemoveAt(s, k) \in Seq(T) /\ Len(Q!RemoveAt(s, k)) = Len(s) - 1
           /\ \A i \in 1..(Len(s) - 1) :
                 Q!RemoveAt(s, k)[i] = IF i < k THEN s[i] ELSE s[i + 1]
<1> DEFINE n == Len(s)
           a == SubSeq(s, 1, k - 1)
           b == SubSeq(s, k + 1, n)
<1>1. n \in Nat /\ \A i \in 1..n : s[i] \in T
  BY LenProperties, ElementOfSeq
<1>2. /\ a \in Seq(T) /\ Len(a) = k - 1
      /\ \A i \in 1..(k - 1) : a[i] = s[i]
  <2>1. \A i \in 1..(k - 1) : s[i] \in T
    BY <1>1
  <2> QED
    BY <1>1, <2>1, SubSeqProperties
<1>3. /\ b \in Seq(T) /\ Len(b) = n - k
      /\ \A i \in 1..(n - k) : b[i] = s[k + i]
  <2>1. \A i \in (k + 1)..n : s[i] \in T
    BY <1>1
  <2> QED
    BY <1>1, <2>1, SubSeqProperties
<1>4. Q!RemoveAt(s, k) = a \o b
  BY DEF Q!RemoveAt
<1> HIDE DEF a, b
<1>5. /\ a \o b \in Seq(T) /\ Len(a \o b) = n - 1
      /\ \A i \in 1..(n - 1) : (a \o b)[i] = IF i <= k - 1 THEN a[i] ELSE b[i - (k - 1)]
  BY <1>1, <1>2, <1>3, ConcatProperties
<1>6. ASSUME NEW i \in 1..(n - 1)
      PROVE  (a \o b)[i] = IF i < k THEN s[i] ELSE s[i + 1]
  <2>1. CASE i < k
    BY <1>1, <1>2, <1>5, <2>1
  <2>2. CASE ~(i < k)
    <3>1. i - (k - 1) \in 1..(n - k) /\ k + (i - (k - 1)) = i + 1
      BY <1>1, <2>2
    <3> QED
      BY <1>1, <1>3, <1>5, <2>2, <3>1
  <2> QED
    BY <2>1, <2>2
<1> QED
  BY <1>4, <1>5, <1>6

LEMMA InsertAtFacts ==
    ASSUME NEW T, NEW s \in Seq(T), NEW k \in 1..(Len(s) + 1), NEW e \in T
    PROVE  /\ Q!InsertAt(s, k, e) \in Seq(T) /\ Len(Q!InsertAt(s, k, e)) = Len(s) + 1
           /\ \A i \in 1..(Len(s) + 1) :
                 Q!InsertAt(s, k, e)[i] = IF i < k THEN s[i] ELSE IF i = k THEN e ELSE s[i - 1]
<1> DEFINE n == Len(s)
           a == SubSeq(s, 1, k - 1)
           c == a \o <<e>>
           b == SubSeq(s, k, n)
<1>1. n \in Nat /\ \A i \in 1..n : s[i] \in T
  BY LenProperties, ElementOfSeq
<1>2. /\ a \in Seq(T) /\ Len(a) = k - 1
      /\ \A i \in 1..(k - 1) : a[i] = s[i]
  <2>1. \A i \in 1..(k - 1) : s[i] \in T
    BY <1>1
  <2> QED
    BY <1>1, <2>1, SubSeqProperties
<1>3. /\ b \in Seq(T) /\ Len(b) = n - k + 1
      /\ \A i \in 1..(n - k + 1) : b[i] = s[k + i - 1]
  <2>1. \A i \in k..n : s[i] \in T
    BY <1>1
  <2> QED
    BY <1>1, <2>1, SubSeqProperties
<1>4. Q!InsertAt(s, k, e) = c \o b
  BY DEF Q!InsertAt
<1> HIDE DEF a, b
<1>5. /\ c \in Seq(T) /\ Len(c) = k
      /\ \A i \in 1..k : c[i] = IF i < k THEN s[i] ELSE e
  <2>1. /\ <<e>> \in Seq(T) /\ Len(<<e>>) = 1 /\ <<e>>[1] = e
    OBVIOUS
  <2>2. /\ c \in Seq(T) /\ Len(c) = k
        /\ \A i \in 1..k : c[i] = IF i <= k - 1 THEN a[i] ELSE <<e>>[i - (k - 1)]
    BY <1>1, <1>2, <2>1, ConcatProperties
  <2> QED
    BY <1>1, <1>2, <2>1, <2>2
<1> HIDE DEF c
<1>6. /\ c \o b \in Seq(T) /\ Len(c \o b) = n + 1
      /\ \A i \in 1..(n + 1) : (c \o b)[i] = IF i <= k THEN c[i] ELSE b[i - k]
  <2>1. /\ c \o b \in Seq(T) /\ Len(c \o b) = Len(c) + Len(b)
        /\ \A i \in 1..(Len(c) + Len(b)) : (c \o b)[i] = IF i <= Len(c) THEN c[i] ELSE b[i - Len(c)]
    BY <1>3, <1>5, ConcatProperties
  <2>2. Len(c) = k /\ Len(c) + Len(b) = n + 1
    BY <1>1, <1>3, <1>5
  <2> QED
    BY <2>1, <2>2
<1>7. ASSUME NEW i \in 1..(n + 1)
      PROVE  (c \o b)[i] = IF i < k THEN s[i] ELSE IF i = k THEN e ELSE s[i - 1]
  <2>1. CASE i <= k
    BY <1>1, <1>5, <1>6, <2>1
  <2>2. CASE ~(i <= k)
    <3>1. i - k \in 1..(n - k + 1) /\ k + (i - k) - 1 = i - 1
      BY <1>1, <2>2
    <3> QED
      BY <1>1, <1>3, <1>6, <2>2, <3>1
  <2> QED
    BY <2>1, <2>2
<1> QED
  BY <1>4, <1>6, <1>7

\* The list with its element at from + 1 taken to place + 1, as both calls make it, and
\* where its other elements come from.
\* A list with one element moved, and where each element of it was.
Moved(s, from, place) == Q!InsertAt(Q!RemoveAt(s, from + 1), place + 1, s[from + 1])
Source(i, from, place) ==
    IF i = place + 1 THEN from + 1
    ELSE LET j == IF i <= place THEN i ELSE i - 1
         IN IF j <= from THEN j ELSE j + 1

LEMMA MovedFacts ==
    ASSUME NEW T, NEW s \in Seq(T), NEW from \in 0..(Len(s) - 1), NEW place \in 0..(Len(s) - 1)
    PROVE  /\ Moved(s, from, place) \in Seq(T) /\ Len(Moved(s, from, place)) = Len(s)
           /\ \A i \in 1..Len(s) : /\ Source(i, from, place) \in 1..Len(s)
                                   /\ Moved(s, from, place)[i] = s[Source(i, from, place)]
<1> DEFINE n == Len(s)
           rest == Q!RemoveAt(s, from + 1)
           m == Q!InsertAt(rest, place + 1, s[from + 1])
<1>1. n \in Nat /\ from + 1 \in 1..n /\ s[from + 1] \in T
  BY LenProperties, ElementOfSeq
<1>2. /\ rest \in Seq(T) /\ Len(rest) = n - 1
      /\ \A i \in 1..(n - 1) : rest[i] = IF i < from + 1 THEN s[i] ELSE s[i + 1]
  BY <1>1, RemoveAtFacts
<1> HIDE DEF rest
<1>3. place + 1 \in 1..(Len(rest) + 1)
  BY <1>1, <1>2
<1>4. /\ m \in Seq(T) /\ Len(m) = Len(rest) + 1
      /\ \A i \in 1..(Len(rest) + 1) :
            m[i] = IF i < place + 1 THEN rest[i]
                   ELSE IF i = place + 1 THEN s[from + 1] ELSE rest[i - 1]
  BY <1>1, <1>2, <1>3, InsertAtFacts
<1> HIDE DEF m
<1>5. Len(m) = n
  BY <1>1, <1>2, <1>4
<1>6. ASSUME NEW i \in 1..n
      PROVE  /\ Source(i, from, place) \in 1..n
             /\ m[i] = s[Source(i, from, place)]
  <2>1. m[i] = IF i < place + 1 THEN rest[i] ELSE IF i = place + 1 THEN s[from + 1] ELSE rest[i - 1]
    BY <1>1, <1>2, <1>4
  <2>2. CASE i = place + 1
    BY <1>1, <2>1, <2>2 DEF Source
  <2>3. CASE i < place + 1
    <3>1. i \in 1..(n - 1) /\ i <= place /\ i # place + 1
      BY <1>1, <2>3
    <3>2. m[i] = IF i < from + 1 THEN s[i] ELSE s[i + 1]
      BY <1>2, <2>1, <2>3, <3>1
    <3> QED
      BY <1>1, <3>1, <3>2 DEF Source
  <2>4. CASE i > place + 1
    <3>1. i - 1 \in 1..(n - 1) /\ ~(i <= place) /\ i # place + 1
      BY <1>1, <2>4
    <3>2. m[i] = IF i - 1 < from + 1 THEN s[i - 1] ELSE s[(i - 1) + 1]
      BY <1>2, <2>1, <2>4, <3>1
    <3> QED
      BY <1>1, <3>1, <3>2 DEF Source
  <2> QED
    BY <1>1, <2>2, <2>3, <2>4
<1> QED
  BY <1>4, <1>5, <1>6 DEF m, rest, Moved

\* Those that do not move keep their order.
LEMMA SourceKeepsOrder ==
    ASSUME NEW from \in Nat, NEW place \in Nat, NEW i \in Nat, NEW j \in Nat, i < j
    PROVE  /\ Source(i, from, place) # Source(j, from, place)
           /\ i # place + 1 /\ j # place + 1 =>
                 Source(i, from, place) < Source(j, from, place)
BY DEF Source

\* A call with an order to write: every task once, each still there, its own task in its
\* place; and, until it is overtaken, the other tasks in the order of the queue.
ListFits(c) ==
    /\ \A i \in DOMAIN c.list : c.list[i] \in Q!Held
    /\ \A i, j \in DOMAIN c.list : c.list[i] = c.list[j] => i = j
    /\ c.index <= c.from => c.index < Len(c.list) /\ c.list[c.index + 1] = c.task
OrderFits(c) ==
    \A i, j \in DOMAIN c.list :
       i < j /\ c.list[i] # c.task /\ c.list[j] # c.task => Q!Before(c.list[i], c.list[j])
QueueInv ==
    /\ Q!TypeOK
    /\ \A p \in overtaken : serving[p].pc = "apply"
    /\ \A p \in Clients : serving[p].pc = "insert" => serving[p].task \in Q!Held
    /\ \A p \in Clients : serving[p].pc = "apply" =>
          ListFits(serving[p]) /\ (p \notin overtaken => OrderFits(serving[p]))

\* The types without overtaken, which is set last, and without what fillSlots picked.
QueueCalls == [pc : {"idle", "insert", "apply", "save"}, task : Downloads \cup {Nobody},
          from : Nat, index : Nat, list : Seq(Downloads)]
QueueTypes ==
    /\ status \in [Downloads -> Q!Statuses]
    /\ created \in [Downloads -> Int] /\ copy \in [Downloads -> Int] /\ now \in Nat
    /\ saved \in [Downloads -> [status : Q!Statuses, created : Int]]
    /\ serving \in [Clients -> QueueCalls]

PickedType == picked \in Downloads \cup {Nobody}

LEMMA QueueTypeParts == Q!TypeOK <=> QueueTypes /\ PickedType /\ overtaken \subseteq Clients
BY DEF Q!TypeOK, QueueTypes, QueueCalls, PickedType

LEMMA QueueConstants ==
    /\ Downloads \subseteq Nat /\ IsFiniteSet(Downloads) /\ Positions \subseteq Int
    /\ Tick \in Nat /\ Second \in Nat
  <1>1. Q!IsFiniteSet(Downloads) = IsFiniteSet(Downloads)
    BY DEF Q!IsFiniteSet, IsFiniteSet
  <1> QED
    BY <1>1, QueueAssumed DEF Q!QueueAssumption

LEMMA InOrderFacts ==
    ASSUME QueueTypes, NEW S \in SUBSET Downloads
    PROVE  LET queue == Q!InOrder(S)  n == Cardinality(S)
           IN /\ n \in Nat /\ queue \in Seq(Downloads) /\ Len(queue) = n
              /\ \A i \in 1..n : queue[i] \in S
              /\ \A i, j \in 1..n : i < j => Q!Before(queue[i], queue[j])
              /\ \A i, j \in 1..n : queue[i] = queue[j] => i = j
              /\ \A t \in S : \E i \in 1..n : queue[i] = t
<1> DEFINE n == Cardinality(S)
           queue == Q!InOrder(S)
<1>1. S \in SUBSET Nat /\ IsFiniteSet(S) /\ \A t \in S : created[t] \in Int
  BY QueueConstants, FS_Subset DEF QueueTypes
<1>2. queue = Sorted(S, created)
  BY InOrderIsSorted
<1>3. /\ Sorted(S, created) \in Seq(S) /\ Len(Sorted(S, created)) = n
      /\ n \in Nat
      /\ \A i, j \in 1..n : i < j => Precedes(created, Sorted(S, created)[i], Sorted(S, created)[j])
      /\ \A t \in S : \E i \in 1..n : Sorted(S, created)[i] = t
  BY <1>1, SortedFacts
<1> HIDE DEF queue
<1>4. /\ queue \in Seq(S) /\ Len(queue) = n /\ \A i \in 1..n : queue[i] \in S
  BY <1>2, <1>3, ElementOfSeq
<1>5. queue \in Seq(Downloads)
  <2>1. queue \in [1..n -> S] /\ n \in Nat
    BY <1>3, <1>4, LenProperties
  <2>2. queue \in [1..n -> Downloads]
    BY <2>1
  <2> QED
    BY <2>1, <2>2, SeqDef
<1>6. \A i, j \in 1..n : i < j => Q!Before(queue[i], queue[j])
  BY <1>2, <1>3 DEF Q!Before, Precedes
<1>7. ASSUME NEW i \in 1..n, NEW j \in 1..n, queue[i] = queue[j] PROVE i = j
  <2>1. \A t \in S : ~Q!Before(t, t)
    BY <1>1 DEF Q!Before
  <2> QED
    BY <1>3, <1>4, <1>6, <1>7, <2>1
<1> QED
  BY <1>2, <1>3, <1>4, <1>5, <1>6, <1>7 DEF queue

LEMMA QueueFacts ==
    ASSUME QueueTypes
    PROVE  LET queue == Q!Queue  n == Cardinality(Q!InQueue)
           IN /\ n \in Nat /\ queue \in Seq(Downloads) /\ Len(queue) = n
              /\ \A i \in 1..n : queue[i] \in Q!InQueue
              /\ \A i, j \in 1..n : i < j => Q!Before(queue[i], queue[j])
              /\ \A i, j \in 1..n : queue[i] = queue[j] => i = j
              /\ \A t \in Q!InQueue : \E i \in 1..n : queue[i] = t
<1>1. Q!InQueue \in SUBSET Downloads
  BY DEF Q!InQueue
<1> QED
  BY <1>1, InOrderFacts DEF Q!Queue

LEMMA IndexFacts ==
    ASSUME NEW T, NEW s \in Seq(T), \A i, j \in DOMAIN s : s[i] = s[j] => i = j,
           NEW k \in 1..Len(s)
    PROVE  Q!IndexOf(s[k], s) = k - 1
<1>1. Len(s) \in Nat /\ DOMAIN s = 1..Len(s)
  BY LenProperties
<1>2. k - 1 \in 0..(Len(s) - 1) /\ s[(k - 1) + 1] = s[k]
  BY <1>1
<1>3. ASSUME NEW i \in 0..(Len(s) - 1), s[i + 1] = s[k] PROVE i = k - 1
  <2>1. i + 1 \in DOMAIN s /\ k \in DOMAIN s
    BY <1>1
  <2> QED
    BY <1>3, <2>1
<1> QED
  BY <1>2, <1>3 DEF Q!IndexOf

\* The order that a call is to write, when it has read the queue.
LEMMA MovedFits ==
    ASSUME QueueTypes, NEW from \in 0..(Cardinality(Q!InQueue) - 1),
           NEW place \in 0..(Cardinality(Q!InQueue) - 1),
           NEW c \in QueueCalls, c.list = Moved(Q!Queue, from, place), c.task = Q!Queue[from + 1],
           c.index <= c.from => c.index = place
    PROVE  ListFits(c) /\ OrderFits(c)
<1> DEFINE n == Cardinality(Q!InQueue)
           queue == Q!Queue
           m == Moved(queue, from, place)
<1>1. /\ n \in Nat /\ queue \in Seq(Downloads) /\ Len(queue) = n
      /\ \A i \in 1..n : queue[i] \in Q!InQueue
      /\ \A i, j \in 1..n : i < j => Q!Before(queue[i], queue[j])
      /\ \A i, j \in 1..n : queue[i] = queue[j] => i = j
  BY QueueFacts
<1> HIDE DEF n, queue
<1>2. /\ from \in 0..(n - 1) /\ place \in 0..(n - 1) /\ c.list = m /\ c.task = queue[from + 1]
  BY DEF n, queue
<1>3. /\ m \in Seq(Downloads) /\ Len(m) = n
      /\ \A i \in 1..n : Source(i, from, place) \in 1..n /\ m[i] = queue[Source(i, from, place)]
  BY <1>1, <1>2, MovedFacts
<1> HIDE DEF m
<1>4. DOMAIN m = 1..n
  BY <1>3, LenProperties
<1>5. Q!InQueue \subseteq Q!Held
  BY DEF Q!InQueue, Q!Held, Q!Queued
<1>6. \A i \in 1..n : m[i] \in Q!Held
  BY <1>1, <1>3, <1>5
<1>7. ASSUME NEW i \in 1..n, NEW j \in 1..n, i < j PROVE m[i] # m[j]
  <2>1. Source(i, from, place) # Source(j, from, place)
    BY <1>1, <1>2, <1>7, SourceKeepsOrder
  <2> QED
    BY <1>1, <1>3, <2>1
<1>8. \A i, j \in 1..n : m[i] = m[j] => i = j
  BY <1>1, <1>7
<1>9. place + 1 \in 1..n /\ m[place + 1] = queue[from + 1]
  <2>1. place + 1 \in 1..n /\ Source(place + 1, from, place) = from + 1
    BY <1>1, <1>2 DEF Source
  <2> QED
    BY <1>3, <2>1
<1>10. ListFits(c)
  <2>1. c.index <= c.from => c.index < n /\ m[c.index + 1] = queue[from + 1]
    BY <1>1, <1>2, <1>9
  <2> QED
    BY <1>2, <1>3, <1>4, <1>6, <1>8, <2>1 DEF ListFits
<1>11. ASSUME NEW i \in 1..n, NEW j \in 1..n, i < j, m[i] # c.task, m[j] # c.task
       PROVE  Q!Before(m[i], m[j])
  <2>1. i # place + 1 /\ j # place + 1
    BY <1>2, <1>9, <1>11
  <2>2. Source(i, from, place) < Source(j, from, place)
    BY <1>1, <1>2, <1>11, <2>1, SourceKeepsOrder
  <2> QED
    BY <1>1, <1>3, <2>2
<1> QED
  BY <1>2, <1>4, <1>10, <1>11 DEF OrderFits

\* What a step does to a goroutine: its call stays as it was, has nothing to do with the order,
\* is to insert a task, or has just read the queue.
Asks(p)  == serving'[p].pc = "insert" /\ serving'[p].task \in Q!Held'
Reads(p) ==
    /\ serving[p].pc # "apply" /\ UNCHANGED <<status, created>>
    /\ ListFits(serving'[p]) /\ OrderFits(serving'[p]) /\ serving'[p].pc = "apply"
Goes(p)  == \/ serving'[p] = serving[p] \/ serving'[p].pc \in {"idle", "save"}
            \/ Asks(p) \/ Reads(p)
Kept     == Q!Held \subseteq Q!Held' \/ \A p \in Clients : serving'[p].pc = "idle"
QueueStep == QueueTypes' /\ Kept /\ \A p \in Clients : Goes(p)

LEMMA IdleIsCall == Q!Idle \in QueueCalls /\ Q!Idle.pc = "idle"
<1>1. <<>> \in Seq(Downloads)
  BY EmptySeq
<1> QED
  BY <1>1 DEF QueueCalls, Q!Idle

LEMMA IdleFacts ==
    /\ [Q!Idle EXCEPT !.pc = "save"] \in QueueCalls /\ [Q!Idle EXCEPT !.pc = "save"].pc = "save"
    /\ \A t \in Downloads, pos \in Nat :
          /\ [Q!Idle EXCEPT !.pc = "insert", !.task = t, !.index = pos] \in QueueCalls
          /\ [Q!Idle EXCEPT !.pc = "insert", !.task = t, !.index = pos].pc = "insert"
          /\ [Q!Idle EXCEPT !.pc = "insert", !.task = t, !.index = pos].task = t
BY IdleIsCall DEF QueueCalls

LEMMA QueueAdd ==
    ASSUME QueueTypes, NEW p \in Clients, NEW t \in Downloads, Q!Add(p, t) PROVE QueueStep
<1>1. now + Tick \in Nat /\ now \in Int
  BY QueueConstants DEF QueueTypes
<1>2. \A pos \in Positions \cap Nat :
         [Q!Idle EXCEPT !.pc = "insert", !.task = t, !.index = pos] \in QueueCalls
  BY IdleFacts
<1>3. /\ serving[p] \in QueueCalls /\ [serving[p] EXCEPT !.pc = "save"] \in QueueCalls
      /\ [serving[p] EXCEPT !.pc = "save"].pc = "save"
  BY DEF QueueTypes, QueueCalls
<1>4. /\ serving' \in [Clients -> QueueCalls]
      /\ serving'[p].pc = "save" \/ (serving'[p].pc = "insert" /\ serving'[p].task = t)
      /\ \A q \in Clients \ {p} : serving'[q] = serving[q]
  <2>1. CASE serving' = [serving EXCEPT ![p].pc = "save"]
    <3> DEFINE c == [serving[p] EXCEPT !.pc = "save"]
    <3>1. c \in QueueCalls /\ c.pc = "save"
      BY <1>3
    <3>2. serving' = [serving EXCEPT ![p] = c]
      BY <2>1
    <3> HIDE DEF c
    <3> QED
      BY <3>1, <3>2 DEF QueueTypes
  <2>2. ASSUME NEW pos \in Positions \cap Nat,
               serving' = [serving EXCEPT ![p] =
                              [Q!Idle EXCEPT !.pc = "insert", !.task = t, !.index = pos]]
        PROVE  /\ serving' \in [Clients -> QueueCalls]
               /\ serving'[p].pc = "insert" /\ serving'[p].task = t
               /\ \A q \in Clients \ {p} : serving'[q] = serving[q]
    <3> DEFINE c == [Q!Idle EXCEPT !.pc = "insert", !.task = t, !.index = pos]
    <3>1. c \in QueueCalls /\ c.pc = "insert" /\ c.task = t
      BY IdleFacts
    <3> HIDE DEF c
    <3>2. serving' = [serving EXCEPT ![p] = c]
      BY <2>2 DEF c
    <3> QED
      BY <3>1, <3>2 DEF QueueTypes
  <2> QED
    BY <2>1, <2>2 DEF Q!Add
<1>5. QueueTypes'
  BY <1>1, <1>4 DEF Q!Add, QueueTypes, Q!Statuses
<1>6. Kept /\ t \in Q!Held'
  BY DEF Kept, Q!Held, Q!Add, QueueTypes
<1> QED
  BY <1>4, <1>5, <1>6 DEF QueueStep, Goes, Asks

\* The order in which an added task has its place.
LEMMA InsertedFits ==
    ASSUME QueueTypes, NEW t \in Q!Held, NEW index \in 0..Cardinality(Q!InQueue \ {t}),
           NEW c \in QueueCalls, c.task = t, c.index = index,
           c.list = Q!InsertAt(Q!InOrder(Q!InQueue \ {t}), index + 1, t)
    PROVE  ListFits(c) /\ OrderFits(c)
<1> DEFINE S == Q!InQueue \ {t}
           n == Cardinality(S)
           rest == Q!InOrder(S)
           m == Q!InsertAt(rest, index + 1, t)
<1>1. S \in SUBSET Downloads /\ S \subseteq Q!Held /\ t \in Downloads /\ t \notin S
  BY DEF Q!InQueue, Q!Held, Q!Queued
<1>2. /\ n \in Nat /\ rest \in Seq(Downloads) /\ Len(rest) = n
      /\ \A i \in 1..n : rest[i] \in S
      /\ \A i, j \in 1..n : i < j => Q!Before(rest[i], rest[j])
      /\ \A i, j \in 1..n : rest[i] = rest[j] => i = j
  BY <1>1, InOrderFacts
<1>3. index \in 0..n /\ c.list = m
  OBVIOUS
<1> HIDE DEF n, rest, S
<1>4. /\ m \in Seq(Downloads) /\ Len(m) = n + 1
      /\ \A i \in 1..(n + 1) :
            m[i] = IF i < index + 1 THEN rest[i] ELSE IF i = index + 1 THEN t ELSE rest[i - 1]
  <2>1. index + 1 \in 1..(Len(rest) + 1) /\ rest \in Seq(Downloads) /\ t \in Downloads
    BY <1>1, <1>2, <1>3
  <2>2. \A k \in 1..(Len(rest) + 1) :
           LET x == Q!InsertAt(rest, k, t)
           IN /\ x \in Seq(Downloads) /\ Len(x) = Len(rest) + 1
              /\ \A i \in 1..(Len(rest) + 1) :
                    x[i] = IF i < k THEN rest[i] ELSE IF i = k THEN t ELSE rest[i - 1]
    BY <2>1, InsertAtFacts
  <2> QED
    BY <1>2, <2>1, <2>2
<1> HIDE DEF m
<1>5. DOMAIN m = 1..(n + 1)
  BY <1>2, <1>4, LenProperties
<1>6. ASSUME NEW i \in 1..(n + 1)
      PROVE  \/ i = index + 1 /\ m[i] = t
             \/ \E k \in 1..n : m[i] = rest[k] /\ k = IF i < index + 1 THEN i ELSE i - 1
  <2>1. CASE i < index + 1
    BY <1>2, <1>3, <1>4, <2>1
  <2>2. CASE i = index + 1
    BY <1>4, <2>2
  <2>3. CASE i > index + 1
    <3>1. i - 1 \in 1..n /\ m[i] = rest[i - 1] /\ ~(i < index + 1)
      BY <1>2, <1>3, <1>4, <2>3
    <3> QED
      BY <3>1
  <2> QED
    BY <1>3, <2>1, <2>2, <2>3
<1>7. ASSUME NEW i \in 1..(n + 1) PROVE m[i] \in Q!Held /\ (m[i] = t => i = index + 1)
  BY <1>1, <1>2, <1>6
<1>8. ASSUME NEW i \in 1..(n + 1), NEW j \in 1..(n + 1), i < j, m[i] # t, m[j] # t
      PROVE  Q!Before(m[i], m[j]) /\ m[i] # m[j]
  <2>1. PICK k \in 1..n : m[i] = rest[k] /\ k = IF i < index + 1 THEN i ELSE i - 1
    BY <1>6, <1>8
  <2>2. PICK l \in 1..n : m[j] = rest[l] /\ l = IF j < index + 1 THEN j ELSE j - 1
    BY <1>6, <1>8
  <2>3. i # index + 1 /\ j # index + 1
    BY <1>3, <1>4, <1>8
  <2>4. k < l
    BY <1>3, <1>8, <2>1, <2>2, <2>3
  <2> QED
    BY <1>2, <2>1, <2>2, <2>4
<1>9. ASSUME NEW i \in 1..(n + 1), NEW j \in 1..(n + 1), m[i] = m[j] PROVE i = j
  <2>1. CASE m[i] = t
    BY <1>7, <1>9, <2>1
  <2>2. CASE m[i] # t
    BY <1>2, <1>8, <1>9, <2>2
  <2> QED
    BY <2>1, <2>2
<1>10. ListFits(c)
  <2>1. index + 1 \in 1..(n + 1) /\ m[index + 1] = t /\ index < n + 1
    BY <1>2, <1>3, <1>4
  <2> QED
    BY <1>3, <1>4, <1>5, <1>7, <1>9, <2>1 DEF ListFits
<1> QED
  BY <1>3, <1>5, <1>8, <1>10 DEF OrderFits

LEMMA QueueInsert ==
    ASSUME QueueTypes, NEW p \in Clients, serving[p].task \in Q!Held, Q!InsertAtPosition(p)
    PROVE  QueueStep
<1> DEFINE t == serving[p].task
           filtered == Q!InOrder(Q!InQueue \ {t})
           last == Len(filtered)
           index == IF serving[p].index > last THEN last ELSE serving[p].index
           c == [pc |-> "apply", task |-> t, from |-> last, index |-> index,
                 list |-> Q!InsertAt(filtered, index + 1, t)]
<1>1. serving[p] \in QueueCalls /\ serving[p].index \in Nat
  BY DEF QueueTypes, QueueCalls
<1>2. [Q!Idle EXCEPT !.pc = "save"] \in QueueCalls /\ [Q!Idle EXCEPT !.pc = "save"].pc = "save"
  BY IdleFacts
<1>3. /\ Q!InQueue \ {t} \in SUBSET Downloads /\ t \in Downloads /\ t \in Q!Held
  BY DEF Q!InQueue, Q!Held
<1>4. /\ last \in Nat /\ filtered \in Seq(Downloads) /\ last = Cardinality(Q!InQueue \ {t})
  BY <1>3, InOrderFacts
<1> HIDE DEF t, filtered
<1>5. index \in 0..last
  BY <1>1, <1>4
<1>6. c \in QueueCalls
  <2>1. index + 1 \in 1..(Len(filtered) + 1)
    BY <1>4, <1>5
  <2>2. Q!InsertAt(filtered, index + 1, t) \in Seq(Downloads)
    BY <1>3, <1>4, <2>1, InsertAtFacts
  <2> HIDE DEF last, index
  <2>3. index \in Nat
    BY <1>4, <1>5
  <2> QED
    BY <1>3, <1>4, <2>2, <2>3 DEF QueueCalls
<1>7. ListFits(c) /\ OrderFits(c) /\ c.pc = "apply"
  <2>1. /\ c.task = t /\ c.index = index /\ c.pc = "apply"
        /\ c.list = Q!InsertAt(Q!InOrder(Q!InQueue \ {t}), index + 1, t)
    BY DEF filtered
  <2>2. index \in 0..Cardinality(Q!InQueue \ {t})
    BY <1>4, <1>5
  <2> HIDE DEF c, index, last
  <2> QED
    BY <1>3, <1>6, <2>1, <2>2, InsertedFits
<1>8. /\ \/ serving' = [serving EXCEPT ![p] = c]
         \/ serving' = [serving EXCEPT ![p] = [Q!Idle EXCEPT !.pc = "save"]]
      /\ serving[p].pc = "insert" /\ UNCHANGED <<status, created, copy, saved, now>>
  BY DEF Q!InsertAtPosition, Q!At, t, filtered
<1> HIDE DEF c
<1>9. serving' \in [Clients -> QueueCalls]
  BY <1>2, <1>6, <1>8 DEF QueueTypes
<1>10. QueueTypes' /\ Kept
  BY <1>8, <1>9 DEF QueueTypes, Kept, Q!Held
<1>11. ASSUME NEW q \in Clients PROVE Goes(q)
  <2>1. CASE q # p
    BY <1>8, <2>1 DEF Goes, QueueTypes
  <2>2. CASE q = p
    BY <1>2, <1>7, <1>8, <2>2 DEF Goes, Reads, QueueTypes
  <2> QED
    BY <2>1, <2>2
<1> QED
  BY <1>10, <1>11 DEF QueueStep

LEMMA QueueMove ==
    ASSUME QueueTypes, NEW p \in Clients, NEW t \in Downloads, Q!ChangePosition(p, t)
    PROVE  QueueStep
<1> PICK pos \in Positions, how \in Modes :
       LET from == Q!IndexOf(t, Q!Queue)
           to == Q!Resolve(from, Len(Q!Queue), pos, how)
       IN serving' = [serving EXCEPT ![p] =
             IF from = to
             THEN [Q!Idle EXCEPT !.pc = "save"]
             ELSE [pc |-> "apply", task |-> t, from |-> from, index |-> to,
                   list |-> Q!Reorder(Q!Queue, from, to)]]
  BY DEF Q!ChangePosition
<1> DEFINE n == Cardinality(Q!InQueue)
           from == Q!IndexOf(t, Q!Queue)
           to == Q!Resolve(from, Len(Q!Queue), pos, how)
           place == IF to > from THEN to - 1 ELSE to
           c == [pc |-> "apply", task |-> t, from |-> from, index |-> to,
                 list |-> Q!Reorder(Q!Queue, from, to)]
<1>1. /\ n \in Nat /\ Q!Queue \in Seq(Downloads) /\ Len(Q!Queue) = n
      /\ \A i, j \in 1..n : Q!Queue[i] = Q!Queue[j] => i = j
      /\ \A u \in Q!InQueue : \E i \in 1..n : Q!Queue[i] = u
  BY QueueFacts
<1>2. t \in Q!InQueue /\ serving[p].pc = "idle" /\ UNCHANGED <<status, created, copy, saved, now>>
  BY DEF Q!ChangePosition, Q!At
<1>3. PICK i \in 1..n : Q!Queue[i] = t
  BY <1>1, <1>2
<1>4. from = i - 1
  BY <1>1, <1>3, IndexFacts, LenProperties
<1>5. from \in 0..(n - 1) /\ Q!Queue[from + 1] = t
  BY <1>1, <1>3, <1>4
<1> HIDE DEF from
<1>6. to \in 0..(n - 1)
  <2>1. \A x \in Int : Q!Clamp(x, n) \in 0..(n - 1)
    BY <1>1, <1>5 DEF Q!Clamp
  <2>2. how \in {"POS_SET", "POS_CUR", "POS_END"} /\ pos \in Int
    BY QueueAssumed DEF Q!QueueAssumption
  <2>3. from + pos \in Int /\ n - 1 + pos \in Int
    BY <1>1, <1>5, <2>2
  <2> QED
    BY <1>1, <2>1, <2>2, <2>3 DEF Q!Resolve
<1> HIDE DEF to
<1>7. place \in 0..(n - 1) /\ (to <= from => to = place)
  BY <1>1, <1>5, <1>6
<1>8. Q!Reorder(Q!Queue, from, to) = Moved(Q!Queue, from, place)
  BY DEF Q!Reorder, Moved
<1>9. c.list \in Seq(Downloads) /\ c \in QueueCalls
  <2>1. Moved(Q!Queue, from, place) \in Seq(Downloads)
    BY <1>1, <1>5, <1>7, MovedFacts
  <2>2. from \in Nat /\ to \in Nat
    BY <1>1, <1>5, <1>6
  <2> QED
    BY <1>8, <2>1, <2>2 DEF QueueCalls
<1>10. ListFits(c) /\ OrderFits(c) /\ c.pc = "apply"
  <2>1. /\ c.pc = "apply" /\ c.list = Moved(Q!Queue, from, place) /\ c.task = Q!Queue[from + 1]
        /\ (c.index <= c.from => c.index = place)
    BY <1>5, <1>7, <1>8
  <2> HIDE DEF c, place
  <2> QED
    BY <1>5, <1>7, <1>9, <2>1, MovedFits
<1>11. [Q!Idle EXCEPT !.pc = "save"] \in QueueCalls /\ [Q!Idle EXCEPT !.pc = "save"].pc = "save"
  BY IdleFacts
<1>12. \/ serving' = [serving EXCEPT ![p] = [Q!Idle EXCEPT !.pc = "save"]]
       \/ serving' = [serving EXCEPT ![p] = c]
  BY DEF from, to
<1> HIDE DEF c
<1>13. QueueTypes' /\ Kept
  BY <1>2, <1>9, <1>11, <1>12 DEF QueueTypes, Kept, Q!Held
<1>14. ASSUME NEW q \in Clients PROVE Goes(q)
  <2>1. CASE q # p
    BY <1>12, <2>1 DEF Goes, QueueTypes
  <2>2. CASE q = p
    BY <1>2, <1>10, <1>11, <1>12, <2>2 DEF Goes, Reads, QueueTypes
  <2> QED
    BY <2>1, <2>2
<1> QED
  BY <1>13, <1>14 DEF QueueStep

\* The dates that applyQueueOrder writes go up by one along the list of the call.
LEMMA StampFacts ==
    ASSUME QueueTypes, NEW p \in Clients, ListFits(serving[p]), Q!ApplyQueueOrder(p)
    PROVE  /\ created' \in [Downloads -> Int]
           /\ \E base \in Int : \A i \in 1..Len(serving[p].list) :
                 created'[serving[p].list[i]] = base + i
<1> DEFINE list == serving[p].list
           n == Len(list)
           base == now - (n + 1) * Second - 1
<1>1. list \in Seq(Downloads) /\ n \in Nat /\ DOMAIN list = 1..n
  <2>1. serving[p] \in QueueCalls
    BY DEF QueueTypes
  <2>2. list \in Seq(Downloads)
    BY <2>1 DEF QueueCalls
  <2> QED
    BY <2>2, LenProperties
<1>2. base \in Int /\ now - (n + 1) * Second \in Int /\ now - (n + 1) * Second = base + 1
  <2>1. n + 1 \in Int /\ Second \in Int /\ now \in Int
    BY <1>1, QueueConstants DEF QueueTypes
  <2>2. (n + 1) * Second \in Int
    BY <2>1
  <2> QED
    BY <2>1, <2>2
<1>3. ASSUME NEW i \in 1..n
      PROVE  /\ list[i] \in Q!Range(list) \cap Q!Held /\ list[i] \in Downloads
             /\ Q!Stamp(list, list[i]) = base + i
  <2>1. list[i] \in Q!Range(list) \cap Q!Held
    BY <1>1 DEF ListFits, Q!Range
  <2>2. Q!IndexOf(list[i], list) = i - 1
    BY <1>1, IndexFacts DEF ListFits
  <2>3. Q!Stamp(list, list[i]) = base + 1 + (i - 1)
    BY <1>2, <2>2 DEF Q!Stamp
  <2>4. base + 1 + (i - 1) = base + i
    BY <1>2
  <2> QED
    BY <2>1, <2>3, <2>4 DEF Q!Held
<1>4. created' = [t \in Downloads |-> IF t \in Q!Range(list) \cap Q!Held
                                      THEN Q!Stamp(list, t) ELSE created[t]]
  BY DEF Q!ApplyQueueOrder
<1>5. \A i \in 1..n : created'[list[i]] = base + i
  BY <1>3, <1>4
<1>6. ASSUME NEW t \in Q!Range(list) PROVE Q!Stamp(list, t) \in Int
  <2>1. PICK i \in 1..n : t = list[i]
    BY <1>1, <1>6 DEF Q!Range
  <2>2. base + i \in Int
    BY <1>2
  <2> QED
    BY <1>3, <2>1, <2>2
<1>7. created' \in [Downloads -> Int]
  BY <1>4, <1>6 DEF QueueTypes
<1> QED
  BY <1>2, <1>5, <1>7

LEMMA QueueApply ==
    ASSUME QueueTypes, NEW p \in Clients, ListFits(serving[p]), Q!ApplyQueueOrder(p)
    PROVE  QueueStep
<1>1. created' \in [Downloads -> Int] /\ now' \in Nat
  <2>1. created' \in [Downloads -> Int]
    BY StampFacts
  <2>2. now' = now + Tick /\ now \in Nat /\ Tick \in Nat
    BY QueueConstants DEF QueueTypes, Q!ApplyQueueOrder
  <2> QED
    BY <2>1, <2>2
<1>2. /\ [serving[p] EXCEPT !.pc = "save"] \in QueueCalls
      /\ [serving[p] EXCEPT !.pc = "save"].pc = "save"
  BY DEF QueueTypes, QueueCalls
<1>3. /\ serving' = [serving EXCEPT ![p] = [serving[p] EXCEPT !.pc = "save"]]
      /\ UNCHANGED <<status, copy, saved>>
  BY DEF Q!ApplyQueueOrder
<1>4. /\ serving' \in [Clients -> QueueCalls] /\ serving'[p].pc = "save"
      /\ \A q \in Clients \ {p} : serving'[q] = serving[q]
  BY <1>2, <1>3 DEF QueueTypes
<1>5. QueueTypes' /\ Kept
  BY <1>1, <1>3, <1>4 DEF QueueTypes, Kept, Q!Held
<1> QED
  BY <1>4, <1>5 DEF QueueStep, Goes

LEMMA MergedType == ASSUME QueueTypes PROVE \A t \in Downloads : Q!Merged(t) \in Int
BY DEF QueueTypes, Q!Merged

LEMMA QueueSave == ASSUME QueueTypes, NEW p \in Clients, Q!SaveSession(p) PROVE QueueStep
<1>1. /\ created' \in [Downloads -> Int]
      /\ saved' \in [Downloads -> [status : Q!Statuses, created : Int]]
      /\ UNCHANGED <<status, copy, now>>
  BY MergedType DEF QueueTypes, Q!SaveSession
<1>2. /\ serving' \in [Clients -> QueueCalls] /\ serving'[p].pc = "idle"
      /\ \A q \in Clients \ {p} : serving'[q] = serving[q]
  <2>1. Q!Idle \in QueueCalls /\ Q!Idle.pc = "idle" /\ serving' = [serving EXCEPT ![p] = Q!Idle]
    BY IdleIsCall DEF Q!SaveSession
  <2> QED
    BY <2>1 DEF QueueTypes
<1>3. QueueTypes' /\ Kept
  BY <1>1, <1>2 DEF QueueTypes, Kept, Q!Held
<1> QED
  BY <1>2, <1>3 DEF QueueStep, Goes

LEMMA QueueSync == ASSUME QueueTypes, NEW t \in Downloads, Q!SyncTask(t) PROVE QueueStep
<1>1. created' \in [Downloads -> Int] /\ UNCHANGED <<status, copy, saved, now, serving>>
  BY MergedType DEF QueueTypes, Q!SyncTask
<1>2. QueueTypes' /\ Kept
  BY <1>1 DEF QueueTypes, Kept, Q!Held
<1> QED
  BY <1>1, <1>2 DEF QueueStep, Goes

LEMMA QueueBecomes ==
    ASSUME QueueTypes, NEW t \in Downloads, NEW s \in Q!Statuses \ {"none"}, Q!Becomes(t, s)
    PROVE  QueueStep
<1>1. created' \in [Downloads -> Int] /\ UNCHANGED <<copy, saved, now, serving>>
  BY MergedType DEF QueueTypes, Q!Becomes
<1>2. status' \in [Downloads -> Q!Statuses] /\ Q!Held \subseteq Q!Held'
  BY DEF QueueTypes, Q!Becomes, Q!Held
<1>3. QueueTypes' /\ Kept
  BY <1>1, <1>2 DEF QueueTypes, Kept
<1> QED
  BY <1>1, <1>3 DEF QueueStep, Goes

LEMMA QueueRestart == ASSUME QueueTypes, Q!Restart PROVE QueueStep
<1>1. /\ status' \in [Downloads -> Q!Statuses] /\ created' \in [Downloads -> Int]
      /\ UNCHANGED <<saved, now>>
  BY DEF QueueTypes, Q!Restart
<1>2. Q!Zero \in Int
  BY DEF Q!Zero
<1>3. copy' \in [Downloads -> Int]
  BY <1>2 DEF QueueTypes, Q!Restart
<1>4. serving' \in [Clients -> QueueCalls] /\ \A p \in Clients : serving'[p].pc = "idle"
  BY IdleIsCall DEF Q!Restart
<1>5. QueueTypes' /\ Kept
  BY <1>1, <1>3, <1>4 DEF QueueTypes, Kept
<1> QED
  BY <1>4, <1>5 DEF QueueStep, Goes

LEMMA QueueStill ==
    ASSUME QueueTypes, UNCHANGED <<status, created, copy, saved, now, serving>> PROVE QueueStep
<1>1. QueueTypes' /\ Kept
  BY DEF QueueTypes, Kept, Q!Held
<1> QED
  BY <1>1 DEF QueueStep, Goes

LEMMA PickedStep == ASSUME PickedType, Q!Step PROVE PickedType'
BY DEF PickedType, Q!Step, Q!PickNext, Q!StartPicked, Q!Restart

LEMMA QueueSteps == ASSUME QueueInv, Q!Step PROVE QueueStep
<1>1. QueueTypes
  BY QueueTypeParts DEF QueueInv
<1>2. ASSUME NEW p \in Clients, Q!ApplyQueueOrder(p) PROVE QueueStep
  <2>1. ListFits(serving[p])
    BY <1>2 DEF QueueInv, Q!ApplyQueueOrder, Q!At
  <2> QED
    BY <1>1, <1>2, <2>1, QueueApply
<1>3. ASSUME NEW p \in Clients, Q!InsertAtPosition(p) \/ Q!SaveSession(p) PROVE QueueStep
  <2>1. Q!InsertAtPosition(p) => serving[p].task \in Q!Held
    BY DEF QueueInv, Q!InsertAtPosition, Q!At
  <2> QED
    BY <1>1, <1>3, <2>1, QueueInsert, QueueSave
<1>4. ASSUME NEW p \in Clients, NEW t \in Downloads,
             Q!Add(p, t) \/ Q!ChangePosition(p, t)
      PROVE QueueStep
  BY <1>1, <1>4, QueueAdd, QueueMove
<1>5. ASSUME NEW t \in Downloads, Q!SyncTask(t) PROVE QueueStep
  BY <1>1, <1>5, QueueSync
<1>6. ASSUME NEW t \in Downloads,
             Q!PickNext(t) \/ Q!StartPicked(t) \/ Q!Pause(t) \/ Q!Unpause(t) \/ Q!Finish(t)
      PROVE QueueStep
  <2>1. \/ \E s \in Q!Statuses \ {"none"} : Q!Becomes(t, s)
        \/ UNCHANGED <<status, created, copy, saved, now, serving>>
    BY <1>6 DEF Q!PickNext, Q!StartPicked, Q!Pause, Q!Unpause, Q!Finish, Q!Statuses
  <2> QED
    BY <1>1, <2>1, QueueBecomes, QueueStill
<1>7. ASSUME Q!Restart PROVE QueueStep
  BY <1>1, <1>7, QueueRestart
<1> QED
  BY <1>2, <1>3, <1>4, <1>5, <1>6, <1>7 DEF Q!Step, Q!Call

LEMMA QueueInvKept == QueueInv /\ [Q!Next]_(Q!vars) => QueueInv'
<1> SUFFICES ASSUME QueueInv, [Q!Next]_(Q!vars) PROVE QueueInv'
  OBVIOUS
<1>1. ASSUME UNCHANGED Q!vars PROVE QueueInv'
  BY <1>1 DEF QueueInv, Q!vars, Q!TypeOK, ListFits, OrderFits, Q!Held, Q!Before
<1>2. ASSUME Q!Next PROVE QueueInv'
  <2>1. QueueStep
    BY <1>2, QueueSteps DEF Q!Next
  <2>2. overtaken' = {p \in Clients : /\ serving'[p].pc = "apply"
                                      /\ p \in overtaken \/ Q!Changed(serving[p].list)}
    BY <1>2 DEF Q!Next
  <2>3. Q!TypeOK' /\ \A p \in overtaken' : serving'[p].pc = "apply"
    <3>1. Q!TypeOK' <=> QueueTypes' /\ PickedType' /\ overtaken' \subseteq Clients
      BY DEF Q!TypeOK, QueueTypes, QueueCalls, PickedType
    <3>2. PickedType'
      BY <1>2, QueueTypeParts, PickedStep DEF QueueInv, Q!Next
    <3> QED
      BY <2>1, <2>2, <3>1, <3>2 DEF QueueStep
  <2>4. ASSUME NEW p \in Clients, serving'[p].pc = "apply"
        PROVE  ListFits(serving[p])' /\ (p \notin overtaken' => OrderFits(serving[p])')
    <3>1. CASE Reads(p)
      <4>1. ListFits(serving[p])'
        BY <3>1 DEF Reads, ListFits, Q!Held
      <4>2. OrderFits(serving[p])'
        BY <3>1 DEF Reads, OrderFits, Q!Before
      <4> QED
        BY <4>1, <4>2
    <3>2. CASE serving'[p] = serving[p]
      <4>1. /\ ListFits(serving[p]) /\ (p \notin overtaken => OrderFits(serving[p]))
            /\ Q!Held \subseteq Q!Held'
        BY <2>1, <2>4, <3>2 DEF QueueInv, QueueStep, Kept
      <4>2. ListFits(serving[p])'
        BY <3>2, <4>1 DEF ListFits
      <4>3. ASSUME p \notin overtaken' PROVE OrderFits(serving[p])'
        <5>1. p \notin overtaken /\ ~Q!Changed(serving[p].list)
          BY <2>2, <2>4, <4>3
        <5>2. \A i \in DOMAIN serving[p].list :
                 created'[serving[p].list[i]] = created[serving[p].list[i]]
          BY <5>1 DEF Q!Changed, Q!Range
        <5> QED
          BY <3>2, <4>1, <5>1, <5>2 DEF OrderFits, Q!Before
      <4> QED
        BY <4>2, <4>3
    <3> QED
      BY <2>1, <2>4, <3>1, <3>2 DEF QueueStep, Goes, Asks
  <2>5. ASSUME NEW p \in Clients, serving'[p].pc = "insert" PROVE serving'[p].task \in Q!Held'
    BY <2>1, <2>5 DEF QueueInv, QueueStep, Kept, Goes, Asks, Reads
  <2> QED
    BY <2>3, <2>4, <2>5 DEF QueueInv
<1> QED
  BY <1>1, <1>2

LEMMA QueueInvInit == Q!Init => QueueInv
<1> SUFFICES ASSUME Q!Init PROVE QueueInv
  OBVIOUS
<1>1. QueueTypes /\ PickedType /\ \A p \in Clients : serving[p].pc = "idle"
  <2>1. Q!Zero \in Int /\ "none" \in Q!Statuses
    BY DEF Q!Zero, Q!Statuses
  <2>2. serving \in [Clients -> QueueCalls] /\ \A p \in Clients : serving[p].pc = "idle"
    BY IdleIsCall DEF Q!Init
  <2> QED
    BY <2>1, <2>2 DEF Q!Init, QueueTypes, PickedType
<1>2. overtaken = {}
  BY DEF Q!Init
<1> QED
  BY <1>1, <1>2, QueueTypeParts DEF QueueInv

\* Types; and a call between its two critical sections (changePosition, insertTaskAtQueuePosition)
\* holds an order of tasks that are still there, each once, which differs from the queue at the
\* place of its own task only unless dates have changed since.
THEOREM QueueInvariant == QueueSpec => []QueueInv
BY QueueInvInit, QueueInvKept, PTL DEF QueueSpec, Q!Spec

\* What a call that writes its order is known to hold.
LEMMA CallFacts ==
    ASSUME QueueInv, NEW p \in Clients, Q!ApplyQueueOrder(p)
    PROVE  LET list == serving[p].list  n == Len(list)
           IN /\ n \in Nat /\ DOMAIN list = 1..n /\ \A i \in 1..n : list[i] \in Downloads
              /\ Q!Range(list) = {list[i] : i \in 1..n}
              /\ \A i, j \in 1..n : list[i] = list[j] => i = j
              /\ serving[p].index \in Nat /\ serving[p].from \in Nat
              /\ serving[p].index <= serving[p].from =>
                    serving[p].index < n /\ list[serving[p].index + 1] = serving[p].task
              /\ serving'[p].list = list /\ serving'[p].task = serving[p].task
<1>1. QueueTypes /\ ListFits(serving[p])
  BY QueueTypeParts DEF QueueInv, Q!ApplyQueueOrder, Q!At
<1>2. serving[p] \in QueueCalls
  BY <1>1 DEF QueueTypes
<1>3. serving[p].list \in Seq(Downloads) /\ serving[p].index \in Nat /\ serving[p].from \in Nat
  BY <1>2 DEF QueueCalls
<1>4. serving'[p] = [serving[p] EXCEPT !.pc = "save"]
  BY <1>1 DEF QueueTypes, Q!ApplyQueueOrder
<1>5. serving'[p].list = serving[p].list /\ serving'[p].task = serving[p].task
  BY <1>2, <1>4 DEF QueueCalls
<1>6. /\ Len(serving[p].list) \in Nat /\ DOMAIN serving[p].list = 1..Len(serving[p].list)
      /\ \A i \in 1..Len(serving[p].list) : serving[p].list[i] \in Downloads
  BY <1>3, LenProperties, ElementOfSeq
<1> QED
  BY <1>1, <1>3, <1>5, <1>6 DEF ListFits, Q!Range

\* Before the task that lands are the first index tasks of the list.
LEMMA TaskLands ==
    ASSUME QueueInv, NEW p \in Clients, Q!ApplyQueueOrder(p), serving[p].index <= serving[p].from
    PROVE  Q!Ahead(serving[p].task, Q!Range(serving[p].list))' = serving[p].index
<1> DEFINE list == serving[p].list
           n == Len(list)
           k == serving[p].index
           f == [i \in 1..k |-> list[i]]
           A == {u \in {list[i] : i \in 1..n} : Precedes(created', u, serving[p].task)}
<1>1. /\ n \in Nat /\ DOMAIN list = 1..n /\ \A i \in 1..n : list[i] \in Downloads
      /\ Q!Range(list) = {list[i] : i \in 1..n}
      /\ \A i, j \in 1..n : list[i] = list[j] => i = j
      /\ k \in Nat /\ k < n /\ list[k + 1] = serving[p].task
      /\ serving'[p].list = list /\ serving'[p].task = serving[p].task
  BY CallFacts
<1>2. PICK base \in Int : \A i \in 1..n : created'[list[i]] = base + i
  <2>1. QueueTypes /\ ListFits(serving[p])
    BY QueueTypeParts DEF QueueInv, Q!ApplyQueueOrder, Q!At
  <2> QED
    BY <2>1, StampFacts
<1>3. Q!Ahead(serving[p].task, Q!Range(serving[p].list))' = Cardinality(A)
  <2>1. Q!Ahead(serving[p].task, Q!Range(serving[p].list))' =
           Q!Cardinality({u \in Q!Range(serving'[p].list) :
                             Precedes(created', u, serving'[p].task)})
    BY DEF Q!Ahead, Q!Before, Precedes, Q!Range
  <2> QED
    BY <1>1, <2>1, SameCardinality
<1>4. k \in 0..n /\ k + 1 \in 1..n
  BY <1>1
<1> HIDE DEF list, n, k
<1>5. \A i \in 1..n : Precedes(created', list[i], serving[p].task) <=> i \in 1..k
  <2> SUFFICES ASSUME NEW i \in 1..n
               PROVE  Precedes(created', list[i], serving[p].task) <=> i \in 1..k
    OBVIOUS
  <2>1. created'[list[i]] = base + i /\ created'[serving[p].task] = base + (k + 1)
    BY <1>1, <1>2, <1>4
  <2>2. i = k + 1 => list[i] = serving[p].task
    BY <1>1
  <2>3. i \in Nat /\ list[i] \in Nat /\ serving[p].task \in Nat
    BY <1>1, <1>4, QueueConstants
  <2> QED
    BY <1>1, <1>2, <2>1, <2>2, <2>3 DEF Precedes
<1>6. A = {list[i] : i \in 1..k}
  <2>1. 1..k \subseteq 1..n
    BY <1>1, <1>4
  <2>2. ASSUME NEW u \in A PROVE u \in {list[i] : i \in 1..k}
    <3>1. PICK i \in 1..n : u = list[i]
      BY <2>2
    <3> QED
      BY <1>5, <2>2, <3>1
  <2>3. ASSUME NEW i \in 1..k PROVE list[i] \in A
    BY <1>5, <2>1, <2>3
  <2> QED
    BY <2>2, <2>3
<1>7. f \in Bijection(1..k, A)
  <2>1. f \in [1..k -> A] /\ \A a \in A : \E i \in 1..k : f[i] = a
    BY <1>6
  <2>2. \A i, j \in 1..k : f[i] = f[j] => i = j
    BY <1>1, <1>4
  <2> QED
    BY <2>1, <2>2 DEF Bijection, Injection, Surjection, IsInjective
<1>8. IsFiniteSet(1..k) /\ Cardinality(1..k) = k
  <2>1. k \in Int /\ 1 \in Int /\ (1 > k => k = 0) /\ k - 1 + 1 = k
    BY <1>1
  <2>2. IsFiniteSet(1..k) /\ Cardinality(1..k) = IF 1 > k THEN 0 ELSE k - 1 + 1
    BY <2>1, FS_Interval
  <2> QED
    BY <2>1, <2>2
<1>9. Cardinality(A) = k
  <2>1. ExistsBijection(1..k, A)
    BY <1>7, Zenon DEF ExistsBijection
  <2> HIDE DEF A
  <2> QED
    BY <1>8, <2>1, FS_Bijection
<1> QED
  BY <1>3, <1>9 DEF k

LEMMA OthersStay ==
    ASSUME QueueInv, NEW p \in Clients, Q!ApplyQueueOrder(p), p \notin overtaken,
           NEW t \in Q!Range(serving[p].list) \ {serving[p].task},
           NEW u \in Q!Range(serving[p].list) \ {serving[p].task}
    PROVE  Q!Before(t, u)' = Q!Before(t, u)
<1> DEFINE list == serving[p].list
           n == Len(list)
<1>1. /\ n \in Nat /\ DOMAIN list = 1..n /\ \A i \in 1..n : list[i] \in Downloads
      /\ Q!Range(list) = {list[i] : i \in 1..n}
  BY CallFacts
<1>2. QueueTypes /\ ListFits(serving[p]) /\ OrderFits(serving[p])
  BY QueueTypeParts DEF QueueInv, Q!ApplyQueueOrder, Q!At
<1>3. PICK base \in Int : \A i \in 1..n : created'[list[i]] = base + i
  BY <1>2, StampFacts
<1>4. PICK i \in 1..n : t = list[i]
  BY <1>1
<1>5. PICK j \in 1..n : u = list[j]
  BY <1>1
<1>6. /\ i < j => Q!Before(t, u)
      /\ j < i => Q!Before(u, t)
      /\ i = j => t = u
  BY <1>1, <1>2, <1>4, <1>5 DEF OrderFits
<1>7. /\ created[t] \in Int /\ created[u] \in Int /\ t \in Nat /\ u \in Nat
      /\ i \in Nat /\ j \in Nat
  <2>1. t \in Downloads /\ u \in Downloads /\ i \in Nat /\ j \in Nat
    BY <1>1, <1>4, <1>5
  <2>2. created \in [Downloads -> Int] /\ Downloads \subseteq Nat
    BY <1>2, QueueConstants DEF QueueTypes
  <2> QED
    BY <2>1, <2>2
<1>8. Q!Before(t, u) <=> i < j
  BY <1>6, <1>7 DEF Q!Before
<1>9. Q!Before(t, u)' <=> i < j
  <2>1. created'[t] = base + i /\ created'[u] = base + j
    BY <1>3, <1>4, <1>5
  <2> HIDE DEF list, n
  <2> QED
    BY <1>3, <1>6, <1>7, <2>1 DEF Q!Before
<1> QED
  BY <1>8, <1>9 DEF Q!Before

\* When a call writes its order (applyQueueOrder) the task stands at the position asked for if
\* it moves towards the head, and no other changes places unless dates have changed meanwhile,
\* for any number of tasks and callers.
THEOREM MovesAreExact == QueueSpec => MoveIsExact
<1>1. ASSUME QueueInv, [Q!Next]_(Q!vars)
      PROVE  [\A p \in Clients : Q!ApplyQueueOrder(p) /\ serving[p].index <= serving[p].from =>
                 Q!Ahead(serving[p].task, Q!Range(serving[p].list))' = serving[p].index]_(Q!vars)
  BY <1>1, TaskLands
<1>2. ASSUME QueueInv, [Q!Next]_(Q!vars)
      PROVE  [\A p \in Clients : Q!ApplyQueueOrder(p) /\ p \notin overtaken =>
                 \A t, u \in Q!Range(serving[p].list) \ {serving[p].task} :
                    Q!Before(t, u)' = Q!Before(t, u)]_(Q!vars)
  BY <1>2, OthersStay
<1> QED
  BY <1>1, <1>2, QueueInvariant, PTL
     DEF QueueSpec, Q!Spec, MoveIsExact, Q!MoveIsExact, Q!EarlierLands, Q!OthersKeepOrder
=============================================================================
