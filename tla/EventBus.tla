------------------------------ MODULE EventBus ------------------------------
(***************************************************************************)
(* Manager.emit, Manager.Subscribe and the WebSocket connections that       *)
(* subscribe (core/manager/manager.go, rpc/jsonrpc/websocket.go).           *)
(*                                                                          *)
(* emit holds subMu for reading while it sends to the channel of every      *)
(* subscriber, and a send waits while the channel is full.  A connection    *)
(* has two goroutines: the reader, which serves requests and, being an RPC  *)
(* client of the manager, emits; and the writer, which takes events from    *)
(* the channel.  A connection that breaks takes subMu for writing to leave. *)
(***************************************************************************)
EXTENDS Integers, Sequences, FiniteSets

CONSTANTS
    Emitters,     \* goroutines outside WebSocket connections that emit
    Conns,        \* WebSocket connections
    Cap,          \* capacity of a channel; 256 in the code
    EmitBound,    \* bound on the events of one goroutine
    MayBreak,     \* connections whose peer may go away
    None

ASSUME SizeAssumption == Cap \in Nat \ {0} /\ EmitBound \in Nat
ASSUME NameAssumption == Emitters \cap Conns = {} /\ MayBreak \subseteq Conns

Actors == Emitters \cup Conns      \* a connection emits through its reader
Events == Actors \X (0..EmitBound)

VARIABLES
    subscribers,  \* the keys of Manager.subscribers
    chan,         \* what is buffered in the channel of a connection
    emitPc,       \* where an actor is inside emit
    unsent,       \* subscribers that its event has not been sent to
    emitted,      \* number of events emitted, the one at hand included
    link,         \* state of the TCP connection
    cancelled,    \* ctx of the connection is done
    reader, writer, \* where the two goroutines of a connection are
    taken         \* events that the writer took, in order

busVars  == <<subscribers, chan>>
emitVars == <<emitPc, unsent, emitted>>
connVars == <<link, cancelled, reader, writer, taken>>
vars == <<busVars, emitVars, connVars>>

\* A pending Lock keeps later RLock calls of the RWMutex waiting.
WriterWaits == \E c \in Conns : reader[c] \in {"subscribe", "unsubscribe"}
ReadHeld == \E a \in Actors : emitPc[a] = "send"

-----------------------------------------------------------------------------
(* emit *)

Enter(a) == /\ emitted[a] < EmitBound
            /\ emitted' = [emitted EXCEPT ![a] = @ + 1]
            /\ emitPc' = [emitPc EXCEPT ![a] = "lock"]

Emit(a) ==
    /\ a \in Emitters /\ emitPc[a] = "idle" /\ Enter(a)
    /\ UNCHANGED <<busVars, unsent, connVars>>

EmitLock(a) ==
    /\ emitPc[a] = "lock" /\ ~WriterWaits
    /\ emitPc' = [emitPc EXCEPT ![a] = "send"]
    /\ unsent' = [unsent EXCEPT ![a] = subscribers]
    /\ UNCHANGED <<busVars, emitted, connVars>>

\* Mutant: an event is dropped when the channel is full.
EmitSendOrDrop(a, c) ==
    /\ emitPc[a] = "send" /\ c \in unsent[a]
    /\ chan' = IF Len(chan[c]) < Cap THEN [chan EXCEPT ![c] = Append(@, <<a, emitted[a]>>)]
                                     ELSE chan
    /\ unsent' = [unsent EXCEPT ![a] = @ \ {c}]
    /\ UNCHANGED <<subscribers, emitPc, emitted, connVars>>

EmitSend(a, c) ==
    /\ emitPc[a] = "send" /\ c \in unsent[a] /\ Len(chan[c]) < Cap
    /\ chan' = [chan EXCEPT ![c] = Append(@, <<a, emitted[a]>>)]
    /\ unsent' = [unsent EXCEPT ![a] = @ \ {c}]
    /\ UNCHANGED <<subscribers, emitPc, emitted, connVars>>

EmitUnlock(a) ==
    /\ emitPc[a] = "send" /\ unsent[a] = {}
    /\ emitPc' = [emitPc EXCEPT ![a] = "idle"]
    /\ UNCHANGED <<busVars, unsent, emitted, connVars>>

EmitStep(a) == EmitLock(a) \/ (\E c \in Conns : EmitSend(a, c)) \/ EmitUnlock(a)

-----------------------------------------------------------------------------
(* serveWebSocket *)

To(c, step) == reader' = [reader EXCEPT ![c] = step]
Broken(c) == cancelled' = [cancelled EXCEPT ![c] = TRUE]

Connect(c) ==
    /\ reader[c] = "new" /\ To(c, "subscribe")
    /\ UNCHANGED <<busVars, emitVars, link, cancelled, writer, taken>>

\* Mutant: nobody is started to read the channel.
SubscribeUnread(c) ==
    /\ reader[c] = "subscribe" /\ ~ReadHeld
    /\ subscribers' = subscribers \cup {c}
    /\ To(c, "read") /\ UNCHANGED writer
    /\ UNCHANGED <<chan, emitVars, link, cancelled, taken>>

Subscribe(c) ==
    /\ reader[c] = "subscribe" /\ ~ReadHeld
    /\ subscribers' = subscribers \cup {c}
    /\ To(c, "read") /\ writer' = [writer EXCEPT ![c] = "select"]
    /\ UNCHANGED <<chan, emitVars, link, cancelled, taken>>

\* ReadMessage returns a request, and what it does emits an event.
Request(c) ==
    /\ reader[c] = "read" /\ link[c] = "up"
    /\ To(c, "serve") /\ Enter(c)
    /\ UNCHANGED <<busVars, unsent, link, cancelled, writer, taken>>

Reply(c) ==
    /\ reader[c] = "serve" /\ emitPc[c] = "idle"
    /\ \/ link[c] = "up" /\ To(c, "read") /\ UNCHANGED cancelled
       \/ link[c] = "down" /\ To(c, "wait") /\ Broken(c)
    /\ UNCHANGED <<busVars, emitVars, link, writer, taken>>

ReadFails(c) ==
    /\ reader[c] = "read" /\ link[c] = "down"
    /\ To(c, "wait") /\ Broken(c)
    /\ UNCHANGED <<busVars, emitVars, link, writer, taken>>

\* wg.Wait
Joined(c) ==
    /\ reader[c] = "wait" /\ writer[c] = "done"
    /\ To(c, "unsubscribe")
    /\ UNCHANGED <<busVars, emitVars, link, cancelled, writer, taken>>

\* Mutant: unsubscribe does not lock subMu.
UnsubscribeUnlocked(c) ==
    /\ reader[c] = "unsubscribe"
    /\ subscribers' = subscribers \ {c}
    /\ To(c, "gone")
    /\ UNCHANGED <<chan, emitVars, link, cancelled, writer, taken>>

Unsubscribe(c) ==
    /\ reader[c] = "unsubscribe" /\ ~ReadHeld
    /\ subscribers' = subscribers \ {c}
    /\ To(c, "gone")
    /\ UNCHANGED <<chan, emitVars, link, cancelled, writer, taken>>

\* select picks either case when both are ready.
Take(c) ==
    /\ writer[c] = "select" /\ chan[c] # <<>>
    /\ taken' = [taken EXCEPT ![c] = Append(@, Head(chan[c]))]
    /\ chan' = [chan EXCEPT ![c] = Tail(@)]
    /\ \E step \in {"select", "write"} :       \* not every event makes a notification
          writer' = [writer EXCEPT ![c] = step]
    /\ UNCHANGED <<subscribers, emitVars, link, cancelled, reader>>

WriterStops(c) ==
    /\ writer[c] = "select" /\ cancelled[c]
    /\ writer' = [writer EXCEPT ![c] = "done"]
    /\ UNCHANGED <<busVars, emitVars, link, cancelled, reader, taken>>

\* A failed write ends the writer and leaves the reader in ReadMessage.
Write(c) ==
    /\ writer[c] = "write"
    /\ \/ /\ link[c] = "up" /\ UNCHANGED cancelled
          /\ writer' = [writer EXCEPT ![c] = "select"]
       \/ link[c] = "down" /\ Broken(c) /\ writer' = [writer EXCEPT ![c] = "done"]
    /\ UNCHANGED <<busVars, emitVars, link, reader, taken>>

PeerLeaves(c) ==
    /\ c \in MayBreak /\ link[c] = "up" /\ reader[c] \notin {"new", "gone"}
    /\ link' = [link EXCEPT ![c] = "down"]
    /\ UNCHANGED <<busVars, emitVars, cancelled, reader, writer, taken>>

\* A write to a peer that is there but does not read may wait for ever: there is no deadline.
ReaderGoesOn(c) == \/ Subscribe(c) \/ ReadFails(c) \/ Joined(c) \/ Unsubscribe(c)
                   \/ link[c] = "down" /\ Reply(c)
WriterGoesOn(c) == Take(c) \/ WriterStops(c) \/ (link[c] = "down" /\ Write(c))

ReaderStep(c) == Subscribe(c) \/ Reply(c) \/ ReadFails(c) \/ Joined(c) \/ Unsubscribe(c)
WriterStep(c) == Take(c) \/ WriterStops(c) \/ Write(c)

-----------------------------------------------------------------------------

Init ==
    /\ subscribers = {} /\ chan = [c \in Conns |-> <<>>]
    /\ emitPc = [a \in Actors |-> "idle"] /\ unsent = [a \in Actors |-> {}]
    /\ emitted = [a \in Actors |-> 0]
    /\ link = [c \in Conns |-> "up"] /\ cancelled = [c \in Conns |-> FALSE]
    /\ reader = [c \in Conns |-> "new"] /\ writer = [c \in Conns |-> "none"]
    /\ taken = [c \in Conns |-> <<>>]

Next == \/ \E a \in Actors : Emit(a) \/ EmitStep(a)
        \/ \E c \in Conns : \/ Connect(c) \/ Request(c) \/ PeerLeaves(c)
                            \/ ReaderStep(c) \/ WriterStep(c)
Spec == Init /\ [][Next]_vars

\* Goroutines that can go on do, a write to a peer that is gone fails, and a waiting Lock
\* or RLock is granted; that clients connect, call and read is up to them.
Fairness == /\ \A a \in Actors : WF_vars(EmitStep(a))
            /\ \A c \in Conns : WF_vars(ReaderGoesOn(c)) /\ WF_vars(WriterGoesOn(c))
FairSpec == Spec /\ Fairness

-----------------------------------------------------------------------------
(* Properties. *)

\* Every variable has its type.
TypeOK ==
    /\ subscribers \subseteq Conns
    /\ chan \in [Conns -> Seq(Events)] /\ taken \in [Conns -> Seq(Events)]
    /\ emitPc \in [Actors -> {"idle", "lock", "send"}]
    /\ unsent \in [Actors -> SUBSET Conns] /\ emitted \in [Actors -> 0..EmitBound]
    /\ link \in [Conns -> {"up", "down"}] /\ cancelled \in [Conns -> BOOLEAN]
    /\ reader \in [Conns -> {"new", "subscribe", "read", "serve", "wait", "unsubscribe", "gone"}]
    /\ writer \in [Conns -> {"none", "select", "write", "done"}]

\* emit never sends on a channel that unsubscribe has closed, which would panic: a
\* connection leaves only while no emit is under way.
NoSendOnClosed == \A a \in Actors : emitPc[a] = "send" => unsent[a] \subseteq subscribers

\* A connection sees the events of one goroutine in order and without gaps, from the
\* first one it sees to the last, however several goroutines emit at once.
Seen(c) == taken[c] \o chan[c]
Following(i, s) == {j \in (i + 1)..Len(s) : s[j][1] = s[i][1]}   \* of the same goroutine
InOrder ==
    \A c \in Conns : \A i \in 1..Len(Seen(c)) :
       LET seen == Seen(c)
           a == seen[i][1]
           rest == Following(i, seen)
       IN IF rest = {}
          THEN c \in subscribers /\ emitPc[a] = "idle" => seen[i][2] = emitted[a]
          ELSE \E j \in rest : seen[j][2] = seen[i][2] + 1 /\ \A k \in rest : j <= k

\* emit returns: a caller of the manager that announces an event gets on.
EmitReturns == \A a \in Actors : emitPc[a] # "idle" ~> emitPc[a] = "idle"

\* It does unless the channel of a connection is full and nobody takes from it any more: its
\* writer has ended, or waits for ever for a peer that does not read.
Clogged(c) == writer[c] = "done" /\ Len(chan[c]) = Cap
Unread(c)  == writer[c] = "write" /\ link[c] = "up" /\ Len(chan[c]) = Cap
EmitReturnsUnlessClogged ==
    \/ \E c \in Conns : <>[]Unread(c)
    \/ \A a \in Actors :
          emitPc[a] # "idle" ~> emitPc[a] = "idle" \/ \E c \in Conns : Clogged(c)
==============================================================================
