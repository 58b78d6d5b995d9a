------------------------------ MODULE RpcServer ------------------------------
(***************************************************************************)
(* The JSON-RPC front (rpc/jsonrpc/process.go, compat/aria2/service.go) and  *)
(* the XML-RPC one, which has the same handlers.                            *)
(*                                                                          *)
(* A request body is one call or a batch, and a call of system.multicall    *)
(* holds further calls, so a goroutine that serves a client works on a      *)
(* stack of frames: the body below and a multicall on each level above it.  *)
(* Calls are served in order, and each one appends its answer to its frame. *)
(* What a call of the task manager does is left to the module that composes *)
(* this one (Daemon); here it is only known that it was carried out.        *)
(***************************************************************************)
EXTENDS Integers, Sequences, FiniteSets

CONSTANTS
    Clients,    \* connections that send requests
    Bodies,     \* the request bodies; a bound
    None

VARIABLES
    config,     \* .secret: rpc-secret is set; .strict: rpc-strict-auth
    request,    \* the body that a client waits on, or None
    frames,     \* the stack of the goroutine that serves it
    ran         \* history: places in the body of the calls that were carried out

rpcVars == <<request, frames, ran>>

\* Methods by what becomes of them.  "broken" is an item that does not parse, has the
\* wrong version or names no method.
Methods == {"listMethods", "multicall", "read", "change", "saveSession",
            "shutdown", "forceShutdown", "unknown", "broken"}
Managed == {"change", "saveSession", "shutdown", "forceShutdown"}

Answer(kind, list) == [kind |-> kind, list |-> list]
Frame(multi, calls) == [multi |-> multi, calls |-> calls, answers |-> <<>>]

-----------------------------------------------------------------------------

Top(c) == frames[c][Len(frames[c])]
Done(c) == Len(Top(c).answers) = Len(Top(c).calls)
Serving(c) == frames[c] # <<>> /\ ~Done(c)
Call(c) == Top(c).calls[Len(Top(c).answers) + 1]
\* Where the call at hand stands in the body.
Place(c) == [d \in 1..Len(frames[c]) |-> Len(frames[c][d].answers) + 1]

Push(stack, answer) ==
    [stack EXCEPT ![Len(stack)].answers = Append(@, answer)]
Answered(c, kind) ==
    /\ frames' = [frames EXCEPT ![c] = Push(@, Answer(kind, <<>>))]
    /\ UNCHANGED request

\* Mutant: the calls inside a multicall are as good as the multicall.
NeedsTokenOutside(c) ==
    ~Top(c).multi /\ (config.strict \/ Call(c).method \notin {"listMethods", "multicall"})
\* Invoke asks for a token unless the method is open; multicall asks for one of each call.
NeedsToken(c) ==
    Top(c).multi \/ config.strict \/ Call(c).method \notin {"listMethods", "multicall"}
Permitted(c) == config.secret /\ NeedsToken(c) => Call(c).token = "good"

\* A call without an id is a notification; it is not carried out.
Notification(c) == ~Top(c).multi /\ ~Call(c).id /\ Call(c).method # "broken"
Executable(c, methods) ==
    Serving(c) /\ ~Notification(c) /\ Permitted(c) /\ Call(c).method \in methods

Receive(c, body) ==
    /\ request[c] = None
    /\ request' = [request EXCEPT ![c] = body]
    /\ frames' = [frames EXCEPT ![c] = <<Frame(FALSE, body)>>]
    /\ ran' = [ran EXCEPT ![c] = {}]

\* xmlrpc/server.go: a request is one call, and it is always answered.
WithId(body) == <<[body[1] EXCEPT !.id = TRUE]>>
ReceiveXml(c, body) == Len(body) = 1 /\ Receive(c, WithId(body))

Ignore(c) == Serving(c) /\ Notification(c) /\ Answered(c, "null") /\ UNCHANGED ran

\* Where no token is asked for none is taken off, and multicall finds it in place of its list.
Misplaced(c) == Call(c).method = "multicall" /\ ~NeedsToken(c) /\ Call(c).token # "none"
Refused(c) == /\ Serving(c) /\ ~Notification(c)
              /\ Call(c).method \in {"broken", "unknown"} \/ ~Permitted(c) \/ Misplaced(c)
Refuse(c) == Refused(c) /\ Answered(c, "error") /\ UNCHANGED ran

Read(c) ==
    /\ Executable(c, {"listMethods", "read"})
    /\ \E kind \in IF Call(c).method = "read" THEN {"ok", "error"} ELSE {"ok"} :
          Answered(c, kind)
    /\ UNCHANGED ran

Multicall(c) ==
    /\ Executable(c, {"multicall"}) /\ ~Misplaced(c)
    /\ frames' = [frames EXCEPT ![c] = Append(@, Frame(TRUE, Call(c).calls))]
    /\ UNCHANGED <<request, ran>>

MulticallReturns(c) ==
    /\ Len(frames[c]) > 1 /\ Done(c)
    /\ frames' = [frames EXCEPT ![c] =
                     Push(SubSeq(@, 1, Len(@) - 1), Answer("ok", Top(c).answers))]
    /\ UNCHANGED <<request, ran>>

\* The answer is sent, or nothing at all when the body holds only notifications.
Reply(c) ==
    /\ Len(frames[c]) = 1 /\ Done(c)
    /\ request' = [request EXCEPT ![c] = None]
    /\ frames' = [frames EXCEPT ![c] = <<>>]
    /\ ran' = [ran EXCEPT ![c] = {}]

Dispatch(c) == \/ Ignore(c) \/ Refuse(c) \/ Read(c) \/ Multicall(c)
               \/ MulticallReturns(c) \/ Reply(c)

\* The call at hand is carried out.
Carried(c) == ran' = [ran EXCEPT ![c] = @ \cup {Place(c)}]

RpcInit == /\ request = [c \in Clients |-> None]
           /\ frames = [c \in Clients |-> <<>>] /\ ran = [c \in Clients |-> {}]
\* The process is gone, and its connections with it.
Hangup == /\ request' = [c \in Clients |-> None]
          /\ frames' = [c \in Clients |-> <<>>] /\ ran' = [c \in Clients |-> {}]

-----------------------------------------------------------------------------
(* Properties. *)

\* Every variable has its type.
RpcTypeOK ==
    /\ config.secret \in BOOLEAN /\ config.strict \in BOOLEAN
    /\ request \in [Clients -> Bodies \cup {None}]
    /\ \A c \in Clients :
          /\ (request[c] = None) = (frames[c] = <<>>)
          /\ \A d \in 1..Len(frames[c]) : Len(frames[c][d].answers) <= Len(frames[c][d].calls)
==============================================================================
