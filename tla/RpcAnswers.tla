----------------------------- MODULE RpcAnswers -----------------------------
(***************************************************************************)
(* What RpcServer promises of a body of calls.  A call stands at a place of  *)
(* the body, a path through its multicalls, so the promises follow the       *)
(* nesting of the calls.                                                    *)
(***************************************************************************)
EXTENDS RpcServer

RECURSIVE CallAt(_, _), Matches(_, _, _, _)

\* The call at a place of a body.
CallAt(calls, place) ==
    IF Len(place) = 1 THEN calls[place[1]] ELSE CallAt(calls[place[1]].calls, Tail(place))

\* With a secret, no call reaches the task manager without the right token, through
\* whatever batches and multicalls it came.
Authorised ==
    config.secret =>
       \A c \in Clients : \A place \in ran[c] : CallAt(request[c], place).token = "good"

\* Every call gets its own answer in its own place.  Success means that it was carried out,
\* no answer that it was not, and neither says anything of the calls beside it.  An error
\* says no more than that nothing but this call was: the manager may fail after it has
\* changed something.
Matches(c, calls, answers, prefix) ==
    \A i \in 1..Len(answers) :
       LET place == Append(prefix, i)
           under == {p \in ran[c] : /\ Len(p) >= Len(place)
                                    /\ SubSeq(p, 1, Len(place)) = place}
           itself == IF calls[i].method \in Managed THEN {place} ELSE {}
       IN CASE answers[i].kind = "null" -> under = {}
            [] answers[i].kind = "error" -> under \subseteq itself
            [] calls[i].method = "multicall" ->
                  /\ Len(answers[i].list) = Len(calls[i].calls)
                  /\ Matches(c, calls[i].calls, answers[i].list, place)
            [] OTHER -> under = itself
AnswersMatch ==
    \A c \in Clients : \A d \in 1..Len(frames[c]) :
        Matches(c, frames[c][d].calls, frames[c][d].answers, SubSeq(Place(c), 1, d - 1))

\* Every call has its answer, and none reaches the task manager without the token.
CallsAnswered == Authorised /\ AnswersMatch
==============================================================================
