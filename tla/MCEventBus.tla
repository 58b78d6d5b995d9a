----------------------------- MODULE MCEventBus -----------------------------
(* A small instance of ClientEvents. *)
EXTENDS ClientEvents
CONSTANTS e1, e2, w1

\* One goroutine makes every call, while another one removes and asks; or syncLoop and a
\* client that does not ask.
Plan(first, second) == [p \in Callers |-> IF p = e1 THEN first ELSE second]
AllOps == {"add", "pause", "unpause", "remove", "query", "sync", "seed limit"}
TwoPlans == {Plan(AllOps, {"remove", "query"}), Plan({"sync"}, {"add", "pause", "remove"})}
=============================================================================
