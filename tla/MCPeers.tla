------------------------------ MODULE MCPeers ------------------------------
\* A small instance of Peers.
EXTENDS Peers
CONSTANTS t1, t2, h1, r1, r2

OneHash == {[t \in {t1, t2} |-> h1]}
AllOutsiders == SUBSET Others
SomeOptions == {{}, {"pause-metadata", "max-download-limit"},
                {"bt-detach-seed-only", "max-upload-limit"}}

\* One task with everything that may act on its transfer, or two tasks that share one; what
\* belongs to the other driver begins in one way only.
Small ==
    IF driver = "ed2k"
    THEN /\ \/ step = [t \in Tasks |-> IF t = t1 THEN "new" ELSE "unused"]
            \/ outsiders = {"state file"}
         /\ kind = "torrent" /\ options = {} /\ btSaved = None
    ELSE outsiders = {} /\ step = [t \in Tasks |-> "unused"]
SmallInit == PeersInit /\ Small
SmallPeersSpec == SmallInit /\ [][PeersNext]_all /\ PeersFairness
=============================================================================
