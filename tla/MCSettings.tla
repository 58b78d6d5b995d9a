----------------------------- MODULE MCSettings -----------------------------
(* Values for Settings. *)
EXTENDS Settings

\* TextSession: what the URIs are, and three files of aria2.
KindOf == [h |-> "http", m |-> "magnet", f |-> "file", x |-> "other"]
HashOf == [u \in Uris |-> "g3"]
Line(kind, uri, key, value) == [kind |-> kind, uri |-> uri, key |-> key, value |-> value]
Uri(u) == Line("uri", u, "", "")
Option(key, value) == Line("option", "", key, value)
Blank == Line("blank", "", "", "")
Pauses == Option("pause", "true")
Gid(g) == Option("gid", g)
Files ==
    { <<Uri("h"), Gid("short"), Pauses, Blank, Uri("x")>>,
      <<Uri("h"), Gid("g2"), Uri("f"), Pauses>>,
      <<Pauses, Uri("h")>> }

\* Options: the calls each goroutine serves, and the options of a new task.
Plan == [p \in Procs |-> IF p = "p" THEN {"add", "option", "save"} ELSE {"option", "global", "query"}]
Some == {[tracker |-> Unset, other |-> v] : v \in {Unset, 1}}
=============================================================================
