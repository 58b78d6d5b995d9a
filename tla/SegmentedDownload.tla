------------------------- MODULE SegmentedDownload -------------------------
(***************************************************************************)
(* httpdl.downloadChunked: the ranges of DownloadRanges are fetched by one   *)
(* goroutine each, at most as many at a time as there are segments, and     *)
(* every goroutine goes from mirror to mirror on its own.  The mirror in    *)
(* use is a field of the task that they all write and read without a lock,  *)
(* and that changeUri writes under one.                                     *)
(***************************************************************************)
EXTENDS DownloadRanges, FiniteSets

CONSTANTS
    Fetched,    \* bound: the inputs whose ranges are downloaded as well
    MirrorLists,\* the URIs a task may be added with
    Good,       \* the mirrors that answer in full; another may break off, end early, answer
                \* the first range with the whole resource, or never answer
    MaxMirrors, \* bound: URIs a task may have
    MaxEdits,   \* bound: calls of changeUri
    None

Mirrors == UNION {{list[i] : i \in DOMAIN list} : list \in MirrorLists}

ASSUME MirrorAssumption ==
    /\ \A list \in MirrorLists : list \in Seq(Mirrors) /\ Len(list) \in 1..MaxMirrors
    /\ Good \subseteq Mirrors /\ MaxMirrors \in Nat /\ MaxEdits \in Nat
    /\ None \notin Mirrors \cup {"ok", "error"}

VARIABLES
    sourceURLs, sourceIndex, sourceURL,   \* the mirrors of the task, and the one in use
    edits,     \* calls of changeUri so far
    seg,       \* the goroutines, one for each range
    got,       \* bytes of the file that have been written
    leftOut,   \* history: bytes that an answer which ended early did not have
    counted,   \* progressDone
    errC,      \* the first error was seen and the others cancelled
    paused,    \* Pause or Remove cancelled the context of the run
    result     \* of downloadChunked

mirrorVars == <<sourceURLs, sourceIndex, sourceURL, edits>>
fetchVars == <<seg, got, leftOut, counted, errC, paused, result>>
allVars == <<vars, mirrorVars, fetchVars>>

Bytes == in.start..(in.total - 1)
Concurrency == Smaller(Segments, Len(ranges))
\* download takes this way when there is more than one segment.
Fetching == pc = "done" /\ in \in Fetched /\ ranges # <<>> /\ Segments > 1
Idle == [pc |-> "idle", urls |-> <<>>, i |-> 0, url |-> None]
SegState == [pc : {"idle", "begin", "switch", "switched", "ask", "fetch", "retry",
                   "done"},
             urls : Seq(Mirrors), i : Nat, url : Mirrors \cup {None}]
\* A goroutine that is over keeps nothing.
Over == [Idle EXCEPT !.pc = "done"]
At(k, step) == k \in DOMAIN seg /\ seg[k].pc = step
Goto(k, step) == seg' = [seg EXCEPT ![k].pc = step]
Running == {k \in DOMAIN seg : seg[k].pc \notin {"idle", "done"}}
Cancelled == errC \/ paused

\* Mutant: the semaphore has a place for every range.
OpenUnlimited ==
    /\ Fetching /\ result = None
    /\ \/ seg = <<>> /\ seg' = [k \in 1..Len(ranges) |-> Idle]
       \/ \E k \in DOMAIN seg :
             /\ At(k, "idle") /\ \A j \in 1..(k - 1) : ~At(j, "idle")
             /\ Goto(k, "begin")
    /\ UNCHANGED <<vars, mirrorVars, got, leftOut, counted, errC, paused, result>>

\* Mutant: once a range has failed no more are begun, though all are waited for.
SpawnUntilFailed ==
    /\ Fetching /\ result = None
    /\ \/ seg = <<>> /\ seg' = [k \in 1..Len(ranges) |-> Idle]
       \/ \E k \in DOMAIN seg :
             /\ At(k, "idle") /\ \A j \in 1..(k - 1) : ~At(j, "idle")
             /\ Cardinality(Running) < Concurrency /\ ~errC
             /\ Goto(k, "begin")
    /\ UNCHANGED <<vars, mirrorVars, got, leftOut, counted, errC, paused, result>>

\* The file is open; then a goroutine is started for each range when the semaphore has
\* a place, whether one has failed by then or not.
Spawn ==
    /\ Fetching /\ result = None
    /\ \/ seg = <<>> /\ seg' = [k \in 1..Len(ranges) |-> Idle]
       \/ \E k \in DOMAIN seg :
             /\ At(k, "idle") /\ \A j \in 1..(k - 1) : ~At(j, "idle")
             /\ Cardinality(Running) < Concurrency
             /\ Goto(k, "begin")
    /\ UNCHANGED <<vars, mirrorVars, got, leftOut, counted, errC, paused, result>>

\* downloadRange copies the list and begins with the mirror in use.
Begin(k) ==
    /\ At(k, "begin")
    /\ seg' = [seg EXCEPT ![k].urls = sourceURLs, ![k].pc = "switch",
                          ![k].i = IF sourceIndex <= Len(sourceURLs) THEN sourceIndex ELSE 1]
    /\ UNCHANGED <<vars, mirrorVars, got, leftOut, counted, errC, paused, result>>

\* setActiveMirror writes two fields; an index past the end of the list, which changeUri
\* may have shortened, changes nothing.
Switch(k) ==
    /\ At(k, "switch")
    /\ IF seg[k].i <= Len(sourceURLs)
       THEN /\ sourceIndex' = seg[k].i
            /\ seg' = [seg EXCEPT ![k].pc = "switched", ![k].url = sourceURLs[seg[k].i]]
       ELSE Goto(k, "switched") /\ UNCHANGED sourceIndex
    /\ UNCHANGED <<vars, sourceURLs, sourceURL, edits, got, leftOut, counted, errC,
                   paused, result>>
SwitchURL(k) ==
    /\ At(k, "switched")
    /\ sourceURL' = IF seg[k].url = None THEN sourceURL ELSE seg[k].url
    /\ Goto(k, "ask")
    /\ UNCHANGED <<vars, sourceURLs, sourceIndex, edits, got, leftOut, counted, errC,
                   paused, result>>

\* downloadRangeFromURL asks whatever mirror is in use now for the whole range.
Ask(k) ==
    /\ At(k, "ask")
    /\ seg' = [seg EXCEPT ![k].pc = "fetch", ![k].url = sourceURL]
    /\ UNCHANGED <<vars, mirrorVars, got, leftOut, counted, errC, paused, result>>

\* The bytes up to last are written and counted, and stay so if the transfer breaks.  (Bound:
\* the count is not followed once it is past the total.)
Answered(k) == seg[k].url \in Good
Receive(k, last) ==
    /\ got' = got \cup ranges[k].first..last
    /\ counted' = IF counted > in.total THEN counted ELSE counted + last - ranges[k].first + 1

\* The end of the answer is the end of the range, however early or late it comes: a 200 to a
\* request from the first byte on brings all of the resource.  A transfer breaks for a fault
\* of the mirror or when it is cancelled.
Fetch(k) ==
    /\ At(k, "fetch")
    /\ \E last \in (ranges[k].first - 1)..(IF ranges[k].first = 0 THEN in.total - 1
                                                              ELSE ranges[k].last) :
          /\ Receive(k, last)
          /\ \/ /\ Answered(k) => last = ranges[k].last
                /\ seg' = [seg EXCEPT ![k] = Over]
                /\ leftOut' = leftOut \cup (last + 1)..ranges[k].last
             \/ /\ ~Answered(k) \/ (Cancelled /\ last <= ranges[k].last)
                /\ Goto(k, "retry") /\ UNCHANGED leftOut
    /\ UNCHANGED <<vars, mirrorVars, errC, paused, result>>

\* The first goroutine that has no mirror left sets the error and cancels the others.
NextMirror(k) ==
    /\ At(k, "retry")
    /\ \/ /\ ~Cancelled /\ seg[k].i < Len(seg[k].urls)
          /\ seg' = [seg EXCEPT ![k].i = @ + 1, ![k].pc = "switch", ![k].url = None]
          /\ UNCHANGED errC
       \/ /\ Cancelled \/ seg[k].i >= Len(seg[k].urls)
          /\ seg' = [seg EXCEPT ![k] = Over] /\ errC' = TRUE
    /\ UNCHANGED <<vars, mirrorVars, got, leftOut, counted, paused, result>>

\* Mutant: downloadChunked does not wait for the goroutines.
ReturnEarly ==
    /\ seg # <<>> /\ result = None /\ \A k \in DOMAIN seg : ~At(k, "idle")
    /\ result' = IF errC THEN "error" ELSE "ok"
    /\ UNCHANGED <<vars, mirrorVars, seg, got, leftOut, counted, errC, paused>>

Return ==
    /\ seg # <<>> /\ result = None /\ \A k \in DOMAIN seg : At(k, "done")
    /\ result' = IF errC THEN "error" ELSE "ok"
    /\ UNCHANGED <<vars, mirrorVars, seg, got, leftOut, counted, errC, paused>>

Pause ==
    /\ Running # {} /\ ~paused
    /\ paused' = TRUE
    /\ UNCHANGED <<vars, mirrorVars, seg, got, leftOut, counted, errC, result>>

\* changeUri: some URIs are taken out, one is put in at a position or at the end; the
\* mirror in use stays the same if it is still there.
Without(uris, del) == SelectSeq(uris, LAMBDA u : u \notin del)
Inserted(uris, add, position) ==
    LET at == IF position \in 0..Len(uris) THEN position ELSE Len(uris)
    IN SubSeq(uris, 1, at) \o add \o SubSeq(uris, at + 1, Len(uris))
FirstAt(uris, u) == CHOOSE i \in DOMAIN uris : uris[i] = u /\ \A j \in 1..(i - 1) : uris[j] # u
ChangeURI ==
    /\ Running # {} /\ result = None /\ edits < MaxEdits /\ edits' = edits + 1
    /\ \E del \in SUBSET Mirrors, add \in {<<>>} \cup {<<m>> : m \in Mirrors},
          position \in -1..MaxMirrors :
          LET uris == Inserted(Without(sourceURLs, del), add, position)
              kept == sourceURL \in {uris[i] : i \in DOMAIN uris}
          IN /\ uris # <<>> /\ Len(uris) <= MaxMirrors
             /\ sourceURLs' = uris
             /\ sourceURL' = IF kept THEN sourceURL ELSE uris[1]
             /\ sourceIndex' = IF kept THEN FirstAt(uris, sourceURL) ELSE 1
    /\ UNCHANGED <<vars, fetchVars>>

-----------------------------------------------------------------------------

DownloadInit ==
    /\ Init
    /\ sourceURLs \in MirrorLists
    /\ sourceIndex \in DOMAIN sourceURLs          \* where the last attempt stopped
    /\ sourceURL = sourceURLs[sourceIndex]
    /\ in \notin Fetched => sourceURLs = CHOOSE list \in MirrorLists : TRUE     \* a bound
    /\ edits = 0 /\ seg = <<>> /\ got = {} /\ leftOut = {} /\ counted = 0
    /\ errC = FALSE /\ paused = FALSE /\ result = None

Plan == Next /\ UNCHANGED <<mirrorVars, fetchVars>>
Segment(k) ==
    \/ Begin(k) \/ Switch(k) \/ SwitchURL(k) \/ Ask(k) \/ Fetch(k) \/ NextMirror(k)
Work == Plan \/ Spawn \/ (\E k \in DOMAIN seg : Segment(k)) \/ Return
DownloadNext == Work \/ Pause \/ ChangeURI
DownloadSpec == DownloadInit /\ [][DownloadNext]_allVars
\* A client has no timeout by default, so a request to a mirror that falls silent ends only
\* when it is cancelled.
Silent(k) == At(k, "fetch") /\ ~Answered(k) /\ ~Cancelled
GoesOn == Plan \/ Spawn \/ (\E k \in DOMAIN seg : Segment(k) /\ ~Silent(k)) \/ Return
\* Goroutines that can go on do.
FairDownload == DownloadSpec /\ WF_allVars(GoesOn)

-----------------------------------------------------------------------------
(* Properties. *)

\* The variables of this module have their types.
SegmentsTypeOK ==
    /\ sourceURLs \in Seq(Mirrors) /\ sourceIndex \in 1..MaxMirrors /\ sourceURL \in Mirrors
    /\ edits \in 0..MaxEdits /\ seg \in Seq(SegState) /\ got \subseteq Bytes
    /\ leftOut \subseteq Bytes /\ counted \in Nat
    /\ errC \in BOOLEAN /\ paused \in BOOLEAN /\ result \in {None, "ok", "error"}

\* A segmented download that returns without an error has fetched every missing byte that
\* the answers had, whichever goroutines failed, were cancelled or used each other's mirror.
SuccessIsWhole == result = "ok" => Bytes \subseteq got \cup leftOut

\* What the code lacks: a range whose answer ends early counts as fetched.
SuccessIsAlwaysWhole == result = "ok" => got = Bytes

\* No more connections are open than split and max-connection-per-server allow, also
\* when the pieces outnumber the segments.
ConnectionsBounded ==
    \A limit \in {in.split, in.maxConn} : limit > 0 => Cardinality(Running) <= limit

\* The options hold for the plan and for what is made of it.
OptionsRespected == RespectsOptions /\ ConnectionsBounded

\* It fails only for a mirror that does not answer in full: no goroutine makes another one's
\* request fail.
FailureHasCause ==
    result = "error" /\ edits = 0 /\ ~paused =>
       \E i \in DOMAIN sourceURLs : sourceURLs[i] \notin Good

\* The result tells what has happened to the bytes.
OutcomeIsTrue == SuccessIsWhole /\ FailureHasCause

\* What the goroutines lack: a download fails only when none of its mirrors answers.  One
\* overwrites the mirror that another is about to ask.
FailsWithoutAnyMirror ==
    result = "error" /\ edits = 0 /\ ~paused =>
       \A i \in DOMAIN sourceURLs : sourceURLs[i] \notin Good

\* completedLength stays within totalLength, which bytes fetched twice do not respect.
ProgressFits == counted <= in.total - in.start

\* Every segmented download returns, unless it waits for ever for a mirror that says nothing.
Returns == <>[](\E k \in DOMAIN seg : Silent(k)) \/ (Fetching ~> result # None)

\* Neither the plan nor the download goes on forever.
AlwaysReturns == Terminates /\ Returns
==============================================================================
