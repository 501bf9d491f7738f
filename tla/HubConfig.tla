----------------------------- MODULE HubConfig -----------------------------
(***************************************************************************)
(* The hub client and the SDK's endpoints (clients/hub.js, clients/hub/    *)
(* config_sync.js, config_envelope.js, XChainSDK/client_lifecycle.js,      *)
(* utils/endpoints.js): the config tree is fetched from the first hub that *)
(* answers, later fetches ask for what changed since the last watermark,   *)
(* and what the tree says is laid over the service clients.  A hub may be  *)
(* restored from an older snapshot between two fetches.                    *)
(***************************************************************************)
EXTENDS Integers, FiniteSets

CONSTANTS
    Hubs,          \* endpoints, 0 .. n - 1
    HubKind,       \* hub -> "current", "older" (compares > cursor) or "bare" (no watermark)
    Services,      \* "explorer", "encoder", "websocket"
    Network,       \* the SDK's network
    Urls,
    SecureUrls,    \* those with https: or wss:
    PublicUrl,     \* the default of a service: a URL or "none"
    SdkOptions,    \* options: apiKey, the services with a URL (pinned), allowInsecure
    HubParams,     \* rows: network and module
    Fetchers,      \* 1 .. the bound on fetches under way at once
    MaxHubSteps,   \* bound on updates and pings of the hubs, and on seconds
    MaxFetches

Nothing == "none"

\* The caller's list of hubs is not empty; a row holds a URL.
ASSUME HubsAssumption == IsFiniteSet(Hubs) /\ Hubs # {} /\ Hubs = 0..(Cardinality(Hubs) - 1)
ASSUME ParamsAssumption == <<Network, "encoder">> \in HubParams
ASSUME UrlsAssumption == SecureUrls # {} /\ SecureUrls \subseteq Urls /\ Nothing \notin Urls

EmptyTree == [p \in HubParams |-> Nothing]
NullTree == [p \in {} |-> Nothing]

VARIABLES
    rows,       \* hub -> param -> its value and updated_at; 0 is never
    hubSeq,     \* hub -> seq
    second,     \* the clock of the hubs
    hubSteps,
    options,    \* the caller's options
    client,     \* service -> where its client points, or none
    configs,    \* hub.configs: param -> value, or NullTree
    lastGood,   \* _lastGoodIdx
    lastSeq,
    lastWatermark,
    cursorHub,  \* _watermarkEndpointIdx, -1 for null
    discovery,  \* _discovering: "none", "running", "done" or "failed"
    polling,    \* the poll timer runs
    fetch,      \* fetcher -> its fetch: for whom, attempts made, and the request under way
    fetches,
    restored,   \* history: hubs restored since the tree was last theirs
    mixed,      \* history: the tree was made of a delta and of another fetch's tree
    verdict     \* history: what the last fetch left: "same" as the hub's, or why not

history == <<restored, mixed, verdict>>
serverSide == <<rows, hubSeq, second, hubSteps>>
marks == <<lastGood, lastSeq, lastWatermark, cursorHub>>
hubVars == <<rows, hubSeq, second, hubSteps, options, client, configs, lastGood, lastSeq,
             lastWatermark, cursorHub, discovery, polling, fetch, fetches, restored, mixed, verdict>>

NoAnswer == [whole |-> EmptyTree, sent |-> {}, mark |-> 0, seq |-> 0, past |-> FALSE]

\* cursor is the watermark the request is about, 0 when it asks for the whole
\* tree; again when it asks anew of a hub that went back; overtaken when another
\* fetch has taken or dropped the tree since it was sent (history).
NoFetch == [by |-> "nobody", tried |-> 0, phase |-> "idle", hub |-> 0, cursor |-> 0,
            again |-> FALSE, overtaken |-> FALSE, answer |-> NoAnswer]

\* initClients: a pinned service keeps its URL, the others start at the public
\* default, and the websocket follows the explorer.
InitialClient(s) == IF s \in options.pinned THEN CHOOSE u \in Urls : TRUE ELSE PublicUrl[s]

\* What every hub starts with, and the snapshot it may be restored from.
FirstRows == [p \in HubParams |->
                 IF p = <<Network, "encoder">> THEN [value |-> CHOOSE u \in SecureUrls : TRUE, at |-> 1]
                 ELSE [value |-> Nothing, at |-> 0]]

HubInit(choices) ==
    /\ rows = [h \in Hubs |-> FirstRows] /\ hubSeq = [h \in Hubs |-> 1]
    /\ second = 1 /\ hubSteps = 0
    /\ options \in choices
    /\ client = [s \in Services |-> InitialClient(s)]
    /\ configs = NullTree
    /\ lastGood = 0 /\ lastSeq = 0 /\ lastWatermark = 0 /\ cursorHub = -1
    /\ discovery = "none" /\ polling = FALSE
    /\ fetch = [f \in Fetchers |-> NoFetch] /\ fetches = 0
    /\ restored = {} /\ mixed = FALSE /\ verdict = "none"

-----------------------------------------------------------------------------
(* The hubs *)

Values(h) == [p \in HubParams |-> rows[h][p].value]

\* MAX(updated_at), in whole seconds.
Watermark(h) == CHOOSE w \in 0..second :
                   /\ \A p \in HubParams : rows[h][p].at <= w
                   /\ w = 0 \/ \E p \in HubParams : rows[h][p].at = w

\* The rows getallconfigs serves for a cursor; 0 asks for the whole tree.
Served(h, cursor) ==
    {p \in HubParams : /\ rows[h][p].value # Nothing
                       /\ \/ cursor = 0 \/ HubKind[h] = "bare"
                          \/ rows[h][p].at > cursor
                          \/ HubKind[h] = "current" /\ rows[h][p].at = cursor}

\* Rows are added and changed, never deleted.
HubUpdates(h, p, u) ==
    /\ hubSteps < MaxHubSteps /\ rows[h][p].value # u
    /\ rows' = [rows EXCEPT ![h][p] = [value |-> u, at |-> second]]
    /\ hubSeq' = [hubSeq EXCEPT ![h] = @ + 1]
    /\ hubSteps' = hubSteps + 1
    /\ UNCHANGED <<second, options, client, configs, marks, discovery, polling, fetch, fetches, history>>

HubSecond ==
    /\ second < MaxHubSteps
    /\ second' = second + 1
    /\ UNCHANGED <<rows, hubSeq, hubSteps, options, client, configs, marks, discovery, polling, fetch,
                   fetches, history>>

\* A restart from the older snapshot; an answer under way is of the past.
HubRestored(h) ==
    /\ rows[h] # FirstRows
    /\ rows' = [rows EXCEPT ![h] = FirstRows]
    /\ hubSeq' = [hubSeq EXCEPT ![h] = 1]
    /\ restored' = restored \cup {h}
    /\ fetch' = [f \in Fetchers |->
                    [fetch[f] EXCEPT !.answer.past = @ \/ (fetch[f].phase = "answered" /\ fetch[f].hub = h)]]
    /\ UNCHANGED <<second, hubSteps, options, client, configs, marks, discovery, polling, fetches, mixed,
                   verdict>>

-----------------------------------------------------------------------------
(* Endpoints *)

Secure(u) == u \in SecureUrls

\* extractServiceEndpoints: the explorer may be configured under another network.
Endpoint(tree, s) ==
    LET own == tree[<<Network, s>>]
        others == {tree[p] : p \in {q \in HubParams : q[2] = s}} \ {Nothing}
    IN  IF tree = NullTree THEN Nothing
        ELSE IF own # Nothing \/ s = "encoder" \/ others = {} THEN own
        ELSE CHOOSE u \in others : TRUE

\* isDowngrade
IsDowngrade(s, u) == ~options.allowInsecure /\ client[s] # Nothing /\ Secure(client[s]) /\ ~Secure(u)

Overlaid(tree, s) == Endpoint(tree, IF s = "websocket" THEN "explorer" ELSE s)

\* applyEndpoints, with setBase: a client that is not there is made.
ApplyEndpoints(tree) ==
    client' = [s \in Services |->
                  LET u == Overlaid(tree, s)
                  IN  IF s \in options.pinned \/ u = Nothing \/ IsDowngrade(s, u) THEN client[s] ELSE u]

-----------------------------------------------------------------------------
(* Fetches: several may be under way, the interval does not wait for the     *)
(* one before.                                                               *)

\* The lowest fetcher that is free.
Free(f) == fetch[f].phase = "idle" /\ \A g \in Fetchers : g < f => fetch[g].phase # "idle"

\* The endpoint of an attempt: from the last good one, round.
Candidate(tried) == (lastGood + tried) % Cardinality(Hubs)

CursorValid(h) == lastWatermark > 0 /\ cursorHub = h

\* An attempt is sent: its endpoint and cursor are settled before the answer.
Request(by, tried) ==
    [NoFetch EXCEPT !.by = by, !.tried = tried, !.phase = "asked", !.hub = Candidate(tried),
                    !.cursor = IF CursorValid(Candidate(tried)) THEN lastWatermark ELSE 0]

\* init, ensureReady, discover: the first call starts the fetch, and all of them
\* share what it came to, an error too.
Discover(f) ==
    /\ discovery = "none" /\ Free(f)
    /\ discovery' = "running"
    /\ fetch' = [fetch EXCEPT ![f] = Request("discover", 0)]
    /\ fetches' = fetches + 1
    /\ UNCHANGED <<serverSide, options, client, configs, marks, polling, history>>

\* startPolling: the interval fetches again, whatever is still under way.
PollHub(f) ==
    /\ polling /\ Free(f) /\ fetches < MaxFetches
    /\ fetch' = [fetch EXCEPT ![f] = Request("poll", 0)]
    /\ fetches' = fetches + 1
    /\ UNCHANGED <<serverSide, options, client, configs, marks, discovery, polling, history>>

\* One second before the watermark: an older hub leaves out the second itself.
SinceCursor(f) == IF fetch[f].cursor > 0 THEN fetch[f].cursor - 1 ELSE 0

\* The hub answers, with its marks as they are now.
HubServes(f) ==
    LET h == fetch[f].hub
    IN  /\ fetch[f].phase = "asked"
        /\ fetch' = [fetch EXCEPT ![f].phase = "answered",
                        ![f].answer = [whole |-> Values(h), sent |-> Served(h, SinceCursor(f)),
                                       mark |-> Watermark(h), seq |-> hubSeq[h], past |-> FALSE]]
        /\ UNCHANGED <<serverSide, options, client, configs, marks, discovery, polling, fetches, history>>

\* Mutant: a hub that went back is not noticed.
NeverRegressed(f) == FALSE

\* hubConfigRegressed: the answer's marks against those held by now.
Regressed(f) ==
    LET a == fetch[f].answer
    IN  /\ HubKind[fetch[f].hub] # "bare"
        /\ \/ a.mark > 0 /\ a.mark < lastWatermark
           \/ lastSeq > 0 /\ a.seq < lastSeq

\* mergeConfigDelta
Merged(base, a) == [p \in HubParams |-> IF p \in a.sent THEN a.whole[p] ELSE base[p]]

\* What an answer is laid over: an attempt without a cursor drops the tree first,
\* and the tree held by now counts if there is a watermark by now.
Base(f) ==
    IF /\ fetch[f].cursor > 0 \/ fetch[f].again
       /\ lastWatermark > 0 /\ configs # NullTree /\ HubKind[fetch[f].hub] # "bare"
    THEN configs ELSE EmptyTree

\* The tree moves under the requests of the others.
OthersOvertaken(f, mine) ==
    [g \in Fetchers |-> IF g = f THEN mine
                        ELSE [fetch[g] EXCEPT !.overtaken = @ \/ fetch[g].cursor > 0 \/ fetch[g].again]]

\* The end of a fetch: discover's rest, or the poll's callback.
Finished(f, tree) ==
    /\ ApplyEndpoints(tree)
    /\ discovery' = IF fetch[f].by = "discover" THEN "done" ELSE discovery
    /\ polling' = (polling \/ fetch[f].by = "discover")
    /\ fetch' = OthersOvertaken(f, NoFetch)

\* Whether the tree is the one the hub had when it answered.  A hub that was
\* restored is noticed unless it had reached both of the marks held of it again.
Verdict(f, tree) ==
    LET a == fetch[f].answer
    IN  CASE tree = a.whole -> "same"
          [] tree # a.whole /\ (mixed \/ fetch[f].overtaken) -> "mixed"
          [] tree # a.whole /\ ~(mixed \/ fetch[f].overtaken) ->
                IF fetch[f].hub \in restored /\ a.mark >= lastWatermark /\ a.seq >= lastSeq
                THEN "lost" ELSE "stale"

\* getAllConfig's attempt, with applyConfigResult.
Answers(f) ==
    LET h == fetch[f].hub
        a == fetch[f].answer
        tree == Merged(Base(f), a)
    IN  /\ fetch[f].phase = "answered" /\ options.apiKey
        /\ fetch[f].cursor > 0 => ~Regressed(f)
        /\ configs' = tree
        /\ lastGood' = h /\ cursorHub' = h
        /\ lastSeq' = IF HubKind[h] = "bare" THEN 0 ELSE a.seq
        /\ lastWatermark' = IF HubKind[h] = "bare" THEN 0 ELSE a.mark
        /\ verdict' = Verdict(f, tree)
        /\ mixed' = (tree # a.whole /\ (mixed \/ fetch[f].overtaken))
        /\ restored' = IF a.past THEN restored \cup {h}
                       ELSE IF tree = a.whole THEN restored \ {h} ELSE restored
        /\ Finished(f, tree)
        /\ UNCHANGED <<serverSide, options, fetches>>

\* A hub that went back: the tree is dropped and asked for again.
AnswersOlder(f) ==
    /\ fetch[f].phase = "answered" /\ options.apiKey
    /\ fetch[f].cursor > 0 /\ Regressed(f)
    /\ lastWatermark' = 0 /\ configs' = NullTree
    /\ fetch' = OthersOvertaken(f, [fetch[f] EXCEPT !.phase = "asked", !.cursor = 0, !.again = TRUE,
                                                    !.overtaken = FALSE, !.answer = NoAnswer])
    /\ UNCHANGED <<serverSide, options, client, lastGood, lastSeq, cursorHub, discovery, polling,
                   fetches, history>>

\* getDiscoveryConfig without a key: the registry's descriptors are the tree.
AnswersRegistry(f) ==
    LET h == fetch[f].hub
        a == fetch[f].answer
    IN  /\ fetch[f].phase = "answered" /\ ~options.apiKey
        /\ configs' = a.whole
        /\ lastGood' = h
        /\ lastSeq' = 0 /\ lastWatermark' = 0 /\ cursorHub' = -1
        /\ verdict' = "same" /\ mixed' = FALSE
        /\ restored' = IF a.past THEN restored \cup {h} ELSE restored \ {h}
        /\ Finished(f, a.whole)
        /\ UNCHANGED <<serverSide, options, fetches>>

\* A timeout, an error envelope or no result: the next endpoint, or the end.
HubFails(f) ==
    /\ fetch[f].phase = "asked"
    /\ IF fetch[f].tried + 1 < Cardinality(Hubs)
       THEN /\ fetch' = [fetch EXCEPT ![f] = Request(@.by, @.tried + 1)]
            /\ UNCHANGED discovery
       ELSE /\ fetch' = [fetch EXCEPT ![f] = NoFetch]
            /\ discovery' = IF fetch[f].by = "discover" THEN "failed" ELSE discovery
    /\ UNCHANGED <<serverSide, options, client, configs, marks, polling, fetches, history>>

\* ping, getCapabilityThresholds: whoever answers is tried first from now on.
Pinged(h) ==
    /\ lastGood # h /\ hubSteps < MaxHubSteps
    /\ lastGood' = h
    /\ hubSteps' = hubSteps + 1
    /\ UNCHANGED <<rows, hubSeq, second, options, client, configs, lastSeq, lastWatermark, cursorHub,
                   discovery, polling, fetch, fetches, history>>

\* stop: stopPolling; what is under way goes on.
StopSdk ==
    /\ polling
    /\ polling' = FALSE
    /\ UNCHANGED <<serverSide, options, client, configs, marks, discovery, fetch, fetches, history>>

FetchStep(f) ==
    Discover(f) \/ PollHub(f) \/ HubServes(f) \/ Answers(f) \/ AnswersOlder(f) \/ AnswersRegistry(f)
    \/ HubFails(f)

HubNext ==
    \/ \E h \in Hubs, p \in HubParams, u \in Urls : HubUpdates(h, p, u)
    \/ HubSecond
    \/ \E h \in Hubs : HubRestored(h) \/ Pinged(h)
    \/ \E f \in Fetchers : FetchStep(f)
    \/ StopSdk

HubSpec(choices) == HubInit(choices) /\ [][HubNext]_hubVars

-----------------------------------------------------------------------------
\* A fetch leaves the tree the hub had when it answered: no row is missed in the
\* second of the watermark, none is left from another hub or from before a
\* restore (config_sync.js).  Two cases are left out.  A restored hub that has
\* reached both of its marks again cannot be told from one that went on.  And a
\* delta that another fetch overtook, by taking or dropping the tree while the
\* request was under way, is laid over what it was not a delta of; such a tree
\* stays wrong until a whole one is taken.
HubIsMirrored == verdict # "stale"
=============================================================================
