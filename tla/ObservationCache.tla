-------------------------- MODULE ObservationCache --------------------------
(***************************************************************************)
(* The client's cache of observation slices and its revalidation           *)
(* (packages/core/src/data/store-api.ts) against the handler that serves   *)
(* them (apps/api/src/routes/stats/observations.ts).                       *)
(*                                                                         *)
(* A slice is what one query reads of a dataset.  The validator belongs to *)
(* the dataset: the server sends its version as ETag, the client keeps one *)
(* for all slices.  The handler reads the version and the rows in two      *)
(* statements; the client handles headers and body in two steps.  Every    *)
(* call has a response of its own (coalescing is in FetchScheduler): that  *)
(* only adds interleavings.                                                *)
(***************************************************************************)
EXTENDS Naturals
LOCAL INSTANCE TLC

CONSTANTS
  Slices,
  Queries,    \* calls of queryAsync()
  Null,
  OneByOne,   \* TRUE: the page waits for a call before it makes the next
  BodyLoss,   \* TRUE: a response may break off after its headers
  MaxVersion  \* bound: publishes

ASSUME CacheConstants ==
  /\ OneByOne \in BOOLEAN /\ BodyLoss \in BOOLEAN
  /\ MaxVersion \in Nat
  /\ Null \notin Nat

VARIABLES
  version,  \* stats.dataset_version.version
  content,  \* content[s]: the version that last changed the rows of s
  cache,    \* _cache: rows, are they fresh, and the call that stored them
  etag,     \* _eTags of the dataset
  call      \* the calls and their responses

cacheVars == <<version, content, cache, etag, call>>

Version == 0..MaxVersion

\* A cached slice; by is the identity of the entry.
Entry == [rows : Version, fresh : BOOLEAN, by : Queries]

ASSUME NullIsNoEntry == Null \notin Entry

\* sent: If-None-Match; held: the entry found at the start; tag, rows: of the response.
Call == [pc : {"idle", "sent", "tagged", "answered", "parsing", "done"},
         slice : Slices \cup {Null}, sent : Version \cup {Null},
         held : Entry \cup {Null}, tag : Version \cup {Null},
         rows : Version \cup {Null},
         outcome : {"none", "200", "304", "failed", "cached", "stale", "error",
                    "rejected"}]

CacheTypeOK ==
  /\ version \in Version
  /\ content \in [Slices -> Version]
  /\ cache \in [Slices -> Entry \cup {Null}]
  /\ etag \in Version \cup {Null}
  /\ call \in [Queries -> Call]

CacheInit ==
  /\ version = 0
  /\ content = [s \in Slices |-> 0]
  /\ cache = [s \in Slices |-> Null]
  /\ etag = Null
  /\ call = [c \in Queries |->
       [pc |-> "idle", slice |-> Null, sent |-> Null, held |-> Null, tag |-> Null,
        rows |-> Null, outcome |-> "none"]]

-----------------------------------------------------------------------------
\* The server.

\* A publish commits: some slices have new rows, the version moves in any case.
Publish ==
  /\ version < MaxVersion
  /\ version' = version + 1
  /\ \E S \in SUBSET Slices :
       content' = [s \in Slices |-> IF s \in S THEN version + 1 ELSE content[s]]
  /\ UNCHANGED <<cache, etag, call>>

\* Deviation: the ETag names the dataset without its version.
ServeTagUnversioned(c) ==
  /\ call[c].pc = "sent"
  /\ \/ /\ call[c].sent # Null
        /\ call' = [call EXCEPT ![c].pc = "answered", ![c].outcome = "304"]
     \/ /\ call[c].sent = Null
        /\ call' = [call EXCEPT ![c].pc = "tagged", ![c].tag = version]
  /\ UNCHANGED <<version, content, cache, etag>>

\* The first statement: the version. It is the ETag; if the client has it: 304.
ServeTag(c) ==
  /\ call[c].pc = "sent"
  /\ \/ /\ call[c].sent = version
        /\ call' = [call EXCEPT ![c].pc = "answered", ![c].outcome = "304"]
     \/ /\ call[c].sent # version
        /\ call' = [call EXCEPT ![c].pc = "tagged", ![c].tag = version]
  /\ UNCHANGED <<version, content, cache, etag>>

\* Deviation: the version is read again after the rows.
ServeRowsThenTag(c) ==
  /\ call[c].pc = "tagged"
  /\ \/ /\ call[c].rows = Null
        /\ call' = [call EXCEPT ![c].rows = content[call[c].slice]]
     \/ /\ call[c].rows # Null
        /\ call' = [call EXCEPT ![c].pc = "answered", ![c].outcome = "200",
                                ![c].tag = version]
  /\ UNCHANGED <<version, content, cache, etag>>

\* The second statement: the rows.
ServeRows(c) ==
  /\ call[c].pc = "tagged"
  /\ call' = [call EXCEPT ![c].pc = "answered", ![c].outcome = "200",
                          ![c].rows = content[call[c].slice]]
  /\ UNCHANGED <<version, content, cache, etag>>

\* No answer, or 429 and 503 until the scheduler gives up.
Fail(c) ==
  /\ call[c].pc \in {"sent", "tagged"}
  /\ call' = [call EXCEPT ![c].pc = "answered", ![c].outcome = "failed"]
  /\ UNCHANGED <<version, content, cache, etag>>

-----------------------------------------------------------------------------
\* The client.

IsFresh(s) == cache[s] # Null /\ cache[s].fresh

\* The TTL of a slice elapses.
Expire(s) ==
  /\ IsFresh(s)
  /\ cache' = [cache EXCEPT ![s].fresh = FALSE]
  /\ UNCHANGED <<version, content, etag, call>>

MayCall == OneByOne => \A c \in Queries : call[c].pc \in {"idle", "done"}

\* queryAsync() of a fresh slice.
Hit(c, s) ==
  /\ MayCall
  /\ call[c].pc = "idle"
  /\ IsFresh(s)
  /\ call' = [call EXCEPT ![c].pc = "done", ![c].slice = s, ![c].outcome = "cached",
                          ![c].rows = cache[s].rows]
  /\ UNCHANGED <<version, content, cache, etag>>

\* queryAsync() of a slice that is stale, conditional, or missing, unconditional.
Send(c, s) ==
  /\ MayCall
  /\ call[c].pc = "idle"
  /\ ~IsFresh(s)
  /\ call' = [call EXCEPT ![c].pc = "sent", ![c].slice = s, ![c].held = cache[s],
                          ![c].sent = IF cache[s] # Null THEN etag ELSE Null]
  /\ UNCHANGED <<version, content, cache, etag>>

\* 304: serve the entry held at the start and make it fresh again.
Receive304(c) ==
  /\ call[c].pc = "answered"
  /\ call[c].outcome = "304"
  /\ LET s == call[c].slice IN
       cache' = IF cache[s].by = call[c].held.by THEN [cache EXCEPT ![s].fresh = TRUE]
                ELSE cache
  /\ call' = [call EXCEPT ![c].pc = "done", ![c].rows = call[c].held.rows]
  /\ UNCHANGED <<version, content, etag>>

\* lastGoodOr(): the rows in the cache by now, however old, before an error.
ReceiveFailure(c) ==
  /\ call[c].pc = "answered"
  /\ call[c].outcome = "failed"
  /\ LET s == call[c].slice IN
       \/ /\ cache[s] # Null
          /\ call' = [call EXCEPT ![c].pc = "done", ![c].outcome = "stale",
                                  ![c].rows = cache[s].rows]
       \/ /\ cache[s] = Null
          /\ call' = [call EXCEPT ![c].pc = "done", ![c].outcome = "error"]
  /\ UNCHANGED <<version, content, cache, etag>>

\* 200: keep the ETag and wait for the body.
ReceiveHeaders(c) ==
  /\ call[c].pc = "answered"
  /\ call[c].outcome = "200"
  /\ etag' = call[c].tag
  /\ call' = [call EXCEPT ![c].pc = "parsing"]
  /\ UNCHANGED <<version, content, cache>>

\* The body is there: store the rows.
Store(c) ==
  /\ call[c].pc = "parsing"
  /\ cache' = [cache EXCEPT ![call[c].slice] =
       [rows |-> call[c].rows, fresh |-> TRUE, by |-> c]]
  /\ call' = [call EXCEPT ![c].pc = "done"]
  /\ UNCHANGED <<version, content, etag>>

\* The body breaks off: res.json() rejects and so does queryAsync().
LoseBody(c) ==
  /\ BodyLoss
  /\ call[c].pc = "parsing"
  /\ call' = [call EXCEPT ![c].pc = "done", ![c].outcome = "rejected"]
  /\ UNCHANGED <<version, content, cache, etag>>

CacheNext ==
  \/ Publish
  \/ \E s \in Slices : Expire(s)
  \/ \E c \in Queries :
       \/ ServeTag(c) \/ ServeRows(c) \/ Fail(c)
       \/ \E s \in Slices : Hit(c, s) \/ Send(c, s)
       \/ Receive304(c) \/ ReceiveFailure(c) \/ ReceiveHeaders(c)
       \/ Store(c) \/ LoseBody(c)

CacheSpec == CacheInit /\ [][CacheNext]_cacheVars
-----------------------------------------------------------------------------

\* The handler reads the version before the rows: a publish between the two may make
\* the rows newer than their ETag (they are fetched again), never older (they would
\* be revalidated with it for ever).
RowsAreNotOlderThanTag ==
  \A c \in Queries : call[c].outcome = "200" /\ call[c].tag = version =>
    call[c].rows = content[call[c].slice]

\* The ETag that came with the rows of an entry. The client does not keep it: it keeps
\* the latest one of the dataset.
OwnTag(e) == call[e.by].tag

\* A 304 to the ETag the held rows came with: they are the rows the server would send,
\* whatever is published between the two statements that served them, between their
\* headers and body, and while they wait in the cache.
RevalidatedWithOwnTag ==
  [][\A c \in Queries :
       call[c].outcome # "304" /\ call'[c].outcome = "304"
         /\ call[c].sent = OwnTag(call[c].held) =>
           call[c].held.rows = content[call[c].slice]]_cacheVars

\* store-api.ts: "On 304 the held rows are still current". The same of every 304,
\* whichever ETag the client has sent.
RevalidatedIsCurrent ==
  [][\A c \in Queries :
       call[c].outcome # "304" /\ call'[c].outcome = "304" =>
         call[c].held.rows = content[call[c].slice]]_cacheVars

-----------------------------------------------------------------------------
\* For TLC: calls are interchangeable, and so are slices.
CacheSymmetry == Permutations(Queries) \cup Permutations(Slices)
=============================================================================
