---------------------------- MODULE PageManifest ----------------------------
(***************************************************************************)
(* The pages of a site: their append-only versions and the one that is     *)
(* live (routes/config/pages.ts, provisioning/upsert.ts), and the boot     *)
(* read of the public site with its ETag (routes/bootstrap/index.ts).      *)
(*                                                                         *)
(* A transaction at READ COMMITTED is its lock steps and a commit, which   *)
(* makes all its writes visible; its now() is the time of its BEGIN.  The  *)
(* locks are the row of config.page and the rows of config.page_version.   *)
(* An UPDATE takes its snapshot when it starts, and may then wait for its  *)
(* locks: rows inserted after the snapshot are not among those it writes.  *)
(***************************************************************************)
EXTENDS Naturals, FiniteSets, FiniteSetsExt

CONSTANTS
  Pages,
  Editors,     \* connections: each at work on one transaction at a time
  Clients,     \* browsers that boot the site again and again
  Null,
  MaxClock,    \* bound: transactions
  MaxVersions  \* bound: versions of a page

ASSUME PageConstants ==
  /\ Null \notin Editors \cup Pages /\ Null \notin Nat
  /\ MaxClock \in Nat /\ MaxVersions \in Nat

VARIABLES
  page,     \* config.page: status and updated_at
  saved,    \* saved[p]: the highest version_number and the latest created_at
  live,     \* live[p]: the version numbers with is_published
  rowLock,  \* rowLock[p]: the editor that holds the row of p, or Null
  verLock,  \* verLock[p]: the editor that holds the version rows of p
  tx,       \* the transactions
  clock,    \* the last now() handed out
  client,   \* the manifest a client holds, its ETag, and an unfinished boot
  orderly   \* has the ETag grown with every change so far, and never fallen? (history)

storeVars == <<page, saved, live>>
lockVars == <<rowLock, verLock>>
pageVars == <<storeVars, lockVars, tx, clock, client, orderly>>

Stamp == 0..MaxClock
Number == 0..MaxVersions
Status == {"draft", "published", "archived"}

\* kind: PUT, publish or provisioning; head: the version to promote; seen: the latest
\* version in the snapshot of the UPDATE that promotes it.
Transaction ==
  [kind : {"none", "put", "publish", "provision"}, page : Pages \cup {Null},
   pc : {"idle", "begun", "read", "locked", "kept", "marking", "marked"}, now : Stamp,
   head : Number, seen : Number]

IdleTx ==
  [kind |-> "none", page |-> Null, pc |-> "idle", now |-> 0, head |-> 0, seen |-> 0]

PageTypeOK ==
  /\ page \in [Pages -> [status : Status \cup {"none"}, updated : Stamp]]
  /\ saved \in [Pages -> [number : Number, created : Stamp]]
  /\ live \in [Pages -> SUBSET (1..MaxVersions)]
  /\ rowLock \in [Pages -> Editors \cup {Null}]
  /\ verLock \in [Pages -> Editors \cup {Null}]
  /\ tx \in [Editors -> Transaction]
  /\ clock \in Stamp
  /\ client \in [Clients -> [tag : Stamp \cup {Null}, probed : Stamp \cup {Null},
                             manifest : [Pages -> SUBSET (1..MaxVersions)]]]
  /\ orderly \in BOOLEAN

PageInit ==
  /\ page = [p \in Pages |-> [status |-> "none", updated |-> 0]]
  /\ saved = [p \in Pages |-> [number |-> 0, created |-> 0]]
  /\ live = [p \in Pages |-> {}]
  /\ rowLock = [p \in Pages |-> Null]
  /\ verLock = [p \in Pages |-> Null]
  /\ tx = [e \in Editors |-> IdleTx]
  /\ clock = 0
  /\ client = [k \in Clients |->
       [tag |-> Null, probed |-> Null, manifest |-> [p \in Pages |-> {}]]]
  /\ orderly = TRUE

-----------------------------------------------------------------------------
\* What is served.

\* The published version of every published page.
Manifest == [p \in Pages |-> IF page[p].status = "published" THEN live[p] ELSE {}]

\* The ETag: the latest timestamp of any row.
Tag == Max({page[p].updated : p \in Pages} \cup {saved[p].created : p \in Pages} \cup {0})

-----------------------------------------------------------------------------
\* Writes; t is the now() of their transaction.

Exists(p) == page[p].status # "none"

\* INSERT INTO config.page_version: the trigger assigns the next number.
AddVersion(p, t) ==
  /\ saved[p].number < MaxVersions
  /\ saved' = [saved EXCEPT ![p] =
       [number |-> @.number + 1, created |-> Max({@.created, t})]]

SetStatus(p, s, t) == page' = [page EXCEPT ![p] = [status |-> s, updated |-> t]]

\* Record whether the ETag keeps up with the manifest.
Note == orderly' = (orderly /\ (Tag' > Tag \/ (Tag' = Tag /\ Manifest' = Manifest)))

\* BEGIN of a transaction of its own.
Tick == clock < MaxClock /\ clock' = clock + 1

\* POST /: the page and its first version.
Create(p) ==
  /\ ~Exists(p)
  /\ Tick
  /\ SetStatus(p, "draft", clock + 1)
  /\ AddVersion(p, clock + 1)
  /\ UNCHANGED <<live, lockVars, tx, client>>
  /\ Note

\* upsertPage() of a slug that is not there yet.
ProvisionNew(p) ==
  /\ ~Exists(p)
  /\ Tick
  /\ AddVersion(p, clock + 1)
  /\ \/ SetStatus(p, "published", clock + 1) /\ live' = [live EXCEPT ![p] = {1}]
     \/ \E s \in Status \ {"published"} : SetStatus(p, s, clock + 1) /\ UNCHANGED live
  /\ UNCHANGED <<lockVars, tx, client>>
  /\ Note

\* DELETE /:id: one UPDATE.
Archive(p) ==
  /\ Exists(p)
  /\ rowLock[p] = Null
  /\ Tick
  /\ SetStatus(p, "archived", clock + 1)
  /\ UNCHANGED <<saved, live, lockVars, tx, client>>
  /\ Note

Begin(e, p, kind) ==
  /\ Exists(p)
  /\ tx[e] = IdleTx
  /\ Tick
  /\ tx' = [tx EXCEPT ![e] = [kind |-> kind, page |-> p, pc |-> "begun",
                              now |-> clock + 1, head |-> 0, seen |-> 0]]
  /\ UNCHANGED <<storeVars, lockVars, client, orderly>>

\* SELECT .. FOR UPDATE of the page, by PUT and provisioning.
LockPage(e) ==
  LET p == tx[e].page IN
  /\ tx[e].pc = "begun" /\ tx[e].kind \in {"put", "provision"}
  /\ rowLock[p] = Null
  /\ rowLock' = [rowLock EXCEPT ![p] = e]
  /\ tx' = [tx EXCEPT ![e].pc = "locked"]
  /\ UNCHANGED <<storeVars, verLock, clock, client, orderly>>

\* Publish: SELECT the latest version, without a lock.
ReadHead(e) ==
  /\ tx[e].pc = "begun" /\ tx[e].kind = "publish"
  /\ tx' = [tx EXCEPT ![e].pc = "read", ![e].head = saved[tx[e].page].number]
  /\ UNCHANGED <<storeVars, lockVars, clock, client, orderly>>

\* UPDATE config.page_version SET is_published = (id = head) starts, with a snapshot
\* that ends at version `last' ..
StartMark(e, head, last) ==
  /\ tx' = [tx EXCEPT ![e].pc = "marking", ![e].head = head, ![e].seen = last]
  /\ UNCHANGED <<storeVars, lockVars, clock, client, orderly>>

\* .. and goes on when no other transaction has a lock on the rows it has found.
MarkVersions(e) ==
  LET p == tx[e].page IN
  /\ tx[e].pc = "marking"
  /\ verLock[p] = Null
  /\ verLock' = [verLock EXCEPT ![p] = e]
  /\ tx' = [tx EXCEPT ![e].pc = "marked"]
  /\ UNCHANGED <<storeVars, rowLock, clock, client, orderly>>

\* Publish promotes the version it has read, among those that are there by now.
Promote(e) ==
  /\ tx[e].pc = "read"
  /\ StartMark(e, tx[e].head, saved[tx[e].page].number)

\* Provisioning promotes the version it has appended, or the latest if that is not
\* live; it holds the row of the page, so that nobody else appends one.
ProvisionHead(e) ==
  LET last == saved[tx[e].page].number IN
  /\ tx[e].pc = "locked" /\ tx[e].kind = "provision"
  /\ \/ last < MaxVersions /\ StartMark(e, last + 1, last + 1)
     \/ last \notin live[tx[e].page] /\ StartMark(e, last, last)

\* Provisioning finds its tree in the latest version, and that version live.
ProvisionKept(e) ==
  /\ tx[e].pc = "locked" /\ tx[e].kind = "provision"
  /\ saved[tx[e].page].number \in live[tx[e].page]
  /\ tx' = [tx EXCEPT ![e].pc = "kept"]
  /\ UNCHANGED <<storeVars, lockVars, clock, client, orderly>>

\* What a committed UPDATE makes of the versions: those of its snapshot are not live,
\* but for the head.
Marked(e) ==
  live' = [live EXCEPT ![tx[e].page] = {v \in @ : v > tx[e].seen} \cup {tx[e].head}]

\* COMMIT and ROLLBACK end the transaction and free its locks.
EndTx(e) ==
  /\ tx' = [tx EXCEPT ![e] = IdleTx]
  /\ rowLock' = [p \in Pages |-> IF rowLock[p] = e THEN Null ELSE rowLock[p]]
  /\ verLock' = [p \in Pages |-> IF verLock[p] = e THEN Null ELSE verLock[p]]
  /\ UNCHANGED <<clock, client>>
  /\ Note

\* PUT /:id: a new status, a new version, or both.
CommitPut(e) ==
  LET p == tx[e].page IN
  /\ tx[e].pc = "locked" /\ tx[e].kind = "put"
  /\ \/ UNCHANGED page
     \/ \E s \in Status : SetStatus(p, s, tx[e].now)
  /\ UNCHANGED saved \/ AddVersion(p, tx[e].now)
  /\ UNCHANGED live
  /\ EndTx(e)

\* Deviation: the siblings are not demoted.
CommitPublishBeside(e) ==
  LET p == tx[e].page IN
  /\ tx[e].pc = "marked" /\ tx[e].kind = "publish"
  /\ rowLock[p] = Null
  /\ live' = [live EXCEPT ![p] = @ \cup {tx[e].head}]
  /\ SetStatus(p, "published", tx[e].now)
  /\ UNCHANGED saved
  /\ EndTx(e)

\* POST /:id/publish: the version it has read is live, the page is published.
CommitPublish(e) ==
  LET p == tx[e].page IN
  /\ tx[e].pc = "marked" /\ tx[e].kind = "publish"
  /\ rowLock[p] = Null
  /\ Marked(e)
  /\ SetStatus(p, "published", tx[e].now)
  /\ UNCHANGED saved
  /\ EndTx(e)

\* upsertPage() of a page that is to be live; nothing but the page is written if
\* its latest version is live and has the tree.
CommitProvision(e) ==
  LET p == tx[e].page IN
  /\ tx[e].kind = "provision"
  /\ \/ /\ tx[e].pc = "marked"
        /\ \/ tx[e].head = saved[p].number /\ UNCHANGED saved
           \/ tx[e].head > saved[p].number /\ AddVersion(p, tx[e].now)
        /\ Marked(e)
     \/ tx[e].pc = "kept" /\ UNCHANGED <<saved, live>>
  /\ SetStatus(p, "published", tx[e].now)
  /\ EndTx(e)

\* upsertPage() of a page that is not to be live.
CommitProvisionHidden(e) ==
  LET p == tx[e].page IN
  /\ tx[e].pc = "locked" /\ tx[e].kind = "provision"
  /\ \E s \in Status \ {"published"} : SetStatus(p, s, tx[e].now)
  /\ UNCHANGED saved \/ AddVersion(p, tx[e].now)
  /\ UNCHANGED live
  /\ EndTx(e)

\* An error, or a deadlock: publish and provisioning lock in opposite orders.
Abort(e) ==
  /\ tx[e].pc # "idle"
  /\ UNCHANGED storeVars
  /\ EndTx(e)

-----------------------------------------------------------------------------
\* GET /api/bootstrap.

\* The first statement: the ETag. If the client has it, 304.
Probe(k) ==
  /\ client[k].probed = Null
  /\ client[k].tag # Tag
  /\ client' = [client EXCEPT ![k].probed = Tag]
  /\ UNCHANGED <<storeVars, lockVars, tx, clock, orderly>>

\* Deviation: the ETag is read again, after the pages.
ReadManifestThenTag(k) ==
  /\ client[k].probed # Null
  /\ \/ client' = [client EXCEPT ![k].manifest = Manifest, ![k].tag = Null]
     \/ /\ client[k].tag = Null
        /\ client' = [client EXCEPT ![k].tag = Tag, ![k].probed = Null]
  /\ UNCHANGED <<storeVars, lockVars, tx, clock, orderly>>

\* The second statement: the pages. The client keeps them under the ETag.
ReadManifest(k) ==
  /\ client[k].probed # Null
  /\ client' = [client EXCEPT ![k] =
       [tag |-> @.probed, probed |-> Null, manifest |-> Manifest]]
  /\ UNCHANGED <<storeVars, lockVars, tx, clock, orderly>>

PageNext ==
  \/ \E p \in Pages : Create(p) \/ ProvisionNew(p) \/ Archive(p)
  \/ \E e \in Editors :
       \/ \E p \in Pages, kind \in {"put", "publish", "provision"} : Begin(e, p, kind)
       \/ LockPage(e) \/ ReadHead(e) \/ Promote(e) \/ ProvisionHead(e)
       \/ ProvisionKept(e) \/ MarkVersions(e) \/ CommitPut(e) \/ CommitPublish(e)
       \/ CommitProvision(e) \/ CommitProvisionHidden(e) \/ Abort(e)
  \/ \E k \in Clients : Probe(k) \/ ReadManifest(k)

PageSpec == PageInit /\ [][PageNext]_pageVars
-----------------------------------------------------------------------------

\* pages.ts: "Atomic so there is never zero or two published versions for a page". No
\* interleaving of publishes, saves and provisioning takes the last live version away,
\* and whatever changes what is live leaves one version live; beside it only those that
\* were committed while the UPDATE of the publish that ends here was waiting.
OneLiveVersion ==
  [][\A p \in Pages :
       /\ live[p] # {} => live'[p] # {}
       /\ live'[p] # live[p] =>
            \E h \in live'[p] : \A v \in live'[p] \ {h} :
              \E e \in Editors :
                /\ tx[e].kind = "publish" /\ tx[e].page = p /\ tx'[e].pc = "idle"
                /\ v > tx[e].seen]_pageVars

\* bootstrap: "revalidate every boot; 304 when unchanged". As long as the ETag
\* has grown with every change of the manifest, a client that is told 304 holds the
\* manifest it would be sent, however saves and publishes interleave with its boots.
RevalidationIsSound ==
  \A k \in Clients :
    orderly /\ client[k].probed = Null /\ client[k].tag = Tag =>
      client[k].manifest = Manifest

-----------------------------------------------------------------------------
\* A statement of a comment that the code does not keep.

\* pages.ts: "never zero or two published versions for a page".
NeverTwoLive == \A p \in Pages : Cardinality(live[p]) <= 1
=============================================================================
