---------------------------- MODULE ReleaseBundle ----------------------------
(***************************************************************************)
(* A curated release and its members: routes/stats/releases.ts (attach,    *)
(* publish), ingest/publish-bundle.ts and the parts of ingest/publish.ts   *)
(* that decide which release a submission ends up in.                      *)
(*                                                                         *)
(* publishBundle() lists the staged members, publishes them one by one,    *)
(* each in a transaction of its own, and publishes the release last.       *)
(* Handlers await the database between statements, so they interleave.     *)
(***************************************************************************)
EXTENDS Naturals, FiniteSets
LOCAL INSTANCE TLC

CONSTANTS
  Members,    \* submissions that are staged and clean
  DryRuns,    \* the ones submitted as a dry run
  Requests,   \* POST /releases/:id/publish and POST /jobs/:id/publish
  Attaches,   \* POST /releases/:id/attach
  NoMember,
  MaxFaults   \* bound: publish transactions that fail

ASSUME BundleConstants ==
  /\ DryRuns \subseteq Members
  /\ NoMember \notin Members
  /\ MaxFaults \in Nat

VARIABLES
  sub,       \* sub[m]: submission.status
  link,      \* link[m]: submission.release_id: none, the bundle, a release of its own
  release,   \* release.status of the bundle
  req,       \* req[p]: where a publish request is, and its locals
  attach,    \* attach[a]: where an attach request is
  faults,
  contested  \* members that two requests have had in hand at once (history)

bundleVars == <<sub, link, release, req, attach, faults, contested>>

Link == {"none", "bundle", "own"}

\* kind: bundle or single; todo, listed: the members listed, those still to do;
\* member, seen: the submission being published and the release_id read for it.
Request == [pc : {"idle", "checked", "loop", "member", "done", "aborted"},
            kind : {"bundle", "single"}, listed : SUBSET Members,
            todo : SUBSET Members, member : Members \cup {NoMember}, seen : Link]

Attach == [pc : {"idle", "checked", "attached", "refused"},
           member : Members \cup {NoMember}]

BundleTypeOK ==
  /\ sub \in [Members -> {"staged", "published", "failed", "rejected"}]
  /\ link \in [Members -> Link]
  /\ release \in {"open", "published", "superseded"}
  /\ req \in [Requests -> Request]
  /\ attach \in [Attaches -> Attach]
  /\ faults \in 0..MaxFaults
  /\ contested \subseteq Members

BundleInit ==
  /\ sub = [m \in Members |-> "staged"]
  /\ link = [m \in Members |-> "none"]
  /\ release = "open"
  /\ req = [p \in Requests |-> [pc |-> "idle", kind |-> "bundle", listed |-> {},
                                todo |-> {}, member |-> NoMember, seen |-> "none"]]
  /\ attach = [a \in Attaches |-> [pc |-> "idle", member |-> NoMember]]
  /\ faults = 0
  /\ contested = {}

\* p is between the header of m and the end of its transaction.
At(p, m) == req[p].pc = "member" /\ req[p].member = m

-----------------------------------------------------------------------------
\* POST /releases/:id/attach.

\* Deviation: the status of the release is not looked at.
CheckAttachAnyway(a) ==
  /\ attach[a].pc = "idle"
  /\ \E m \in Members : attach' = [attach EXCEPT ![a] = [pc |-> "checked", member |-> m]]
  /\ UNCHANGED <<sub, link, release, req, faults, contested>>

\* The release must be open ..
CheckAttach(a) ==
  /\ attach[a].pc = "idle"
  /\ release = "open"
  /\ \E m \in Members : attach' = [attach EXCEPT ![a] = [pc |-> "checked", member |-> m]]
  /\ UNCHANGED <<sub, link, release, req, faults, contested>>

\* .. and, in the UPDATE, the submission staged. A publish that has read the header
\* does not see the release any more.
UpdateAttach(a) ==
  LET m == attach[a].member IN
  /\ attach[a].pc = "checked"
  /\ \/ /\ sub[m] = "staged"
        /\ link' = [link EXCEPT ![m] = "bundle"]
        /\ attach' = [attach EXCEPT ![a].pc = "attached"]
        /\ contested' = contested \cup
             {n \in {m} : \E p \in Requests : At(p, m) /\ req[p].seen # "bundle"}
     \/ /\ sub[m] # "staged"
        /\ attach' = [attach EXCEPT ![a].pc = "refused"]
        /\ UNCHANGED <<link, contested>>
  /\ UNCHANGED <<sub, release, req, faults>>

-----------------------------------------------------------------------------
\* Publishing.

\* POST /releases/:id/publish: the release must be open.
CheckRelease(p) ==
  /\ req[p].pc = "idle"
  /\ release = "open"
  /\ req' = [req EXCEPT ![p].pc = "checked"]
  /\ UNCHANGED <<sub, link, release, attach, faults, contested>>

\* publishBundle(): list the members that are still staged.
ListMembers(p) ==
  /\ req[p].pc = "checked"
  /\ LET ms == {m \in Members : link[m] = "bundle" /\ sub[m] = "staged"}
     IN  req' = [req EXCEPT ![p].pc = "loop", ![p].listed = ms, ![p].todo = ms]
  /\ UNCHANGED <<sub, link, release, attach, faults, contested>>

\* m is in the hands of a second request.
NoteSecond(m) ==
  contested' = contested \cup {n \in {m} : \E q \in Requests : At(q, m)}

\* publishSubmission() of the next member: the header is read outside of the
\* transaction; one that is not staged ends the request.
ReadMember(p) ==
  /\ req[p].pc = "loop"
  /\ \E m \in req[p].todo :
       \/ /\ sub[m] = "staged"
          /\ req' = [req EXCEPT ![p].pc = "member", ![p].todo = @ \ {m},
                                ![p].member = m, ![p].seen = link[m]]
          /\ NoteSecond(m)
       \/ /\ sub[m] # "staged"
          /\ req' = [req EXCEPT ![p].pc = "aborted"]
          /\ UNCHANGED contested
  /\ UNCHANGED <<sub, link, release, attach, faults>>

\* POST /jobs/:id/publish: publishSubmission() of one submission, in a bundle or not.
ReadSingle(p) ==
  /\ req[p].pc = "idle"
  /\ \E m \in Members :
       /\ sub[m] = "staged"
       /\ req' = [req EXCEPT ![p].pc = "member", ![p].kind = "single",
                             ![p].member = m, ![p].seen = link[m]]
       /\ NoteSecond(m)
  /\ UNCHANGED <<sub, link, release, attach, faults>>

Continue(p) == IF req[p].kind = "bundle" THEN "loop" ELSE "done"

\* The transaction commits: into the release read in the header, or into one of its
\* own, which supersedes the bundle if that is the current release of its scope. A dry
\* run is rolled back and stays staged. The UPDATEs of the status have no guard.
PublishMember(p) ==
  /\ req[p].pc = "member"
  /\ LET m == req[p].member IN
       \/ /\ m \in DryRuns
          /\ sub' = [sub EXCEPT ![m] = "staged"]
          /\ UNCHANGED <<link, release>>
       \/ /\ m \notin DryRuns /\ req[p].seen = "bundle"
          /\ sub' = [sub EXCEPT ![m] = "published"]
          /\ link' = [link EXCEPT ![m] = "bundle"]
          /\ UNCHANGED release
       \/ /\ m \notin DryRuns /\ req[p].seen # "bundle"
          /\ sub' = [sub EXCEPT ![m] = "published"]
          /\ link' = [link EXCEPT ![m] = "own"]
          /\ release' \in {release} \cup
               {s \in {"superseded"} : release = "published"}
  /\ req' = [req EXCEPT ![p].pc = Continue(p)]
  /\ UNCHANGED <<attach, faults, contested>>

\* The transaction fails: the member is marked failed and the request ends.
FailMember(p) ==
  /\ req[p].pc = "member"
  /\ faults < MaxFaults
  /\ sub' = [sub EXCEPT ![req[p].member] = "failed"]
  /\ req' = [req EXCEPT ![p].pc = "aborted"]
  /\ faults' = faults + 1
  /\ UNCHANGED <<link, release, attach, contested>>

\* Deviation: the release is published while members are still to do.
FinalizeEarly(p) ==
  /\ req[p].pc = "loop"
  /\ release' = "published"
  /\ req' = [req EXCEPT ![p].pc = "done"]
  /\ UNCHANGED <<sub, link, attach, faults, contested>>

\* All listed members are done: publish the release, a no-op if it is already, and an
\* error if it has been superseded meanwhile.
Finalize(p) ==
  /\ req[p].pc = "loop"
  /\ req[p].todo = {}
  /\ IF release = "superseded"
     THEN req' = [req EXCEPT ![p].pc = "aborted"] /\ UNCHANGED release
     ELSE req' = [req EXCEPT ![p].pc = "done"] /\ release' = "published"
  /\ UNCHANGED <<sub, link, attach, faults, contested>>

\* POST /jobs/:id/reject.
Reject(m) ==
  /\ sub[m] = "staged"
  /\ sub' = [sub EXCEPT ![m] = "rejected"]
  /\ UNCHANGED <<link, release, req, attach, faults, contested>>

BundleNext ==
  \/ \E a \in Attaches : CheckAttach(a) \/ UpdateAttach(a)
  \/ \E p \in Requests :
       \/ CheckRelease(p) \/ ListMembers(p) \/ ReadMember(p) \/ ReadSingle(p)
       \/ PublishMember(p) \/ FailMember(p) \/ Finalize(p)
  \/ \E m \in Members : Reject(m)

BundleSpec == BundleInit /\ [][BundleNext]_bundleVars
-----------------------------------------------------------------------------

\* The submissions whose facts carry the bundle's release id.
Stamped == {m \in Members : sub[m] = "published" /\ link[m] = "bundle"}

\* publish-bundle.ts: "each submission atomic + release published LAST". Whatever requests
\* interleave, fail and are retried: one that published the release has published every
\* member it listed, into it, but for those that a second request had in hand.
ReleaseComesLast ==
  \A p \in Requests : req[p].kind = "bundle" /\ req[p].pc = "done" =>
    /\ release # "open"
    /\ req[p].listed \ (DryRuns \cup contested) \subseteq Stamped

\* The members whose facts may still enter the bundle: attached to it, or about to be,
\* and not published yet.
Stragglers ==
  {m \in Members \ DryRuns :
     \/ link[m] = "bundle" /\ sub[m] = "staged"
     \/ \E a \in Attaches : attach[a].pc = "checked" /\ attach[a].member = m
     \/ \E p \in Requests : At(p, m) /\ req[p].seen = "bundle"}

\* releases.ts: "cannot attach to a published vintage". Once the release is published it
\* never reopens, and what could enter it then is all that ever does: requests that
\* had begun before end, none begins. Nothing leaves it that one request had in hand.
PublishedBundleIsClosed ==
  [][release # "open" =>
       /\ release' # "open"
       /\ Stragglers' \subseteq Stragglers
       /\ Stamped' \ Stamped \subseteq Stragglers
       /\ Stamped \ Stamped' \subseteq contested]_bundleVars

\* publish-bundle.ts: "Only when ALL members succeed does publish_release run". No
\* member that a request has listed is failed when the release is published.
BundleIsWhole ==
  release = "published" => \A p \in Requests : \A m \in req[p].listed : sub[m] # "failed"

-----------------------------------------------------------------------------
\* For TLC: requests are interchangeable, and so are attaches and the submissions that are
\* no dry runs.
BundleSymmetry ==
  Permutations(Members \ DryRuns) \cup Permutations(Requests) \cup Permutations(Attaches)
=============================================================================
