----------------------------- MODULE PullRequest -----------------------------
(***************************************************************************)
(* A run's result becomes a pull request: the end of execute_task           *)
(* (agent-daemon/src/executor.rs), the GitHub API client of virt-git        *)
(* (github.rs), the git provider's client (provider_client.rs), the         *)
(* provider's create_pr (providers/git-provider/src/main.rs) and the        *)
(* daemon's own (git_pr.rs).  The last two are the same sequence of git     *)
(* commands, run by two processes in the project's base clone: git.create_pr *)
(* is given repo_path_str, wherever the run worked.  A file's content is    *)
(* the run that wrote it.                                                   *)
(***************************************************************************)
EXTENDS Delivery

CONSTANTS
  NewFiles,    \* files that do not exist before any run
  Modified,    \* run -> files its result changes
  Goals,       \* run -> its goal
  Hyphenated,  \* goals whose slug has two hyphens in a row, or is cut inside one
  Shared,      \* the project's base clone
  Placements,  \* where the runs may work: in a clone of their own or in the base clone;
               \* nowhere when no agent applied anything
  None

Original == "original"    \* what the other files hold before any run

ASSUME PullRequestAssumption ==
  /\ Modified \in [Runs -> SUBSET Files] /\ DOMAIN Goals = Runs
  /\ \A d \in Placements : \A r \in Runs : d[r] \in {r, Shared, None}
  /\ Shared \notin Runs /\ Original \notin Runs /\ None \notin Runs

Actors == {"daemon", "provider"}

VARIABLES
  dir,      \* run -> its working directory
  base,     \* the base clone
  own,      \* run -> the files in its own clone
  at,       \* actor, run -> its next step
  opened,   \* actor, run -> the branch of the pull request it has opened
  written,  \* run -> files that reached the disk
  remote,   \* branch -> its tree on GitHub
  prs,      \* the pull requests
  url,      \* run -> the pull request recorded for it
  unsure    \* history: runs with an answer lost

vars == <<dir, base, own, at, opened, written, remote, prs, url, unsure, faults>>

VW == INSTANCE VirtWorkspace WITH Paths <- Files, Contents <- Runs \cup {Original}, Absent <- None

Checkout == <<"clone", None>>   \* the branch a clone has checked out at first
Tree     == [Files -> Runs \cup {Original, None}]
BaseTree == [f \in Files |-> IF f \in NewFiles THEN None ELSE Original]

\* git_pr.rs collapses hyphens in a goal's slug, the provider does not.
Slug(actor, r) ==
  <<IF actor = "provider" /\ Goals[r] \in Hyphenated THEN "slug--" ELSE "slug", Goals[r]>>
TaskBranch(r) == <<"task", r>>
Slugs    == {Slug(a, r) : a \in Actors, r \in Runs}
Branches == Slugs \cup {TaskBranch(r) : r \in Runs}

Clone == [head |-> Checkout, prev |-> Checkout, index |-> BaseTree, disk |-> BaseTree,
          local |-> [b \in Slugs \cup {Checkout} |-> IF b = Checkout THEN BaseTree ELSE None]]

Init ==
  \* isolate_run_workspace, or the base clone when that fails
  /\ dir \in Placements
  /\ base = Clone /\ own = [r \in Runs |-> BaseTree]
  /\ at = [a \in Actors |-> [r \in Runs |-> IF a = "provider" THEN "none"
                                            ELSE IF dir[r] = None THEN "done" ELSE "start"]]
  /\ opened = [a \in Actors |-> [r \in Runs |-> None]]
  /\ written = [r \in Runs |-> {}]
  /\ remote = [b \in Branches |-> None] /\ prs = {} /\ url = [r \in Runs |-> None]
  /\ unsure = {} /\ faults = 0

Loses(r) == Fault /\ unsure' = unsure \cup {r}
Sure     == UNCHANGED <<faults, unsure>>

To(a, r, step) == at' = [at EXCEPT ![a][r] = step]
github == <<remote, prs>>
-----------------------------------------------------------------------------
(* git                                                                      *)

HeadTree(g) == g.local[g.head]

\* checkout -: refused when it would overwrite a change, or the branch is gone.
Dirty(g) == {f \in Files : g.disk[f] # HeadTree(g)[f] \/ g.index[f] # HeadTree(g)[f]}
CanGoBack(g) ==
  /\ g.local[g.prev] # None
  /\ \A f \in Dirty(g) : g.local[g.prev][f] = HeadTree(g)[f]
Switched(g, tree) == [f \in Files |-> IF g.local[g.prev][f] = HeadTree(g)[f]
                                      THEN tree[f] ELSE g.local[g.prev][f]]
WentBack(g) == [g EXCEPT !.head = g.prev, !.prev = g.head,
                         !.index = Switched(g, g.index), !.disk = Switched(g, g.disk)]
-----------------------------------------------------------------------------
(* The daemon, up to the git commands                                       *)

\* repo_path is the base clone.
InBase(r) == dir[r] = Shared

\* sync_repo_to_branch: the clone is forced onto the project's branch and cleaned; on
\* an error it stays as it is.  Runs whose isolation failed do this to the base clone,
\* whatever goes on there.  (ensure_repo's pull brings nothing new: the remote's own
\* branches do not move here.)
Synced(g) == [g EXCEPT !.prev = g.head, !.head = Checkout, !.local[Checkout] = BaseTree,
                       !.index = BaseTree, !.disk = BaseTree]

Start(r) ==
  /\ at["daemon"][r] = "start" /\ To("daemon", r, "write")
  /\ \/ base' = (IF InBase(r) THEN Synced(base) ELSE base) /\ NoFault
     \/ base' = base /\ Fault
  /\ UNCHANGED <<dir, own, opened, written, github, url, unsure>>

\* The captured files are put on disk; an error is ignored.
Write(r) ==
  /\ at["daemon"][r] = "write"
  /\ \E ok \in SUBSET Modified[r] :
       /\ IF ok = Modified[r] THEN NoFault ELSE Fault
       /\ LET Over(tree) == [f \in Files |-> IF f \in ok THEN r ELSE tree[f]]
          IN  IF InBase(r)
              THEN base' = [base EXCEPT !.disk = Over(@)] /\ own' = own
              ELSE own' = [own EXCEPT ![r] = Over(@)] /\ base' = base
       /\ written' = [written EXCEPT ![r] = ok]
  /\ To("daemon", r, "build")
  /\ UNCHANGED <<dir, opened, github, url, unsure>>

\* The pull request's workspace: the originals as they are on disk, then the result.
WorkTree(r) == IF InBase(r) THEN base.disk ELSE own[r]
OnDisk(r)   == [f \in {x \in Modified[r] : WorkTree(r)[x] # None} |-> WorkTree(r)[f]]

Workspace(r) ==
  VW!WriteFiles(VW!LoadFiles(VW!New, OnDisk(r)), [f \in Modified[r] |-> r])

\* Without GITHUB_TOKEN the API is not called, and create_pr of github.rs refuses an
\* empty diff.
SkipApi(r) ==
  /\ at["daemon"][r] = "build" /\ To("daemon", r, "ask")
  /\ UNCHANGED <<dir, own, base, opened, written, github, url, unsure, faults>>

\* Base reference, blobs, tree and commit leave nothing behind that can be seen: the
\* branch does.  Its tree is main's with the changed files.
Referenced(r) ==
  [remote EXCEPT ![TaskBranch(r)] = VW!Over(BaseTree, VW!ModifiedFiles(Workspace(r)))]

CreateRef(r) ==
  /\ at["daemon"][r] = "build" /\ VW!HasChanges(Workspace(r))
  /\ \/ remote' = Referenced(r) /\ To("daemon", r, "pull") /\ NoFault
     \/ remote' \in {remote, Referenced(r)} /\ To("daemon", r, "ask") /\ Fault
  /\ UNCHANGED <<dir, own, base, opened, written, prs, url, unsure>>

\* Mutant: git is run after a success too.
Pull_ThenGit(r) ==
  /\ at["daemon"][r] = "pull" /\ To("daemon", r, "ask")
  /\ prs' = prs \cup {[run |-> r, head |-> TaskBranch(r)]}
  /\ UNCHANGED <<dir, own, base, opened, written, remote, url, unsure, faults>>

\* The last call of the API; any error falls back to git.
Pull(r) ==
  /\ at["daemon"][r] = "pull"
  /\ \/ /\ prs' = prs \cup {[run |-> r, head |-> TaskBranch(r)]}
        /\ \/ /\ To("daemon", r, "record") /\ Sure
              /\ url' = [url EXCEPT ![r] = TaskBranch(r)]
           \/ To("daemon", r, "ask") /\ url' = url /\ Loses(r)
     \/ prs' = prs /\ url' = url /\ To("daemon", r, "ask") /\ Fault /\ UNCHANGED unsure
  /\ UNCHANGED <<dir, own, base, opened, written, remote>>

\* GitProviderClient::create_pr; without NATS or a subscriber, git is run here.
Ask(r) ==
  /\ at["daemon"][r] = "ask"
  /\ \/ at' = [at EXCEPT !["daemon"][r] = "wait", !["provider"][r] = "queued"]
     \/ To("daemon", r, "checkout")
  /\ UNCHANGED <<dir, own, base, opened, written, github, url, unsure, faults>>

Answer(r) ==
  /\ at["daemon"][r] = "wait" /\ at["provider"][r] \in {"ok", "err"}
  /\ IF at["provider"][r] = "ok"
     THEN To("daemon", r, "record") /\ url' = [url EXCEPT ![r] = opened["provider"][r]]
     ELSE To("daemon", r, "checkout") /\ url' = url
  /\ UNCHANGED <<dir, own, base, opened, written, github, unsure, faults>>

\* No answer in 120 s, or the error of another provider that has no such directory
\* (the subject has no queue group): the request itself is not withdrawn.
GivesUp(r) ==
  /\ at["daemon"][r] = "wait" /\ at["provider"][r] \notin {"ok", "err"}
  /\ To("daemon", r, "checkout")
  /\ UNCHANGED <<dir, own, base, opened, written, github, url, unsure, faults>>

\* update_run with the pull request, then the run's own clone is removed (nothing reads
\* it any more).
Record(r) ==
  /\ at["daemon"][r] = "record" /\ To("daemon", r, "done")
  /\ UNCHANGED <<dir, own, base, opened, written, github, url, unsure, faults>>
-----------------------------------------------------------------------------
(* create_pr, by the daemon or by the provider                              *)

Commands == {"checkout", "add", "check", "tidy", "drop", "commit", "push", "gh", "back"}

\* One request at a time.
StartJob(r) ==
  /\ at["provider"][r] = "queued" /\ \A q \in Runs : at["provider"][q] \notin Commands
  /\ To("provider", r, "checkout")
  /\ UNCHANGED <<dir, own, base, opened, written, github, url, unsure, faults>>

Fails(a, r) == To(a, r, IF a = "daemon" THEN "record" ELSE "err")

CheckoutBranch(a, r) ==
  /\ at[a][r] = "checkout"
  /\ LET b == Slug(a, r)
     IN  IF base.local[b] # None
         THEN Fails(a, r) /\ UNCHANGED base
         ELSE /\ base' = [base EXCEPT !.local[b] = HeadTree(base), !.prev = base.head, !.head = b]
              /\ To(a, r, "add")
  /\ UNCHANGED <<dir, own, opened, written, github, url, unsure, faults>>

\* Mutant: add -u, which leaves new files out.
Staged_Tracked(g) == [f \in Files |-> IF HeadTree(g)[f] = None THEN None ELSE g.disk[f]]

\* add -A
Staged(g) == g.disk

AddAll(a, r) ==
  /\ at[a][r] = "add"
  /\ base' = [base EXCEPT !.index = Staged(base)] /\ To(a, r, "check")
  /\ UNCHANGED <<dir, own, opened, written, github, url, unsure, faults>>

\* diff --cached --quiet
NothingStaged(g) == g.index = HeadTree(g)

Check(a, r) ==
  /\ at[a][r] = "check"
  /\ To(a, r, IF NothingStaged(base) THEN "tidy" ELSE "commit")
  /\ UNCHANGED <<dir, own, base, opened, written, github, url, unsure, faults>>

\* No changes: back to the branch before, and the new one is deleted.
Tidy(a, r) ==
  /\ at[a][r] = "tidy"
  /\ IF CanGoBack(base) THEN base' = WentBack(base) /\ To(a, r, "drop")
     ELSE UNCHANGED base /\ IF a = "daemon" THEN Fails(a, r) ELSE To(a, r, "drop")
  /\ UNCHANGED <<dir, own, opened, written, github, url, unsure, faults>>

\* git does not delete the branch that is checked out.
CanDelete(g, b) == g.head # b

Drop(a, r) ==
  /\ at[a][r] = "drop"
  /\ base' = IF CanDelete(base, Slug(a, r))
             THEN [base EXCEPT !.local[Slug(a, r)] = None] ELSE base
  /\ Fails(a, r)
  /\ UNCHANGED <<dir, own, opened, written, github, url, unsure, faults>>

\* The commit goes to whatever branch is checked out by now.
CommitIndex(a, r) ==
  /\ at[a][r] = "commit"
  /\ IF NothingStaged(base)
     THEN Fails(a, r) /\ UNCHANGED base
     ELSE base' = [base EXCEPT !.local[base.head] = base.index] /\ To(a, r, "push")
  /\ UNCHANGED <<dir, own, opened, written, github, url, unsure, faults>>

\* A branch of that name on the remote has another history: the push is rejected.
Push(a, r) ==
  /\ at[a][r] = "push"
  /\ LET b == Slug(a, r)
     IN  IF base.local[b] = None \/ remote[b] # None
         THEN Fails(a, r) /\ UNCHANGED remote
         ELSE remote' = [remote EXCEPT ![b] = base.local[b]] /\ To(a, r, "gh")
  /\ UNCHANGED <<dir, own, base, opened, written, prs, url, unsure, faults>>

\* gh pr create --head; without a commit of its own a branch makes no pull request.
\* The provider goes back to the former branch unless gh is not installed, the daemon
\* only after a success.
Gh(a, r) ==
  /\ at[a][r] = "gh"
  /\ LET b     == Slug(a, r)
         works == remote[b] # BaseTree
         after == IF a = "daemon" THEN "record" ELSE "back"
     IN  \/ /\ works
            /\ prs' = prs \cup {[run |-> r, head |-> b]}
            /\ \/ /\ To(a, r, "back") /\ opened' = [opened EXCEPT ![a][r] = b] /\ Sure
               \/ To(a, r, after) /\ opened' = opened /\ Loses(r)
         \/ /\ prs' = prs /\ opened' = opened
            /\ \/ To(a, r, after) /\ IF works THEN Fault /\ UNCHANGED unsure ELSE Sure
               \/ Fails(a, r) /\ Fault /\ UNCHANGED unsure
  /\ UNCHANGED <<dir, own, base, written, remote, url>>

Back(a, r) ==
  /\ at[a][r] = "back"
  /\ base' = IF CanGoBack(base) THEN WentBack(base) ELSE base
  /\ IF a = "daemon"
     THEN To(a, r, "record") /\ url' = [url EXCEPT ![r] = opened[a][r]]
     ELSE To(a, r, IF opened[a][r] = None THEN "err" ELSE "ok") /\ url' = url
  /\ UNCHANGED <<dir, own, opened, written, github, unsure, faults>>

\* A command fails by itself: the index is locked by the other process, the network
\* is down.
CommandFails(a, r) ==
  /\ at[a][r] \in {"checkout", "add", "commit", "push"} /\ Fault /\ Fails(a, r)
  /\ UNCHANGED <<dir, own, base, opened, written, github, url, unsure>>

GitCommand(a, r) ==
  CheckoutBranch(a, r) \/ AddAll(a, r) \/ Check(a, r) \/ Tidy(a, r) \/ Drop(a, r)
  \/ CommitIndex(a, r) \/ Push(a, r) \/ Gh(a, r) \/ Back(a, r)
-----------------------------------------------------------------------------
Daemon(r) == Start(r) \/ Write(r) \/ SkipApi(r) \/ CreateRef(r) \/ Pull(r) \/ Ask(r) \/ Answer(r)
             \/ GivesUp(r) \/ Record(r) \/ GitCommand("daemon", r)

Provider(r) == StartJob(r) \/ GitCommand("provider", r)

Next == \E r \in Runs : Daemon(r) \/ Provider(r) \/ \E a \in Actors : CommandFails(a, r)

\* The daemon's calls return; nothing is assumed of the provider.
Spec == Init /\ [][Next]_vars /\ \A r \in Runs : WF_vars(Daemon(r))
-----------------------------------------------------------------------------
\* The state is well formed.
TypeOK ==
  /\ dir \in Placements
  /\ base.index \in Tree /\ base.disk \in Tree /\ HeadTree(base) \in Tree
  /\ base.local \in [Slugs \cup {Checkout} -> Tree \cup {None}]
  /\ base.prev \in Slugs \cup {Checkout} /\ own \in [Runs -> Tree]
  /\ \A r \in Runs :
       /\ at["daemon"][r] \in
            {"start", "write", "build", "pull", "ask", "wait", "record", "done"} \cup Commands
       /\ at["provider"][r] \in {"none", "queued", "ok", "err"} \cup Commands
       /\ written[r] \subseteq Modified[r] /\ url[r] \in Branches \cup {None}
  /\ opened \in [Actors -> [Runs -> Slugs \cup {None}]]
  /\ remote \in [Branches -> Tree \cup {None}]
  /\ prs \subseteq [run : Runs, head : Branches]
  /\ unsure \subseteq Runs /\ faults \in 0 .. MaxFaults

Sole(r)    == dir[r] = Shared /\ \A q \in Runs \ {r} : dir[q] = None
Apart(r)   == dir[r] \notin {Shared, None}
PrsOf(r)   == {p \in prs : p.run = r}
ByGit(p)   == p.head # TaskBranch(p.run)

\* A run alone in the base clone has one pull request, however its two git sequences
\* interleave; a second one only after GitHub's answer to the first was lost.
OnePullRequest == \A r \in Runs : Sole(r) /\ r \notin unsure => Cardinality(PrsOf(r)) <= 1

\* A pull request that git makes for it carries every edit that reached the disk, and
\* nothing else.
GitPrWhole ==
  \A p \in prs :
    ByGit(p) /\ Sole(p.run) =>
      \A f \in Files : remote[p.head][f] = IF f \in written[p.run] THEN p.run ELSE BaseTree[f]

\* Runs in clones of their own leave no trace in the base clone, so that git never makes
\* a pull request for them.
IsolatedNeverByGit == (\A r \in Runs : dir[r] # Shared) => \A p \in prs : ~ByGit(p)

\* The API's pull request is made from what is not on disk: in a clone of its own, only
\* from the files that could not be written (executor.rs:1395-1403 before :1431).
ApiPrLeftOver ==
  \A p \in prs :
    ~ByGit(p) /\ Apart(p.run) =>
      \A f \in Files : remote[p.head][f] = p.run <=> f \in Modified[p.run] \ written[p.run]

\* The phase ends, whatever the provider does.
PhaseEnds == \A r \in Runs : <>(at["daemon"][r] = "done")

\* Refuted: "Create PR via GitHub API (no git CLI, no disk writes)" (executor.rs:1415).
ApiPrWhole ==
  \A p \in prs : ~ByGit(p) => \A f \in Modified[p.run] : remote[p.head][f] = p.run

\* Refuted: "Create PR if there are actual changes" (executor.rs:1404).  The API call
\* sees no difference and git runs in the base clone, where the edits are not.
ChangesGetPr ==
  \A r \in Runs :
    Apart(r) /\ faults = 0 /\ at["daemon"][r] = "done" /\ Modified[r] # {} => url[r] # None

\* Refuted: "so parallel runs never share mutable git state" (executor.rs:951): a run
\* whose isolation failed has its edits published under another run's goal.
OwnEditsOnly ==
  \A p \in prs : ByGit(p) => \A f \in Files : remote[p.head][f] \in {p.run, Original, None}

\* Refuted: "Falls back to local execution if NATS provider is unavailable"
\* (provider_client.rs:2).  With both at work, a commit may land on the other's branch.
EditsKept ==
  \A r \in Runs :
    /\ Sole(r) /\ faults = 0
    /\ at["daemon"][r] = "done" /\ at["provider"][r] \in {"none", "ok", "err"}
    => \A f \in Modified[r] : \E b \in Branches : remote[b] # None /\ remote[b][f] = r
=============================================================================
