---------------------------- MODULE VirtWorkspace ----------------------------
(***************************************************************************)
(* The in-memory workspace of virt-git (virt-git/src/workspace.rs, with     *)
(* tree.rs, diff.rs, store.rs and file_provider.rs): the tree an agent was  *)
(* given, the tree it has made of it, and the operations on the pair.  A    *)
(* blob is addressed by the hash of its content, so a content stands for    *)
(* its hash and a blob store is the set of contents put into it.            *)
(***************************************************************************)
CONSTANTS
  Paths,
  Contents,
  Absent     \* no entry for a path, and no content

Trees      == [Paths -> Contents \cup {Absent}]
Workspaces == [base : Trees, working : Trees]

EmptyTree == [p \in Paths |-> Absent]
New       == [base |-> EmptyTree, working |-> EmptyTree]
-----------------------------------------------------------------------------
(* Files.  `files' maps some paths to their contents.                       *)

Over(tree, files) == [p \in Paths |-> IF p \in DOMAIN files THEN files[p] ELSE tree[p]]

\* Mutant: the base is not loaded.
LoadFiles_WorkingOnly(ws, files) == [ws EXCEPT !.working = Over(ws.working, files)]

\* load_file: what the agent starts from.
LoadFiles(ws, files) == [base |-> Over(ws.base, files), working |-> Over(ws.working, files)]

\* write_file: an edit.
WriteFiles(ws, files) == [ws EXCEPT !.working = Over(ws.working, files)]

DeleteFile(ws, path) == [ws EXCEPT !.working[path] = Absent]

ReadFile(ws, path) == ws.working[path]

\* put: a content is stored once.
Put(store, files) == store \cup {files[p] : p \in DOMAIN files}

\* Every entry of a workspace can be read from its store.
TreeStored(tree, store) == \A p \in Paths : tree[p] # Absent => tree[p] \in store
Stored(ws, store) == TreeStored(ws.base, store) /\ TreeStored(ws.working, store)
-----------------------------------------------------------------------------
(* Changes                                                                  *)

\* diff_trees, diff_entries
Diff(ws) == {p \in Paths : ws.working[p] # ws.base[p]}
HasChanges(ws) == Diff(ws) # {}

\* VirtFileProvider::modified_files: a deletion is in no list of modified files.
ModifiedFiles(ws) ==
  [p \in {q \in Diff(ws) : ws.working[q] # Absent} |-> ReadFile(ws, p)]

\* commit: nothing is pending any more.
Commit(ws) == [ws EXCEPT !.base = ws.working]
-----------------------------------------------------------------------------
(* Fork and merge                                                           *)

\* fork: an independent workspace that starts from this one's working tree.
Fork(ws) == [base |-> ws.working, working |-> ws.working]

WeChanged(ours, p)           == ours.working[p] # ours.base[p]
TheyChanged(ours, theirs, p) == theirs.working[p] # ours.base[p]

\* The base of the workspace merged into is taken for the common ancestor.
Conflicts(ours, theirs) ==
  {p \in Paths : WeChanged(ours, p) /\ TheyChanged(ours, theirs, p)}

\* merge: what they changed is taken, a conflict is only reported; a content their
\* store does not have leaves our entry as it is.
Merge(ours, theirs, theirStore) ==
  [ours EXCEPT !.working =
     [p \in Paths |->
        IF /\ TheyChanged(ours, theirs, p)
           /\ theirs.working[p] \in theirStore \cup {Absent}
        THEN theirs.working[p] ELSE ours.working[p]]]

\* The contents merge copies into our store.
MergedStore(ours, theirs, store, theirStore) ==
  store \cup {theirs.working[p] :
                p \in {q \in Paths : TheyChanged(ours, theirs, q)
                                     /\ theirs.working[q] \in theirStore}}
=============================================================================
