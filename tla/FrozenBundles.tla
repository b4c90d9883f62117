--------------------------- MODULE FrozenBundles ---------------------------
(***************************************************************************)
(* Frozen bundles: `husker bundle freeze` captures a source directory that *)
(* other programs may be writing to, publishes the archive under a new     *)
(* name, and a consumer that knows the digest decodes it. The guest job    *)
(* runner uses the same walk to re-inventory a source tree.                *)
(*                                                                         *)
(* One directory level stands for the tree: the walk recurses with the     *)
(* same steps and shared budgets. A file is a sequence of pieces, each the *)
(* number of the edit that wrote it, and a stamp that stands for the       *)
(* metadata the code compares. The archive encoding is injective, so a     *)
(* bundle is its set of files and its digest identifies it.                *)
(***************************************************************************)
EXTENDS Naturals, Sequences, FiniteSets

CONSTANTS
    FrzSource,    \* file names present at first
    FrzLate,      \* file names that may appear later
    FrzExcluded,  \* names excluded_bundle_component matches
    FrzBudget,    \* pieces the archive may hold (MAX_BUNDLE_BYTES)
    FrzMaxEdits,  \* bound: steps of the concurrent writer
    FrzMaxRuns    \* bound: freeze commands

\* MAX_BUNDLE_BYTES is a size.
ASSUME FrzAssumption == FrzBudget \in Nat

VARIABLES
    frzTree,      \* name -> the file there
    frzEdits,     \* writer steps so far
    frzWalk,      \* the walk in progress
    frzMiddle,    \* history: the tree between the two walks
    frzBundle,    \* the bundle of a finished freeze
    frzFile,      \* the published file: the bundle it holds, and whether all of it
    frzTaken,     \* bundles a consumer accepted
    frzRuns       \* freeze commands so far

frzVars == <<frzTree, frzEdits, frzWalk, frzMiddle, frzBundle, frzFile, frzTaken, frzRuns>>

FrzPaths == FrzSource \union FrzLate
FrzNoWalk == [at |-> "none"]
FrzNoBundle == {<<"no bundle">>}
FrzNoFile == [bundle |-> FrzNoBundle, whole |-> FALSE]

FrzEntry(kind, data, stamp) == [kind |-> kind, data |-> data, stamp |-> stamp, back |-> FALSE]

FrzInit ==
    /\ frzTree = [p \in FrzPaths |-> IF p \in FrzSource THEN FrzEntry("file", <<0, 0>>, 0)
                                                        ELSE FrzEntry("gone", <<>>, 0)]
    /\ frzEdits = 0
    /\ frzWalk = FrzNoWalk
    /\ frzMiddle = {}
    /\ frzBundle = FrzNoBundle
    /\ frzFile = FrzNoFile
    /\ frzTaken = {}
    /\ frzRuns = 0

-----------------------------------------------------------------------------
(* The writer. It never restores what it replaced, the one thing two       *)
(* observations cannot see: every edit writes a number of its own, and a   *)
(* name that came back stays.                                              *)

FrzFrame == UNCHANGED <<frzWalk, frzMiddle, frzBundle, frzFile, frzTaken, frzRuns>>
FrzEditing == frzEdits < FrzMaxEdits /\ frzEdits' = frzEdits + 1

\* In place and of the same length. A clock coarser than the two writes may
\* leave every timestamp as it was.
FrzEdit(p, i) ==
    /\ FrzEditing
    /\ frzTree[p].kind = "file" /\ i \in 1..Len(frzTree[p].data)
    /\ \E stamp \in {frzTree[p].stamp, frzEdits + 1} :
        frzTree' = [frzTree EXCEPT ![p].data[i] = frzEdits + 1, ![p].stamp = stamp]
    /\ FrzFrame

\* Rewritten at another length, or replaced: always another stamp.
FrzReplace(p) ==
    /\ FrzEditing
    /\ \E kind \in {"file", "link"}, len \in 1..2 :
        /\ frzTree[p].kind = "gone" => kind = "file"
        /\ frzTree[p].kind # "link"
        /\ frzTree' = [frzTree EXCEPT ![p] =
               [kind |-> kind, data |-> [i \in 1..len |-> frzEdits + 1], stamp |-> frzEdits + 1,
                back |-> TRUE]]
    /\ FrzFrame

FrzRemove(p) ==
    /\ FrzEditing
    /\ frzTree[p].kind # "gone" /\ ~frzTree[p].back
    /\ frzTree' = [frzTree EXCEPT ![p].kind = "gone", ![p].stamp = frzEdits + 1]
    /\ FrzFrame

-----------------------------------------------------------------------------
(* The walk *)

FrzStill == UNCHANGED <<frzTree, frzEdits, frzFile, frzTaken>>
FrzNamed == {p \in FrzPaths : frzTree[p].kind # "gone"}

FrzPass(first, files) ==
    [at |-> "next", first |-> first, files |-> {}, seen |-> files,
     left |-> FrzNamed, spent |-> 0,
     path |-> "none", before |-> [len |-> 0, stamp |-> 0], got |-> <<>>]

FrzFreeze ==
    /\ frzWalk.at = "none" /\ frzRuns < FrzMaxRuns
    /\ frzRuns' = frzRuns + 1
    /\ frzWalk' = FrzPass(TRUE, {})
    /\ frzBundle' = FrzNoBundle
    /\ FrzStill /\ UNCHANGED frzMiddle

FrzFails == frzWalk' = FrzNoWalk

\* The next name: credentials are left out, a name that vanished or became
\* a link ends the walk, and so does a file the budget has no room for.
FrzOpen(p) ==
    LET file == frzTree[p]
        spent == frzWalk.spent + Len(file.data) IN
    /\ frzWalk.at = "next" /\ p \in frzWalk.left
    /\ \/ p \in FrzExcluded
          /\ frzWalk' = [frzWalk EXCEPT !.left = @ \ {p}]
       \/ p \notin FrzExcluded
          /\ (file.kind # "file" \/ spent > FrzBudget)
          /\ FrzFails
       \/ p \notin FrzExcluded
          /\ file.kind = "file" /\ spent <= FrzBudget
          /\ frzWalk' = [frzWalk EXCEPT !.at = "read", !.left = @ \ {p}, !.spent = spent,
                 !.path = p, !.got = <<>>,
                 !.before = [len |-> Len(file.data), stamp |-> file.stamp]]
    /\ FrzStill /\ UNCHANGED <<frzMiddle, frzBundle, frzRuns>>

\* read_to_end under a limit of one more than the length first seen.
FrzRead ==
    LET n == Len(frzWalk.got) + 1 IN
    /\ frzWalk.at = "read"
    /\ n <= Len(frzTree[frzWalk.path].data) /\ n <= frzWalk.before.len + 1
    /\ frzWalk' = [frzWalk EXCEPT !.got = Append(@, frzTree[frzWalk.path].data[n])]
    /\ FrzStill /\ UNCHANGED <<frzMiddle, frzBundle, frzRuns>>

\* read_stable: the length announced and the metadata before the read must
\* still be what the descriptor reports after it.
FrzStable ==
    /\ Len(frzWalk.got) = frzWalk.before.len
    /\ frzTree[frzWalk.path].stamp = frzWalk.before.stamp

FrzClose ==
    LET n == Len(frzWalk.got) + 1 IN
    /\ frzWalk.at = "read"
    /\ n > Len(frzTree[frzWalk.path].data) \/ n > frzWalk.before.len + 1
    /\ \/ ~FrzStable /\ FrzFails
       \/ /\ FrzStable
          /\ frzWalk' = [frzWalk EXCEPT !.at = "next",
                 !.files = @ \union {<<frzWalk.path, frzWalk.got>>}]
    /\ FrzStill /\ UNCHANGED <<frzMiddle, frzBundle, frzRuns>>

\* What a walk over a motionless tree would collect.
FrzCapture == {<<p, frzTree[p].data>> : p \in {q \in FrzNamed : q \notin FrzExcluded}}

FrzFirstDone ==
    /\ frzWalk.at = "next" /\ frzWalk.left = {} /\ frzWalk.first
    /\ frzMiddle' = FrzCapture
    /\ frzWalk' = FrzPass(FALSE, frzWalk.files)
    /\ FrzStill /\ UNCHANGED <<frzBundle, frzRuns>>

\* Mutant: the first walk is taken at its word.
FrzAgreeUnseen == TRUE

\* The two observations of the tree are equal.
FrzAgree == frzWalk.seen = frzWalk.files

FrzSecondDone ==
    /\ frzWalk.at = "next" /\ frzWalk.left = {} /\ ~frzWalk.first
    /\ \/ ~FrzAgree /\ FrzFails /\ UNCHANGED frzBundle
       \/ /\ FrzAgree
          /\ frzWalk' = [at |-> "write"]
          /\ frzBundle' = frzWalk.seen
    /\ FrzStill /\ UNCHANGED <<frzMiddle, frzRuns>>

-----------------------------------------------------------------------------
(* Publishing and taking a bundle *)

\* write_new_file creates the name exclusively; an existing file is refused.
FrzPublish ==
    /\ frzWalk.at = "write"
    /\ \/ /\ frzFile # FrzNoFile
          /\ frzWalk' = FrzNoWalk /\ UNCHANGED frzFile
       \/ /\ frzFile = FrzNoFile
          /\ frzWalk' = [at |-> "sync"]
          /\ frzFile' = [bundle |-> frzBundle, whole |-> FALSE]
    /\ UNCHANGED <<frzTree, frzEdits, frzMiddle, frzBundle, frzTaken, frzRuns>>

\* The bytes are all there and synced, or the write fails and stays short.
FrzPublished ==
    /\ frzWalk.at = "sync"
    /\ frzWalk' = FrzNoWalk
    /\ \E whole \in BOOLEAN : frzFile' = [frzFile EXCEPT !.whole = whole]
    /\ UNCHANGED <<frzTree, frzEdits, frzMiddle, frzBundle, frzTaken, frzRuns>>

\* FrozenBundle::decode: the size and the digest the consumer was given must
\* match the bytes before one file of the archive is looked at.
FrzDecodes(digest) == frzFile.whole /\ frzFile.bundle = digest

FrzTake(digest) ==
    /\ frzFile # FrzNoFile /\ digest # FrzNoBundle
    /\ FrzDecodes(digest)
    /\ frzTaken' = frzTaken \union {frzFile.bundle}
    /\ UNCHANGED <<frzTree, frzEdits, frzWalk, frzMiddle, frzBundle, frzFile, frzRuns>>

FrzWriter ==
    \E p \in FrzPaths : (\E i \in 1..2 : FrzEdit(p, i)) \/ FrzReplace(p) \/ FrzRemove(p)

FrzNext ==
    \/ FrzWriter
    \/ FrzFreeze \/ \E p \in FrzPaths : FrzOpen(p)
    \/ FrzRead \/ FrzClose \/ FrzFirstDone \/ FrzSecondDone
    \/ FrzPublish \/ FrzPublished \/ FrzTake(frzBundle)

(***************************************************************************)
(* A frozen bundle is the source tree as it stood at one moment, however a *)
(* writer that restores nothing interleaves with the two walks and however *)
(* coarse its timestamps are (freeze_directory_excluding), never holds an  *)
(* excluded name, and what a consumer accepts under its digest is all of   *)
(* it, not a file whose write was cut short (write_new_file, decode).      *)
(***************************************************************************)
FrzSnapshot ==
    /\ frzBundle # FrzNoBundle => frzBundle = frzMiddle /\ Cardinality(frzBundle) <= FrzBudget
    /\ \A b \in frzTaken : \A f \in b : f[1] \notin FrzExcluded
    /\ \A b \in frzTaken : frzFile.whole /\ frzFile.bundle = b
=============================================================================
