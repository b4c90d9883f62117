------------------------------ MODULE OciImport -----------------------------
(***************************************************************************)
(* An OCI image becomes a root file system (husker-oci, husker-core/src/    *)
(* oci_materializer.rs): manifest and token, the arch-specific manifest, a  *)
(* budgeted and verified download of each layer into a spool file, the      *)
(* overlay of the layers' entries, the injection of the guest agent, and    *)
(* the ext4 build.  The registry is free to answer with anything.           *)
(***************************************************************************)
EXTENDS Integers, Sequences, FiniteSets

CONSTANTS
  OciLayers,      \* the layers a registry may list: sequences of entries
  OciMaxLayers,   \* bound on an image's layers
  OciDownload,    \* ImportLimits.max_download_bytes, in blobs of size 1
  OciUnpacked     \* ImportLimits.max_unpacked_bytes, in entries

ASSUME OciAssumption ==
  /\ OciLayers \subseteq Seq([kind : {"file", "whiteout", "opaque", "unsafe"},
                              path : Seq(STRING), content : STRING])
  /\ OciDownload \in Nat /\ OciUnpacked \in Nat

VARIABLES
  ociStep,      \* where the import is
  ociImage,     \* the manifest: its layers and the size it declares
  ociAuth,      \* "none" or "token": how the manifest was obtained
  ociCharged,   \* bytes received so far
  ociSpool,     \* layers whose spool file exists
  ociOpened,    \* layers opened (and unlinked) for extraction
  ociUnpacked,  \* archive bytes unpacked so far
  ociAt,        \* the next entry: layer and position
  ociTree,      \* the rootfs directory: path -> content
  ociDest       \* the catalog file: "absent", "partial" or "built"

ociVars == <<ociStep, ociImage, ociAuth, ociCharged, ociSpool, ociOpened,
             ociUnpacked, ociAt, ociTree, ociDest>>

\* Paths are sequences of names; a tree maps the paths that exist.
OciEmpty == [p \in {} |-> "none"]
OciNoImage == [layers |-> <<>>, declared |-> 0, corrupt |-> 0]

OciInit ==
  /\ ociStep = "manifest" /\ ociImage = OciNoImage /\ ociAuth = "none"
  /\ ociCharged = 0 /\ ociSpool = {} /\ ociOpened = {} /\ ociUnpacked = 0
  /\ ociAt = [layer |-> 1, entry |-> 1] /\ ociTree = OciEmpty /\ ociDest = "absent"

OciFail(step) == ociStep' = step
OciPullState == <<ociImage, ociAuth, ociCharged, ociSpool>>
OciFlatState == <<ociOpened, ociUnpacked, ociAt, ociTree>>

\* get_manifest without a token first; a 401 is retried once with one.
OciChallenged ==
  /\ ociStep = "manifest" /\ ociAuth = "none"
  /\ ociAuth' = "token"
  /\ UNCHANGED <<ociStep, ociImage, ociCharged, ociSpool, OciFlatState, ociDest>>

\* Any other answer that is not a manifest (or not one for this architecture,
\* or too large, or malformed) ends the pull.
OciNoManifest ==
  /\ ociStep = "manifest" /\ OciFail("failed")
  /\ UNCHANGED <<OciPullState, OciFlatState, ociDest>>

\* The manifest, directly or through an index.  Its declared size is a claim
\* that is checked before anything is fetched; corrupt is the layer whose
\* bytes will not match its digest (0: none).
OciManifest(layers, declared, corrupt) ==
  /\ ociStep = "manifest"
  /\ ociImage' = [layers |-> layers, declared |-> declared, corrupt |-> corrupt]
  /\ ociStep' = IF declared > OciDownload THEN "failed" ELSE "config"
  /\ UNCHANGED <<ociAuth, ociCharged, ociSpool, OciFlatState, ociDest>>

\* The image's configuration is the first blob charged to the budget; it must
\* match its digest and parse.
OciConfig(size, good) ==
  /\ ociStep = "config"
  /\ ociCharged' = ociCharged + size
  /\ ociStep' = IF ociCharged + size > OciDownload \/ ~good THEN "failed" ELSE "pulling"
  /\ UNCHANGED <<ociImage, ociAuth, ociSpool, OciFlatState, ociDest>>

OciCount == Len(ociImage.layers)
OciNextLayer == Cardinality(ociSpool) + 1

\* spool_blob: the path is recorded, then the body charged, hashed and
\* written; any failure removes every spool file of the pull.
OciDownloadLayer(size) ==
  /\ ociStep = "pulling" /\ OciNextLayer <= OciCount
  /\ ociCharged' = ociCharged + size
  /\ IF ociCharged + size > OciDownload \/ ociImage.corrupt = OciNextLayer
     THEN ociStep' = "failed" /\ ociSpool' = {}
     ELSE ociStep' = ociStep /\ ociSpool' = ociSpool \union {OciNextLayer}
  /\ UNCHANGED <<ociImage, ociAuth, OciFlatState, ociDest>>

\* pull_and_flatten opens and unlinks every spooled layer before the first is
\* applied.
OciOpen ==
  /\ ociStep = "pulling" /\ OciNextLayer > OciCount
  /\ ociStep' = "flattening"
  /\ ociOpened' = ociSpool /\ ociSpool' = {}
  /\ UNCHANGED <<ociImage, ociAuth, ociCharged, ociUnpacked, ociAt, ociTree, ociDest>>

(***************************************************************************)
(* unpack_entries: entries in archive order over one directory.             *)
(***************************************************************************)

OciUnder(p, d) == Len(p) > Len(d) /\ SubSeq(p, 1, Len(d)) = d
OciWithout(tree, gone) == [p \in {q \in DOMAIN tree : q \notin gone} |-> tree[p]]
OciWith(tree, p, c) == [q \in (DOMAIN tree) \union {p} |-> IF q = p THEN c ELSE tree[q]]
OciPrefixes(p) == {SubSeq(p, 1, k) : k \in 1..Len(p)}

\* Mutant: a whiteout removes the name and keeps what is below it.
OciRemovedShallow(tree, p) == OciWithout(tree, {p})

\* remove_path recurses into a real directory.
OciRemoved(tree, p) == OciWithout(tree, {q \in DOMAIN tree : q = p \/ OciUnder(q, p)})
OciCleared(tree, d) == OciWithout(tree, {q \in DOMAIN tree : OciUnder(q, d)})

\* A file with the directories above it.
OciPlaced(tree, p, c) ==
  [q \in (DOMAIN tree) \union OciPrefixes(p) |->
     IF q = p THEN c ELSE IF q \in OciPrefixes(p) THEN "dir" ELSE tree[q]]

\* tar overwrites a file by a file; it removes no directory for one, and makes
\* none below a file.
OciBlocked(tree, e) ==
  /\ e.kind = "file"
  /\ \E q \in (DOMAIN tree) \intersect OciPrefixes(e.path) : (q = e.path) <=> (tree[q] = "dir")

\* classify_entry; tar creates the directories above a file.
OciApplied(tree, e) ==
  CASE e.kind = "file" -> OciPlaced(tree, e.path, e.content)
    [] e.kind = "whiteout" -> OciRemoved(tree, e.path)
    [] e.kind = "opaque" -> OciCleared(tree, e.path)
    [] OTHER -> tree

OciEntry == ociImage.layers[ociAt.layer][ociAt.entry]

\* An unsafe path or one that leaves the rootfs, an entry tar cannot place, an
\* unknown codec, and more unpacked bytes than the limit end the extraction.
OciUnpack ==
  /\ ociStep = "flattening" /\ ociAt.layer <= OciCount
  /\ IF ociAt.entry > Len(ociImage.layers[ociAt.layer])
     THEN /\ ociAt' = [layer |-> ociAt.layer + 1, entry |-> 1]
          /\ UNCHANGED <<ociStep, ociUnpacked, ociTree>>
     ELSE /\ ociUnpacked' = ociUnpacked + 1
          /\ IF \/ ociUnpacked + 1 > OciUnpacked
                \/ OciEntry.kind = "unsafe" \/ OciBlocked(ociTree, OciEntry)
             THEN ociStep' = "failed" /\ UNCHANGED <<ociAt, ociTree>>
             ELSE /\ ociAt' = [ociAt EXCEPT !.entry = @ + 1]
                  /\ ociTree' = OciApplied(ociTree, OciEntry)
                  /\ ociStep' = ociStep
  /\ UNCHANGED <<ociImage, ociAuth, ociCharged, ociSpool, ociOpened, ociDest>>

\* inject_guest_runtime and the size check, then mkfs over the tree.
OciBuild ==
  /\ ociStep = "flattening" /\ ociAt.layer > OciCount
  /\ ociTree' = OciWith(OciWith(OciWith(ociTree, <<"usr">>, "dir"),
                                <<"usr", "agent">>, "agent"),
                        <<"init">>, "agent")
  /\ ociStep' = "building" /\ ociDest' = "partial"
  /\ UNCHANGED <<OciPullState, ociOpened, ociUnpacked, ociAt>>

OciBuilt(ok) ==
  /\ ociStep = "building"
  /\ ociStep' = IF ok THEN "imported" ELSE "failed"
  /\ ociDest' = IF ok THEN "built" ELSE "absent"
  /\ UNCHANGED <<OciPullState, OciFlatState>>

OciImages == UNION {[1..n -> OciLayers] : n \in 1..OciMaxLayers}

OciNext ==
  \/ OciChallenged \/ OciNoManifest
  \/ \E ls \in OciImages, d \in {1, OciDownload + 1} :
       \E c \in 0..Len(ls) : OciManifest(ls, d, c)
  \/ \E size \in {1, OciDownload} :
       OciDownloadLayer(size) \/ \E good \in BOOLEAN : OciConfig(size, good)
  \/ OciOpen \/ OciUnpack \/ OciBuild
  \/ \E ok \in BOOLEAN : OciBuilt(ok)

(***************************************************************************)
(* The overlay, from its definition: a layer hides from the ones below it   *)
(* what it whites out or makes opaque, and adds its own files.              *)
(***************************************************************************)

OciEntries(layer) == {layer[i] : i \in DOMAIN layer}
OciAdds(layer, p) == {e \in OciEntries(layer) : e.kind = "file" /\
                        (e.path = p \/ OciUnder(e.path, p))}
OciHides(layer, p) == \E e \in OciEntries(layer) :
  \/ e.kind = "whiteout" /\ (p = e.path \/ OciUnder(p, e.path))
  \/ e.kind = "opaque" /\ OciUnder(p, e.path)

OciPaths(layers) ==
  UNION {UNION {OciPrefixes(e.path) : e \in OciEntries(layers[i])} : i \in DOMAIN layers}

OciVisible(layers, p) ==
  \E i \in DOMAIN layers :
    OciAdds(layers[i], p) # {} /\ \A j \in DOMAIN layers : j > i => ~OciHides(layers[j], p)

\* Entry k of layer i is the last one that makes the path: no later layer, and
\* no later entry of its own, does.
OciLast(layers, p, i, k) ==
  /\ layers[i][k] \in OciAdds(layers[i], p)
  /\ \A j \in DOMAIN layers : \A h \in DOMAIN layers[j] :
       j > i \/ (j = i /\ h > k) => layers[j][h] \notin OciAdds(layers[j], p)

\* What an entry makes of a path: its file, or a directory above it.
OciMakes(e, p) == IF e.path = p THEN e.content ELSE "dir"

\* No marker of the layer comes after a file of its own that it would hide.
OciMarkersFirst(layer) ==
  \A i, j \in DOMAIN layer : i < j /\ layer[i].kind = "file"
                             => ~OciHides(<<layer[j]>>, layer[i].path)

\* An import that reports success built the overlay of the layers the manifest
\* lists (markers before files, as archivers write them) plus the guest agent,
\* with the contents of the uppermost layer that has a path, out of bytes that
\* match their digests and stay within the limits; whatever way it ends, it
\* leaves no spool file, and a file at the catalog path only if it succeeded.
OciFaithful ==
  /\ ociStep = "imported" =>
       /\ ociImage.corrupt = 0
       /\ (\A i \in DOMAIN ociImage.layers : OciMarkersFirst(ociImage.layers[i])) =>
            DOMAIN ociTree = {p \in OciPaths(ociImage.layers) : OciVisible(ociImage.layers, p)}
                             \union {<<"usr">>, <<"usr", "agent">>, <<"init">>}
       /\ \A p \in (DOMAIN ociTree) \ {<<"usr">>, <<"usr", "agent">>, <<"init">>} :
            \A i \in DOMAIN ociImage.layers : \A k \in DOMAIN ociImage.layers[i] :
              OciLast(ociImage.layers, p, i, k) => ociTree[p] = OciMakes(ociImage.layers[i][k], p)
       /\ ociTree[<<"init">>] = "agent" /\ ociTree[<<"usr", "agent">>] = "agent"
  /\ ociStep \in {"imported", "failed"} =>
       ociSpool = {} /\ (ociDest = "built" <=> ociStep = "imported")
                     /\ ociDest # "partial"
  /\ ociStep # "failed" => ociCharged <= OciDownload /\ ociUnpacked <= OciUnpacked
=============================================================================
