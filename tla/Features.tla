------------------------------ MODULE Features ------------------------------
(***************************************************************************)
(* Devcontainer features (pkg/devcontainers/features): which source a      *)
(* feature's ID names, how the feature is fetched and unpacked, in which   *)
(* order features are installed and which option values they get.          *)
(*                                                                         *)
(* Catalog describes every feature ID in use:                              *)
(*   kind     "oci", "local" or "http"                                     *)
(*   base     the ID without its tag or digest                             *)
(*   rank     its place in the order of the IDs                            *)
(*   remote   for an OCI feature what its registry answers: anonymous and  *)
(*            authorized are HTTP statuses, challenge says whether a 401   *)
(*            names a realm, granted whether the realm gives a token, and  *)
(*            layers are [digest, blob, entries]                           *)
(*   entries  for a local feature the entries of its directory             *)
(* An entry is [path, type, up, content]; up is the number of levels its   *)
(* cleaned path leaves the root by.  The content of a feature's            *)
(* devcontainer-feature.json is [after, options], options a function from  *)
(* keys to [type, default, enum].                                          *)
(***************************************************************************)
EXTENDS Naturals, Sequences, FiniteSets, SequencesExt, TLC

CONSTANTS
  Catalog,     \* feature ID -> description
  NormKey,     \* option key -> normalized name
  NoDefault    \* an option without a default

ASSUME CatalogAssumption == \A id \in DOMAIN Catalog : Catalog[id].rank \in Nat

MetadataFile == "devcontainer-feature.json"

featureBaseID(id) == Catalog[id].base

\* FromMap: direct HTTP(S) sources are refused.
FromMapFails(ids) == \E id \in ids : Catalog[id].kind = "http"

-----------------------------------------------------------------------------
(* Fetching.  A tree is a function from paths to contents.                 *)

\* An anonymous request first; one more with the bearer token if the registry
\* answers 401.
fetchBearerTokenFails(remote) == ~remote.challenge \/ ~remote.granted

fetchManifestFails(remote) ==
  IF remote.anonymous = 401
  THEN fetchBearerTokenFails(remote) \/ remote.authorized # 200
  ELSE remote.anonymous # 200

\* The digest is checked before anything of the blob is unpacked.
LayerFails(layer) == layer.algorithm # "sha256" \/ layer.blob # layer.digest

safeTarTargetFails(entry) == entry.up > 0

EntryFails(entry) == safeTarTargetFails(entry) \/ entry.type = "link"

Unpack(tree, entries) ==
  FoldLeft(LAMBDA t, e : IF e.type = "file" THEN (e.path :> e.content) @@ t ELSE t,
           tree, entries)

\* The tree the layers leave, a later layer over an earlier one.
extractTarEntries(layers) ==
  FoldLeft(LAMBDA t, l : Unpack(t, l.entries), <<>>, layers)

OCIFails(remote) ==
  \/ fetchManifestFails(remote)
  \/ \E i \in DOMAIN remote.layers :
       \/ LayerFails(remote.layers[i])
       \/ \E e \in ToSet(remote.layers[i].entries) : EntryFails(e)

\* A local feature is copied; links and other non-regular files are refused.
copyDirFails(entries) == \E e \in ToSet(entries) : e.type \notin {"dir", "file"}

copyDir(entries) == Unpack(<<>>, entries)

Tree(id) ==
  IF Catalog[id].kind = "local" THEN copyDir(Catalog[id].entries)
  ELSE extractTarEntries(Catalog[id].remote.layers)

\* A feature without its metadata file is refused.
parseMetadataFails(tree) == MetadataFile \notin DOMAIN tree

DownloadFails(id) ==
  \/ IF Catalog[id].kind = "local" THEN copyDirFails(Catalog[id].entries)
     ELSE OCIFails(Catalog[id].remote)
  \/ parseMetadataFails(Tree(id))

parseMetadata(id) == Tree(id)[MetadataFile]

-----------------------------------------------------------------------------
(* Options.                                                                *)

\* Spellings of a boolean, in lower case.
Lower == [true |-> "true", True |-> "true", false |-> "false", False |-> "false"]

\* A value is [type, val]: its type in the JSON document and its text.
validateOptionValue(spec, v) ==
  CASE spec.type = "boolean" -> v.val \in DOMAIN Lower
    [] spec.type \in {"string", ""} ->
         v.type = "string" /\ (spec.enum # {} => v.val \in spec.enum)
    [] OTHER -> FALSE

optionValue(spec, v) == IF spec.type = "boolean" THEN Lower[v.val] ELSE v.val

MergeOptionsFails(specs, user) ==
  \/ \E k \in DOMAIN specs :
       specs[k].default # NoDefault /\ ~validateOptionValue(specs[k], specs[k].default)
  \/ \E k \in DOMAIN user : k \notin DOMAIN specs \/ ~validateOptionValue(specs[k], user[k])

\* Keys that normalize to the same name are applied in the order the maps are
\* iterated, which is any: the set of the possible results.
MergeOptions(specs, user) ==
  LET given(n) == {optionValue(specs[k], user[k]) : k \in {x \in DOMAIN user : NormKey[x] = n}}
      default(n) == {optionValue(specs[k], specs[k].default) :
                       k \in {x \in DOMAIN specs : NormKey[x] = n /\ specs[x].default # NoDefault}}
      values(n) == IF given(n) # {} THEN given(n) ELSE default(n)
      names == {n \in {NormKey[k] : k \in DOMAIN specs} : values(n) # {}}
  IN {r \in [names -> UNION {values(n) : n \in names}] : \A n \in names : r[n] \in values(n)}

-----------------------------------------------------------------------------
(* The order of installation: Kahn's algorithm over a sorted queue.        *)

SharedBase(ids) == \E a, b \in ids : a # b /\ featureBaseID(a) = featureBaseID(b)

\* Mutant: dependencies are looked up by ID, tag included.
Before_byID(ids, meta, id) == ids \cap meta[id].after

\* The features of ids that have to come before id; unknown ones are ignored.
\* installsAfter never carries a version.
Before(ids, meta, id) == {d \in ids : featureBaseID(d) \in meta[id].after}

\* Those whose predecessors are all placed, in no order: the queue.
Ready(ids, meta, placed) ==
  {i \in ids \ ToSet(placed) : Before(ids, meta, i) \subseteq ToSet(placed)}

\* The head of the sorted queue.
First(queue) == CHOOSE i \in queue : \A j \in queue : Catalog[i].rank <= Catalog[j].rank

Place(ids, meta, placed) ==
  LET queue == Ready(ids, meta, placed)
  IN IF queue = {} THEN placed ELSE Append(placed, First(queue))

\* The features the algorithm places: the head of the queue, until it is empty.
Ordered(ids, meta) ==
  FoldLeft(LAMBDA placed, n : Place(ids, meta, placed), <<>>, [n \in 1..Cardinality(ids) |-> n])

OrderFails(ids, meta) == SharedBase(ids) \/ Len(Ordered(ids, meta)) # Cardinality(ids)
=============================================================================
