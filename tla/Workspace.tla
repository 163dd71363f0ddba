------------------------------ MODULE Workspace ------------------------------
(***************************************************************************)
(* ManagedSessionWorkspace: which files of the source project a session's   *)
(* copy takes, and which it refuses.  The project is the person's and may   *)
(* change between any two looks at it, so a look is drawn anew each time: a *)
(* listing is a set of entries, and a file is what reading it once finds.   *)
(* plan() fixes the paths and their digests, which the preview shows, and  *)
(* prepare() looks again.                                                   *)
(***************************************************************************)
EXTENDS FiniteSets, Sequences, Naturals

CONSTANTS
  Manifest,   \* the planned paths in their order
  Entries     \* bound: what a listing of the source may hold

ASSUME WorkspaceAssumption ==
  /\ Len(Manifest) \in Nat \ {0}
  /\ \A e \in Entries : DOMAIN e = {"path", "name", "kind", "ignored"}

\* Paths that differ in the case of their letters only are one.
PathsOf(entries) == {e.path : e \in entries}

\* validateRelativePath: nothing unusual, and nothing outside the project.
Usual(e) == e.name # "unusual"

\* Guardian's own state: Git listings leave it out, a manifest may not name it.
Protected(e) == e.name = "protected"

\* listGitVisiblePaths: what Git ignores is not seen.
GitVisible(seen) == {e \in seen : ~e.ignored /\ ~Protected(e)}
GitListing(seen) ==
  IF \A e \in GitVisible(seen) : Usual(e) THEN GitVisible(seen) ELSE {}

\* listImmutableSourcePaths: every file counts, and anything else refuses all.
ImmutableListing(seen) ==
  IF \A e \in seen : Usual(e) /\ e.kind = "file" /\ ~Protected(e) THEN seen ELSE {}

\* The paths are the planned ones, none missing and none new.
PathsAsPlanned(seen, immutable) ==
  LET listed == IF immutable THEN ImmutableListing(seen) ELSE GitListing(seen)
  IN /\ Cardinality(listed) = Len(Manifest)
     /\ PathsOf(listed) = {Manifest[i] : i \in 1..Len(Manifest)}

Looks == SUBSET Entries
Verdicts == [immutable \in BOOLEAN |-> {PathsAsPlanned(seen, immutable) : seen \in Looks}]

\* A file as one reading of it finds it.
Readings ==
  [path : {"plain", "secret"},           \* its name
   ancestors : {"directories", "link"},
   kind : {"file", "link", "none"},
   inside : BOOLEAN,                     \* resolves below the source root
   size : {"planned", "other", "large"},
   steady : BOOLEAN,                     \* the same file when it was opened
   content : {"planned", "other", "credential"}]

\* hasSecretBearingPath
SecretBearing(f) == f.path = "secret"

\* assertNoSymlinkAncestor
Reachable(f) == f.ancestors = "directories"

\* shouldInspectCredentialContent and containsHighConfidenceCredential
Clean(f) == f.content # "credential"

\* readManifestEntry: content and digest are of one buffer, read once.
ReadEntry(f) ==
  IF /\ ~SecretBearing(f) /\ Reachable(f) /\ f.kind = "file" /\ f.size # "large"
     /\ f.inside /\ f.steady /\ Clean(f)
  THEN IF f.size = "planned" THEN f.content ELSE "other"
  ELSE "refused"

Found == {ReadEntry(f) : f \in Readings}

\* The files of the copy, as prepare wrote them.
NoCopy == [i \in 1..Len(Manifest) |-> "none"]
CopyComplete(copy) == \A i \in 1..Len(Manifest) : copy[i] = "planned"
=============================================================================
