--------------------------- MODULE DirectorySource ---------------------------
(***************************************************************************)
(* OpenDirectory (internal/source/source.go), with the links of a Hugging  *)
(* Face snapshot (snapshot.go) and bundle.Verify (internal/bundle/         *)
(* verify.go), on a directory somebody changes meanwhile; and the Bundle   *)
(* it returns, with concurrent readers and Close.                          *)
(*                                                                         *)
(* The directory is flat. An entry has an identity, which stands for what  *)
(* sameFileIdentity compares (mode, size, modification time, inode); every *)
(* change gives a new one. The directory's own identity changes when an    *)
(* entry is made, removed or replaced. Any step may fail (I/O, an ended    *)
(* context): a check that does not pass leaves only Fail.                  *)
(***************************************************************************)
EXTENDS Naturals, FiniteSets

CONSTANTS Names,        \* names an entry may have, ManifestName among them
          ManifestName, \* manifest.json
          Blobs,        \* names in the blobs directory of the snapshot
          Contents,     \* what a file may contain
          Declares,     \* for each content that is a manifest: name -> content
          Readers,      \* goroutines that call ReadFile
          MaxChanges    \* bound: changes of the directory

ASSUME DirectoryAssumption ==
  /\ ManifestName \in Names
  /\ DOMAIN Declares \subseteq Contents
  /\ \A m \in DOMAIN Declares :
       /\ DOMAIN Declares[m] \subseteq Names \ {ManifestName}
       /\ DOMAIN Declares[m] # {}
       /\ \A n \in DOMAIN Declares[m] : Declares[m][n] \in Contents
  /\ "none" \notin Blobs
  /\ MaxChanges \in Nat

VARIABLES
  (* The file system.                                                      *)
  dir,        \* name -> [kind, id, content, blob]
  dirID,      \* identity of the directory itself
  blobs,      \* blob -> [id, content]
  changes,    \* how many changes there were; identities are numbered so
  (* The call of OpenDirectory.                                            *)
  phase,
  before,     \* snapshotEntries: name -> identity
  beforeDir,  \* ... and that of "."
  links,      \* name -> [blob, id], of the classified links; id 0: not yet
  manifest,   \* what was read from manifest.json
  todo,       \* names this phase has yet to look at
  half,       \* links whose target was looked at, but not their blob
  reading,    \* the open file: [name, blob, id]
  roots,      \* the open directory handles
  existed,    \* history: the whole bundle was there when Verify ended
  (* The Bundle.                                                           *)
  closed, readers

fileVars == <<dir, dirID, blobs, changes>>
openVars == <<before, beforeDir, links, manifest, todo, half, reading, roots, existed>>
bundleVars == <<closed, readers>>
vars == <<fileVars, phase, openVars, bundleVars>>

NoFile == [kind |-> "none", id |-> 0, content |-> "none", blob |-> "none"]
NotReading == [name |-> "none", blob |-> "none", id |-> 0]

Opening == {"before", "beforeInfo", "links", "classify", "manifest", "list",
            "files", "stable", "after", "afterInfo"}

Present == {n \in Names : dir[n].kind # "none"}

(* What a reader of an entry gets, wherever it is.                         *)
ContentOf(n) ==
  IF dir[n].kind = "link" THEN blobs[dir[n].blob].content ELSE dir[n].content

Entries(i) ==
  [kind : {"file"}, id : {i}, content : Contents, blob : {"none"}]
    \union [kind : {"link"}, id : {i}, content : {"none"}, blob : Blobs]

Init ==
  /\ dir \in [Names -> Entries(1) \union {NoFile}]
  /\ blobs \in [Blobs -> [id : {1}, content : Contents]]
  /\ dirID = 1
  /\ changes = 1
  /\ phase = "start"
  /\ before = << >> /\ beforeDir = 0
  /\ links = << >>
  /\ manifest = "none"
  /\ todo = {} /\ half = {}
  /\ reading = NotReading
  /\ roots = {}
  /\ existed = FALSE
  /\ closed = FALSE /\ readers = {}
-----------------------------------------------------------------------------
(***************************************************************************)
(* Somebody else changes the files, until the Bundle is returned: from     *)
(* then on the caller keeps them as they are.                              *)
(***************************************************************************)
AChange ==
  /\ phase \in Opening
  /\ changes <= MaxChanges
  /\ changes' = changes + 1
  /\ UNCHANGED <<phase, openVars, bundleVars>>

ChangeEntry ==
  /\ AChange
  /\ \E n \in Names :
       \/ \E e \in Entries(changes') \union {NoFile} :
            /\ e.kind # "none" \/ dir[n].kind # "none"
            /\ dir' = [dir EXCEPT ![n] = e]
            /\ dirID' = changes'
       \/ \E c \in Contents :    \* written in place
            /\ dir[n].kind = "file"
            /\ dir' = [dir EXCEPT ![n].content = c, ![n].id = changes']
            /\ UNCHANGED dirID
  /\ UNCHANGED blobs

ChangeBlob ==
  /\ AChange
  /\ \E b \in Blobs, c \in Contents : blobs' = [blobs EXCEPT ![b] = [id |-> changes', content |-> c]]
  /\ UNCHANGED <<dir, dirID>>
-----------------------------------------------------------------------------
(***************************************************************************)
(* openDirectory.                                                          *)
(***************************************************************************)
OpenRoot ==
  /\ phase = "start"
  /\ phase' = "before"
  /\ roots' = {"directory"}
  /\ UNCHANGED <<fileVars, before, beforeDir, links, manifest, todo, half, reading,
                 existed, bundleVars>>

Fail_KeepsBlobs ==
  /\ phase \in Opening \union {"start"}
  /\ phase' = "failed"
  /\ roots' = roots \ {"directory"}
  /\ UNCHANGED <<fileVars, before, beforeDir, links, manifest, todo, half, reading,
                 existed, bundleVars>>

(* closeRoots closes every root there is.                                  *)
Fail ==
  /\ phase \in Opening \union {"start"}
  /\ phase' = "failed"
  /\ roots' = {}
  /\ UNCHANGED <<fileVars, before, beforeDir, links, manifest, todo, half, reading,
                 existed, bundleVars>>

Enter(from, to) == phase = from /\ phase' = to

(* The phase goes on while there is more to look at.                       *)
Unless(more, next) == phase' = IF more = {} THEN next ELSE phase

identity(n) == <<dir[n].kind, dir[n].id>>

(* snapshotEntries: the directory and its listing ...                      *)
ListBefore ==
  /\ Enter("before", "beforeInfo")
  /\ Present # {}
  /\ beforeDir' = dirID
  /\ todo' = Present
  /\ UNCHANGED <<fileVars, before, links, manifest, half, reading, roots, existed, bundleVars>>

(* ... and each entry, if it is still there.                               *)
InfoBefore(n) ==
  /\ phase = "beforeInfo" /\ n \in todo
  /\ dir[n].kind # "none"
  /\ before' = [m \in DOMAIN before \union {n} |-> IF m = n THEN identity(n) ELSE before[m]]
  /\ todo' = todo \ {n}
  /\ Unless(todo', "links")
  /\ UNCHANGED <<fileVars, beforeDir, links, manifest, half, reading, roots, existed, bundleVars>>

(* findLinks, and for a snapshot the root of its blobs.                    *)
FindLinks ==
  LET found == {n \in Names : dir[n].kind = "link"} IN
  /\ Enter("links", IF found = {} THEN "manifest" ELSE "classify")
  /\ todo' = found
  /\ roots' = IF found = {} THEN roots ELSE roots \union {"blobs"}
  /\ UNCHANGED <<fileVars, before, beforeDir, links, manifest, half, reading, existed, bundleVars>>

(* classifyLink: the target, which has to name a blob, ...                 *)
ClassifyTarget(n) ==
  /\ phase = "classify" /\ n \in todo
  /\ dir[n].kind = "link"
  /\ links' = [m \in DOMAIN links \union {n} |->
                 IF m = n THEN [blob |-> dir[n].blob, id |-> 0] ELSE links[m]]
  /\ todo' = todo \ {n}
  /\ half' = half \union {n}
  /\ UNCHANGED <<fileVars, phase, before, beforeDir, manifest, reading, roots, existed, bundleVars>>

(* ... and the blob.                                                       *)
ClassifyBlob(n) ==
  /\ phase = "classify" /\ n \in half
  /\ links' = [links EXCEPT ![n].id = blobs[links[n].blob].id]
  /\ half' = half \ {n}
  /\ Unless(todo \union half', "manifest")
  /\ UNCHANGED <<fileVars, before, beforeDir, manifest, todo, reading, roots, existed, bundleVars>>
-----------------------------------------------------------------------------
(***************************************************************************)
(* bundle.Verify, through the root or the snapshotFS.                      *)
(***************************************************************************)

(* currentLink: a classified link with its target and blob as they were.   *)
currentLink(n) ==
  /\ n \in DOMAIN links
  /\ dir[n].blob = links[n].blob
  /\ blobs[links[n].blob].id = links[n].id

(* An unclassified link leads out of the root, which refuses it.           *)
Readable(n) == dir[n].kind = "file" \/ (dir[n].kind = "link" /\ currentLink(n))

OpenFile(n) ==
  /\ reading = NotReading
  /\ Readable(n)
  /\ reading' = IF dir[n].kind = "file"
                THEN [name |-> n, blob |-> "none", id |-> dir[n].id]
                ELSE [name |-> n, blob |-> links[n].blob, id |-> links[n].id]
  /\ UNCHANGED <<fileVars, phase, before, beforeDir, links, manifest, todo, half, roots,
                 existed, bundleVars>>

(* A file that has not changed since it was checked is read as it is; one  *)
(* that has may give any mixture of the old and the new.                   *)
Read ==
  LET now == IF reading.blob = "none" THEN dir[reading.name] ELSE blobs[reading.blob]
  IN IF now.id = reading.id THEN {now.content} ELSE Contents

OpenManifest == phase = "manifest" /\ OpenFile(ManifestName)

(* readManifest and Parse.                                                 *)
ReadManifest ==
  /\ reading # NotReading
  /\ Enter("manifest", "list")
  /\ manifest' \in Read \intersect DOMAIN Declares
  /\ reading' = NotReading
  /\ UNCHANGED <<fileVars, before, beforeDir, links, todo, half, roots, existed, bundleVars>>

(* The walk of verifyFiles: what is declared is there, and nothing else.   *)
(* The links listed are looked at one by one, so that each may change      *)
(* before the others are looked at: all this look decides is whether the   *)
(* open fails (Fail), for each is looked at again when it is opened.       *)
ListFiles ==
  /\ Enter("list", "files")
  /\ Present \ {ManifestName} = DOMAIN Declares[manifest]
  /\ todo' = Present \ {ManifestName}
  /\ UNCHANGED <<fileVars, before, beforeDir, links, manifest, half, reading, roots, existed, bundleVars>>

OpenArtifact(n) == phase = "files" /\ n \in todo /\ OpenFile(n)

(* verifyFile: size and digest; after the last one, the links are next.    *)
VerifyFile ==
  LET n == reading.name
      rest == todo \ {n}
      last == rest = {}
  IN
  /\ phase = "files" /\ reading # NotReading
  /\ Declares[manifest][n] \in Read
  /\ reading' = NotReading
  /\ todo' = IF last THEN DOMAIN links ELSE rest
  /\ phase' = IF ~last THEN "files" ELSE IF links = << >> THEN "after" ELSE "stable"
  /\ existed' =
       (/\ last
        /\ Present = {ManifestName} \union DOMAIN Declares[manifest]
        /\ ContentOf(ManifestName) = manifest
        /\ \A m \in DOMAIN Declares[manifest] : ContentOf(m) = Declares[manifest][m])
  /\ UNCHANGED <<fileVars, before, beforeDir, links, manifest, half, roots, bundleVars>>
-----------------------------------------------------------------------------
(***************************************************************************)
(* The second look, and the result.                                        *)
(***************************************************************************)

(* verifyStable: the target of every link, and then its blob.              *)
StableTarget(n) ==
  /\ phase = "stable" /\ n \in todo
  /\ dir[n].kind = "link" /\ dir[n].blob = links[n].blob
  /\ todo' = todo \ {n}
  /\ half' = half \union {n}
  /\ UNCHANGED <<fileVars, phase, before, beforeDir, links, manifest, reading, roots,
                 existed, bundleVars>>

blobIsStable(n) == blobs[links[n].blob].id = links[n].id

StableBlob(n) ==
  /\ phase = "stable" /\ n \in half
  /\ blobIsStable(n)
  /\ half' = half \ {n}
  /\ Unless(todo \union half', "after")
  /\ UNCHANGED <<fileVars, before, beforeDir, links, manifest, todo, reading, roots,
                 existed, bundleVars>>

(* snapshotEntries again, compared entry by entry.                         *)
ListAfter ==
  /\ Enter("after", "afterInfo")
  /\ dirID = beforeDir
  /\ Present = DOMAIN before
  /\ todo' = Present
  /\ UNCHANGED <<fileVars, before, beforeDir, links, manifest, half, reading, roots, existed, bundleVars>>

sameFileIdentity_SizeOnly(n) == dir[n].kind = before[n][1]
sameFileIdentity(n) == identity(n) = before[n]

InfoAfter(n) ==
  /\ phase = "afterInfo" /\ n \in todo
  /\ sameFileIdentity(n)
  /\ todo' = todo \ {n}
  /\ Unless(todo', "open")
  /\ UNCHANGED <<fileVars, before, beforeDir, links, manifest, half, reading, roots, existed, bundleVars>>
-----------------------------------------------------------------------------
(***************************************************************************)
(* The Bundle: ReadFile holds b.mu for reading, Close for writing.         *)
(***************************************************************************)
ReadFile(r) ==
  /\ phase = "open"
  /\ r \notin readers
  /\ ~closed /\ roots # {}
  /\ readers' = readers \union {r}
  /\ UNCHANGED <<fileVars, phase, openVars, closed>>

ReadFileReturns(r) ==
  /\ r \in readers
  /\ readers' = readers \ {r}
  /\ UNCHANGED <<fileVars, phase, openVars, closed>>

(* A root whose Close fails is closed no less, and not tried again.        *)
Close ==
  /\ phase = "open"
  /\ readers = {}
  /\ roots' = {}
  /\ closed' = TRUE
  /\ UNCHANGED <<fileVars, phase, before, beforeDir, links, manifest, todo, half, reading,
                 existed, readers>>
-----------------------------------------------------------------------------
EntryStep(n) ==
  \/ InfoBefore(n) \/ ClassifyTarget(n) \/ ClassifyBlob(n) \/ OpenArtifact(n)
  \/ StableTarget(n) \/ StableBlob(n) \/ InfoAfter(n)

Next ==
  \/ ChangeEntry \/ ChangeBlob
  \/ OpenRoot \/ Fail
  \/ ListBefore \/ FindLinks \/ OpenManifest \/ ReadManifest \/ ListFiles
  \/ VerifyFile \/ ListAfter
  \/ \E n \in Names : EntryStep(n)
  \/ \E r \in Readers : ReadFile(r) \/ ReadFileReturns(r)
  \/ Close

Spec == Init /\ [][Next]_vars
-----------------------------------------------------------------------------
(***************************************************************************)
(* Properties.                                                             *)
(***************************************************************************)

(* The Bundle OpenDirectory returns is one the directory really held: at   *)
(* the moment verification ended, its manifest and exactly the files that  *)
(* declares were all there together with the declared contents, although   *)
(* they were read one by one while somebody changed them (the two looks of *)
(* snapshotEntries and of the links, and compareEntries).                  *)
VerifiedStateExisted == phase = "open" => existed

(* Every root that was opened is closed, exactly when the open fails or    *)
(* the Bundle is closed, the blobs of a snapshot included, and never while *)
(* a file is read through it.                                              *)
RootsHaveOneOwner ==
  /\ phase \in {"start", "failed"} => roots = {}
  /\ phase = "open" =>
       roots = IF closed THEN {} ELSE IF links = << >> THEN {"directory"}
               ELSE {"directory", "blobs"}
  /\ readers # {} => ~closed
=============================================================================
