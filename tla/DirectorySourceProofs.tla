------------------------ MODULE DirectorySourceProofs ------------------------
(***************************************************************************)
(* OpenDirectory returns a Bundle only if the directory really held it at  *)
(* one moment, for any files, manifests, links, blobs and changes; and it  *)
(* closes every root it has opened.                                        *)
(*                                                                         *)
(* The argument is about time. An identity is given once and never comes   *)
(* back, so that what has the identity of the first look has not changed   *)
(* since. Whatever disturbs the bundle before Verify ends leaves a trace   *)
(* until the second look: the identity of the directory, of an entry or of *)
(* a blob. The invariant keeps, for each of the later phases, which traces *)
(* that phase has still to find.                                           *)
(***************************************************************************)
EXTENDS DirectorySource, TLAPS

(* The phases from which the first look is complete, and later ones.       *)
Classified == {"manifest", "list", "files", "stable", "after", "afterInfo"}
Looking == {"beforeInfo", "links", "classify"} \union Classified

AnyEntry == [kind : {"none", "file", "link"}, id : Nat,
             content : Contents \union {"none"}, blob : Blobs \union {"none"}]
AnyReading == [name : Names, blob : Blobs \union {"none"}, id : Nat]

TypeOK ==
  /\ dir \in [Names -> AnyEntry]
  /\ \A n \in Names : dir[n].kind = "link" => dir[n].blob \in Blobs
  /\ blobs \in [Blobs -> [id : Nat, content : Contents]]
  /\ dirID \in Nat /\ changes \in Nat /\ beforeDir \in Nat
  /\ phase \in Opening \union {"start", "failed", "open"}
  /\ before \in [DOMAIN before -> {"file", "link"} \X Nat]
  /\ links \in [DOMAIN links -> [blob : Blobs, id : Nat]]
  /\ DOMAIN before \subseteq Names /\ DOMAIN links \subseteq Names
  /\ todo \subseteq Names /\ half \subseteq DOMAIN links
  /\ reading \in {NotReading} \union AnyReading
  /\ phase \in {"list", "files"} => manifest \in DOMAIN Declares
  /\ phase = "stable" => todo \subseteq DOMAIN links
  /\ phase = "afterInfo" => todo \subseteq DOMAIN before

(* No identity is from the future.                                         *)
TimeOK ==
  /\ dirID <= changes /\ beforeDir <= changes
  /\ \A n \in Names : dir[n].id <= changes
  /\ \A n \in DOMAIN before : before[n][2] <= changes
  /\ \A b \in Blobs : blobs[b].id <= changes
  /\ \A n \in DOMAIN links : links[n].id <= changes

(* While the directory has the identity of the first look, its entries are *)
(* those that were seen, of the same kinds and not older.                  *)
SeenOK ==
  /\ phase \in {"start", "before"} => DOMAIN before = {}
  /\ phase \in Looking /\ dirID = beforeDir =>
       /\ Present = DOMAIN before \union IF phase = "beforeInfo" THEN todo ELSE {}
       /\ \A n \in DOMAIN before : dir[n].kind = before[n][1] /\ before[n][2] <= dir[n].id

(* ... and its links are those that were classified.                       *)
LinksOK ==
  /\ phase \in {"before", "beforeInfo", "links"} => DOMAIN links = {}
  /\ phase \in {"classify"} \union Classified /\ dirID = beforeDir =>
       /\ {n \in Names : dir[n].kind = "link"} =
            DOMAIN links \union IF phase = "classify" THEN todo ELSE {}
       /\ \A n \in DOMAIN links : dir[n].blob = links[n].blob

(* The file that is being read.                                            *)
ReadingOK ==
  reading # NotReading =>
    /\ phase \in Classified \union {"failed", "open"}
    /\ phase = "manifest" => reading.name = ManifestName
    /\ phase \in Classified /\ dirID = beforeDir =>
         IF reading.blob = "none"
         THEN /\ dir[reading.name].kind = "file"
              /\ before[reading.name][2] <= reading.id
              /\ reading.id <= dir[reading.name].id
         ELSE /\ dir[reading.name].kind = "link"
              /\ reading.blob = links[reading.name].blob
              /\ reading.id = links[reading.name].id

(* Nothing tells n from what the first look found.                         *)
StableEntry(n) ==
  /\ dirID = beforeDir
  /\ identity(n) = before[n]
  /\ dir[n].kind = "link" => blobs[links[n].blob].id = links[n].id

(* What has been read so far is still there, or leaves a trace.            *)
VerifiedOK ==
  /\ phase \in {"list", "files"} /\ dirID = beforeDir => ManifestName \in Present
  /\ phase \in {"list", "files"} /\ StableEntry(ManifestName) =>
       ContentOf(ManifestName) = manifest
  /\ phase = "files" /\ dirID = beforeDir => Present \ {ManifestName} = DOMAIN Declares[manifest]
  /\ phase = "files" =>
       \A n \in DOMAIN Declares[manifest] \ todo :
         StableEntry(n) => ContentOf(n) = Declares[manifest][n]

(* Once Verify has ended: the whole bundle was there, or a trace that the  *)
(* checks still to come will find tells that it was not.                   *)
EntryMoved(n) == identity(n) # before[n]
BlobMoved(n) == blobs[links[n].blob].id # links[n].id
ResultOK ==
  /\ phase = "stable" => \/ existed \/ dirID # beforeDir
                         \/ \E n \in DOMAIN before : EntryMoved(n)
                         \/ \E n \in todo \union half : BlobMoved(n)
  /\ phase = "after" => \/ existed \/ dirID # beforeDir
                        \/ \E n \in DOMAIN before : EntryMoved(n)
  /\ phase = "afterInfo" => existed \/ \E n \in todo : EntryMoved(n)
  /\ phase = "open" => existed

(* The roots of each phase, and who may close them.                        *)
RootsOK ==
  /\ phase \in {"start", "failed"} => roots = {}
  /\ phase \in {"before", "beforeInfo", "links"} => roots = {"directory"}
  /\ phase = "classify" => roots = {"directory", "blobs"}
  /\ phase \in Classified \union {"open"} =>
       roots = IF closed THEN {} ELSE IF links = << >> THEN {"directory"}
               ELSE {"directory", "blobs"}
  /\ closed => phase = "open"
  /\ phase \in {"start", "before", "beforeInfo", "links"} => links = << >>
  /\ closed \in BOOLEAN
  /\ readers # {} => phase = "open" /\ ~closed

IInv ==
  /\ TypeOK /\ TimeOK /\ SeenOK /\ LinksOK /\ ReadingOK /\ VerifiedOK /\ ResultOK /\ RootsOK
-----------------------------------------------------------------------------
(* The empty function, as which before and links start.                    *)
LEMMA EmptyTuple == DOMAIN << >> = {}
OBVIOUS

(* What ChangeEntry may put at a name has the new identity, or is nothing. *)
LEMMA EntriesAreEntries ==
  ASSUME NEW i \in Nat, NEW e \in Entries(i) \union {NoFile}
  PROVE  /\ e \in AnyEntry
         /\ e.kind = "link" => e.blob \in Blobs
         /\ e.kind # "none" => e.id = i
         /\ e.id \in {0, i}
         /\ e.kind = "none" => e.id = 0
BY DEF Entries, NoFile, AnyEntry

(* The invariant before OpenDirectory has looked at anything.              *)
LEMMA InitInv ==
  ASSUME Init
  PROVE  IInv
<1>. USE DEF Init
<1>1. \A n \in Names : /\ dir[n] \in AnyEntry
                       /\ dir[n].kind = "link" => dir[n].blob \in Blobs
                       /\ dir[n].id <= 1
  <2>1. ASSUME NEW n \in Names
        PROVE  /\ dir[n] \in AnyEntry
               /\ dir[n].kind = "link" => dir[n].blob \in Blobs
               /\ dir[n].id <= 1
    <3>1. dir[n] \in Entries(1) \union {NoFile}
      OBVIOUS
    <3>. QED BY <3>1, EntriesAreEntries
  <2>. QED BY <2>1
<1>2. TypeOK
  BY <1>1, EmptyTuple DEF TypeOK, Opening
<1>3. TimeOK
  BY <1>1, EmptyTuple DEF TimeOK
<1>4. SeenOK /\ LinksOK /\ ReadingOK /\ VerifiedOK /\ ResultOK
  BY EmptyTuple DEF SeenOK, LinksOK, ReadingOK, VerifiedOK, ResultOK, Looking, Classified
<1>5. RootsOK
  BY DEF RootsOK, Classified
<1>. QED BY <1>2, <1>3, <1>4, <1>5 DEF IInv
-----------------------------------------------------------------------------
(***************************************************************************)
(* A change of the files.                                                  *)
(***************************************************************************)

(* Every change leaves a trace: an entry that is not as it was has a new   *)
(* identity or is gone, and only one written in place leaves the identity  *)
(* of the directory alone.                                                 *)
LEMMA ChangeEntryFacts ==
  ASSUME TypeOK, TimeOK, ChangeEntry
  PROVE  /\ dir' \in [Names -> AnyEntry]
         /\ dirID' \in {dirID, changes'}
         /\ \A n \in Names :
              /\ dir'[n].kind = "link" => dir'[n].blob \in Blobs
              /\ dir'[n].id <= changes'
              /\ \/ dir'[n] = dir[n] \/ dir'[n].kind = "none" \/ dir'[n].id = changes'
              /\ dirID' # changes' =>
                   /\ dir'[n].kind = dir[n].kind /\ dir'[n].blob = dir[n].blob
                   /\ dir[n].id <= dir'[n].id
                   /\ dir'[n] = dir[n] \/ dir'[n].id = changes'
<1>. USE DEF TypeOK, TimeOK
<1>0. changes' = changes + 1 /\ changes' \in Nat /\ dirID # changes'
  BY DEF ChangeEntry, AChange
<1>1. PICK n \in Names :
       \/ \E e \in Entries(changes') \union {NoFile} :
            dir' = [dir EXCEPT ![n] = e] /\ dirID' = changes'
       \/ \E c \in Contents :
            /\ dir[n].kind = "file"
            /\ dir' = [dir EXCEPT ![n].content = c, ![n].id = changes']
            /\ dirID' = dirID
  BY DEF ChangeEntry
<1>2. CASE \E e \in Entries(changes') \union {NoFile} :
             dir' = [dir EXCEPT ![n] = e] /\ dirID' = changes'
  <2>1. PICK e \in Entries(changes') \union {NoFile} :
          dir' = [dir EXCEPT ![n] = e] /\ dirID' = changes'
    BY <1>2
  <2>2. /\ e \in AnyEntry /\ (e.kind = "link" => e.blob \in Blobs)
        /\ e.id <= changes' /\ (e.kind = "none" \/ e.id = changes')
    BY <1>0, EntriesAreEntries
  <2>3. \A m \in Names : dir'[m] = IF m = n THEN e ELSE dir[m]
    BY <2>1
  <2>4. dir' \in [Names -> AnyEntry]
    BY <2>1, <2>2
  <2>5. \A m \in Names : dir[m].id \in Nat /\ dir[m].id <= changes
    BY DEF AnyEntry
  <2>. QED BY <1>0, <2>1, <2>2, <2>3, <2>4, <2>5
<1>3. CASE \E c \in Contents :
             /\ dir[n].kind = "file"
             /\ dir' = [dir EXCEPT ![n].content = c, ![n].id = changes']
             /\ dirID' = dirID
  <2>1. PICK c \in Contents :
          dir[n].kind = "file" /\ dirID' = dirID
          /\ dir' = [dir EXCEPT ![n] = [dir[n] EXCEPT !.content = c, !.id = changes']]
    BY <1>3 DEF AnyEntry
  <2>2. PICK e : e = [dir[n] EXCEPT !.content = c, !.id = changes']
    OBVIOUS
  <2>3. /\ e \in AnyEntry /\ e.kind = dir[n].kind /\ e.blob = dir[n].blob
        /\ e.id = changes' /\ e.kind = "file"
    <3>1. PICK d \in AnyEntry : d = dir[n]
      OBVIOUS
    <3>2. e = [kind |-> d.kind, id |-> changes', content |-> c, blob |-> d.blob]
      BY <2>2, <3>1 DEF AnyEntry
    <3>3. d.kind = "file" /\ d.blob \in Blobs \union {"none"}
      BY <2>1, <3>1 DEF AnyEntry
    <3>4. e \in AnyEntry
      BY <1>0, <3>2, <3>3 DEF AnyEntry
    <3>. QED BY <3>1, <3>2, <3>3, <3>4
  <2>4. \A m \in Names : dir'[m] = IF m = n THEN e ELSE dir[m]
    BY <2>1, <2>2
  <2>5. dir' \in [Names -> AnyEntry]
    BY <2>1, <2>2, <2>3
  <2>6. \A m \in Names : dir[m].id \in Nat /\ dir[m].id <= changes
    BY DEF AnyEntry
  <2>. QED BY <1>0, <2>1, <2>3, <2>4, <2>5, <2>6
<1>. QED BY <1>1, <1>2, <1>3

(* Somebody replaces, adds or removes an entry: its new identity, or that  *)
(* of the directory, is the trace the second look finds.                   *)
LEMMA ChangeEntryInv ==
  ASSUME IInv, ChangeEntry
  PROVE  IInv'
<1>0. /\ UNCHANGED <<phase, openVars, bundleVars, blobs>>
      /\ changes' = changes + 1
      /\ phase \in Opening
  BY DEF ChangeEntry, AChange
<1>. USE DEF openVars, bundleVars
<1>1. TypeOK /\ TimeOK
  BY DEF IInv
<1>2. TypeOK'
  BY <1>0, <1>1, ChangeEntryFacts DEF TypeOK
<1>3. TimeOK'
  BY <1>0, <1>1, ChangeEntryFacts DEF TypeOK, TimeOK
<1>4. dirID' = beforeDir' => dirID = beforeDir /\ dirID' # changes'
  BY <1>0, <1>1, ChangeEntryFacts DEF TypeOK, TimeOK
<1>5. ASSUME dirID' = beforeDir'
      PROVE  /\ Present' = Present
             /\ \A n \in Names :
                  /\ dir'[n].kind = dir[n].kind /\ dir'[n].blob = dir[n].blob
                  /\ dir[n].id <= dir'[n].id
                  /\ dir[n].id \in Nat /\ dir'[n].id \in Nat
  BY <1>1, <1>2, <1>4, <1>5, ChangeEntryFacts DEF Present, TypeOK, AnyEntry
<1>6. SeenOK'
  <2>. SUFFICES ASSUME phase \in Looking, dirID' = beforeDir'
                PROVE  SeenOK'
    BY <1>0 DEF IInv, SeenOK
  <2>1. /\ Present = DOMAIN before \union IF phase = "beforeInfo" THEN todo ELSE {}
        /\ \A n \in DOMAIN before : dir[n].kind = before[n][1] /\ before[n][2] <= dir[n].id
    BY <1>4 DEF IInv, SeenOK
  <2>2. ASSUME NEW n \in DOMAIN before
        PROVE  dir'[n].kind = before[n][1] /\ before[n][2] <= dir'[n].id
    <3>1. n \in Names /\ before[n][2] \in Nat
      BY <1>1 DEF TypeOK
    <3>. QED BY <1>5, <2>1, <3>1
  <2>. QED BY <1>0, <1>5, <2>1, <2>2 DEF IInv, SeenOK
<1>7. LinksOK'
  BY <1>0, <1>1, <1>4, <1>5 DEF IInv, LinksOK, TypeOK
<1>8. ReadingOK'
  <2>. SUFFICES ASSUME reading # NotReading, phase \in Classified, dirID' = beforeDir',
                       reading.blob = "none"
                PROVE  reading.id <= dir'[reading.name].id
    BY <1>0, <1>1, <1>4, <1>5 DEF IInv, ReadingOK, TypeOK, AnyReading
  <2>1. reading \in AnyReading /\ reading.id <= dir[reading.name].id
    BY <1>1, <1>4 DEF IInv, ReadingOK, TypeOK
  <2>. QED BY <1>5, <2>1 DEF AnyReading
<1>9. ASSUME NEW n \in DOMAIN before
      PROVE  /\ EntryMoved(n) => EntryMoved(n)'
             /\ StableEntry(n)' => StableEntry(n) /\ ContentOf(n)' = ContentOf(n)
  <2>1. n \in Names /\ before[n][1] # "none" /\ before[n][2] \in Nat /\ before[n][2] < changes'
    BY <1>0, <1>1 DEF TypeOK, TimeOK
  <2>2. dir'[n] = dir[n] \/ dir'[n].kind = "none" \/ dir'[n].id = changes'
    BY <1>1, <2>1, ChangeEntryFacts
  <2>3. dir'[n] = dir[n] \/ <<dir'[n].kind, dir'[n].id>> # before[n]
    BY <2>1, <2>2
  <2>4. EntryMoved(n) => EntryMoved(n)'
    BY <1>0, <2>3 DEF EntryMoved, identity
  <2>5. StableEntry(n)' => StableEntry(n) /\ ContentOf(n)' = ContentOf(n)
    BY <1>0, <1>4, <2>3 DEF StableEntry, identity, ContentOf
  <2>. QED BY <2>4, <2>5
<1>10. VerifiedOK'
  <2>. SUFFICES ASSUME phase \in {"list", "files"}, dirID' = beforeDir'
                PROVE  VerifiedOK'
    BY <1>0 DEF VerifiedOK, StableEntry
  <2>1. Present = DOMAIN before /\ ManifestName \in Present
        /\ (phase = "files" => Present \ {ManifestName} = DOMAIN Declares[manifest])
    BY <1>4 DEF IInv, SeenOK, VerifiedOK, Looking, Classified
  <2>2. StableEntry(ManifestName)' => ContentOf(ManifestName)' = manifest
    BY <1>9, <2>1 DEF IInv, VerifiedOK
  <2>3. ASSUME phase = "files", NEW n \in DOMAIN Declares[manifest] \ todo, StableEntry(n)'
        PROVE  ContentOf(n)' = Declares[manifest][n]
    <3>1. n \in DOMAIN before
      BY <2>1, <2>3
    <3>. QED BY <1>9, <2>3, <3>1 DEF IInv, VerifiedOK
  <2>. QED BY <1>0, <1>5, <2>1, <2>2, <2>3 DEF VerifiedOK
<1>11. ResultOK'
  <2>1. dirID # beforeDir => dirID' # beforeDir'
    BY <1>4
  <2>2. \A n : BlobMoved(n)' <=> BlobMoved(n)
    BY <1>0 DEF BlobMoved
  <2>3. phase = "afterInfo" => todo \subseteq DOMAIN before
    BY <1>1 DEF TypeOK
  <2>. QED BY <1>0, <1>9, <2>1, <2>2, <2>3 DEF IInv, ResultOK
<1>12. RootsOK'
  BY <1>0 DEF IInv, RootsOK
<1>. QED BY <1>2, <1>3, <1>6, <1>7, <1>8, <1>10, <1>11, <1>12 DEF IInv

(* Somebody rewrites a blob: its new identity is the trace.                *)
LEMMA ChangeBlobInv ==
  ASSUME IInv, ChangeBlob
  PROVE  IInv'
<1>0. /\ UNCHANGED <<phase, openVars, bundleVars, dir, dirID>>
      /\ changes' = changes + 1
      /\ phase \in Opening
  BY DEF ChangeBlob, AChange
<1>. USE DEF openVars, bundleVars
<1>1. TypeOK /\ TimeOK
  BY DEF IInv
<1>2. PICK b \in Blobs, c \in Contents :
        blobs' = [blobs EXCEPT ![b] = [id |-> changes', content |-> c]]
  BY DEF ChangeBlob
<1>3. /\ blobs' \in [Blobs -> [id : Nat, content : Contents]]
      /\ \A d \in Blobs : blobs'[d] = blobs[d] \/ blobs'[d].id = changes'
  BY <1>0, <1>1, <1>2 DEF TypeOK
<1>4. TypeOK'
  BY <1>0, <1>1, <1>3 DEF TypeOK
<1>5. TimeOK'
  <2>1. \A n \in Names : dir[n].id \in Nat
    BY <1>1 DEF TypeOK, AnyEntry
  <2>. QED BY <1>0, <1>1, <1>3, <2>1 DEF TypeOK, TimeOK
<1>6. SeenOK' /\ LinksOK' /\ ReadingOK'
  BY <1>0 DEF IInv, SeenOK, LinksOK, ReadingOK, Present
<1>7. ASSUME NEW n \in DOMAIN links
      PROVE  /\ BlobMoved(n) => BlobMoved(n)'
             /\ ~BlobMoved(n)' => blobs'[links[n].blob] = blobs[links[n].blob]
  <2>1. links[n].blob \in Blobs /\ links[n].id \in Nat /\ links[n].id < changes'
    BY <1>0, <1>1 DEF TypeOK, TimeOK
  <2>. QED BY <1>0, <1>3, <2>1 DEF BlobMoved
<1>8. VerifiedOK'
  <2>. SUFFICES ASSUME phase \in {"list", "files"}, dirID = beforeDir
                PROVE  VerifiedOK'
    BY <1>0 DEF VerifiedOK, StableEntry
  <2>1. /\ Present' = Present
        /\ ManifestName \in Present
        /\ phase = "files" => Present \ {ManifestName} = DOMAIN Declares[manifest]
        /\ Present \subseteq Names
    BY <1>0 DEF IInv, Present, VerifiedOK
  <2>2. /\ {n \in Names : dir[n].kind = "link"} = DOMAIN links
        /\ \A n \in DOMAIN links : dir[n].blob = links[n].blob
    BY DEF IInv, LinksOK, Classified
  <2>3. ASSUME NEW n \in Names, StableEntry(n)'
        PROVE  StableEntry(n) /\ ContentOf(n)' = ContentOf(n)
    <3>1. CASE dir[n].kind = "link"
      <4>1. n \in DOMAIN links /\ dir[n].blob = links[n].blob
        BY <2>2, <3>1
      <4>2. blobs'[links[n].blob] = blobs[links[n].blob]
        BY <1>0, <1>7, <2>3, <3>1, <4>1 DEF StableEntry, BlobMoved
      <4>. QED BY <1>0, <2>3, <3>1, <4>1, <4>2 DEF StableEntry, ContentOf, identity
    <3>2. CASE dir[n].kind # "link"
      BY <1>0, <2>3, <3>2 DEF StableEntry, ContentOf, identity
    <3>. QED BY <3>1, <3>2
  <2>4. StableEntry(ManifestName)' => ContentOf(ManifestName)' = manifest
    BY <2>1, <2>3 DEF IInv, VerifiedOK
  <2>5. ASSUME phase = "files", NEW n \in DOMAIN Declares[manifest] \ todo, StableEntry(n)'
        PROVE  ContentOf(n)' = Declares[manifest][n]
    <3>1. n \in Names
      BY <2>1, <2>5
    <3>. QED BY <2>3, <2>5, <3>1 DEF IInv, VerifiedOK
  <2>. QED BY <1>0, <2>1, <2>4, <2>5 DEF VerifiedOK
<1>9. ResultOK'
  <2>1. phase = "stable" => todo \union half \subseteq DOMAIN links
    BY <1>1 DEF TypeOK
  <2>2. \A n : EntryMoved(n)' <=> EntryMoved(n)
    BY <1>0 DEF EntryMoved, identity
  <2>. QED BY <1>0, <1>7, <2>1, <2>2 DEF IInv, ResultOK
<1>10. RootsOK'
  BY <1>0 DEF IInv, RootsOK
<1>. QED BY <1>4, <1>5, <1>6, <1>8, <1>9, <1>10 DEF IInv
-----------------------------------------------------------------------------
(***************************************************************************)
(* The first look.                                                         *)
(***************************************************************************)

(* os.OpenRoot of the directory.                                           *)
LEMMA OpenRootInv ==
  ASSUME IInv, OpenRoot
  PROVE  IInv'
<1>. USE DEF OpenRoot, fileVars, bundleVars
<1>1. TypeOK' /\ TimeOK'
  BY DEF IInv, TypeOK, TimeOK, Opening
<1>2. SeenOK' /\ LinksOK' /\ ReadingOK' /\ VerifiedOK' /\ ResultOK'
  BY EmptyTuple DEF IInv, SeenOK, LinksOK, ReadingOK, VerifiedOK, ResultOK, RootsOK,
                    Looking, Classified
<1>3. RootsOK'
  BY DEF IInv, RootsOK, Classified
<1>. QED BY <1>1, <1>2, <1>3 DEF IInv

(* An error on the way: the roots opened so far are closed.                *)
LEMMA FailInv ==
  ASSUME IInv, Fail
  PROVE  IInv'
<1>. USE DEF Fail, fileVars, bundleVars
<1>1. TypeOK' /\ TimeOK'
  BY DEF IInv, TypeOK, TimeOK
<1>2. SeenOK' /\ LinksOK' /\ ReadingOK' /\ VerifiedOK' /\ ResultOK'
  BY DEF IInv, SeenOK, LinksOK, ReadingOK, VerifiedOK, ResultOK, Looking, Classified
<1>3. RootsOK'
  BY DEF IInv, RootsOK, Classified, Opening
<1>. QED BY <1>1, <1>2, <1>3 DEF IInv

(* The first look: the identity of the directory and its names.            *)
LEMMA ListBeforeInv ==
  ASSUME IInv, ListBefore
  PROVE  IInv'
<1>. USE DEF ListBefore, Enter, fileVars, bundleVars
<1>1. TypeOK' /\ TimeOK'
  BY DEF IInv, TypeOK, TimeOK, Opening, Present
<1>2. SeenOK'
  BY DEF IInv, SeenOK, Present
<1>3. LinksOK' /\ ReadingOK' /\ VerifiedOK' /\ ResultOK'
  BY DEF IInv, LinksOK, ReadingOK, VerifiedOK, ResultOK, Classified
<1>4. RootsOK'
  BY DEF IInv, RootsOK, Classified
<1>. QED BY <1>1, <1>2, <1>3, <1>4 DEF IInv

(* The first look at one entry.                                            *)
LEMMA InfoBeforeInv ==
  ASSUME IInv, NEW n \in Names, InfoBefore(n)
  PROVE  IInv'
<1>. USE DEF fileVars, bundleVars
<1>0. /\ UNCHANGED <<fileVars, beforeDir, links, manifest, half, reading, roots, existed,
                     bundleVars>>
      /\ before' = [m \in DOMAIN before \union {n} |->
                      IF m = n THEN <<dir[n].kind, dir[n].id>> ELSE before[m]]
      /\ phase = "beforeInfo" /\ phase' = IF todo' = {} THEN "links" ELSE "beforeInfo"
      /\ n \in todo /\ todo' = todo \ {n}
      /\ dir[n].kind # "none"
  BY DEF InfoBefore, Unless, identity
<1>1. TypeOK /\ TimeOK /\ dir[n] \in AnyEntry
  BY DEF IInv, TypeOK
<1>2. dir[n].kind \in {"file", "link"} /\ dir[n].id \in Nat /\ dir[n].id <= changes
  BY <1>0, <1>1 DEF AnyEntry, TimeOK
<1>3. /\ DOMAIN before' = DOMAIN before \union {n}
      /\ before'[n] = <<dir[n].kind, dir[n].id>>
      /\ \A m \in DOMAIN before \ {n} : before'[m] = before[m]
  BY <1>0
<1>4. TypeOK'
  <2>1. before' \in [DOMAIN before' -> {"file", "link"} \X Nat]
    BY <1>0, <1>1, <1>2, <1>3 DEF TypeOK
  <2>. QED BY <1>0, <1>1, <1>3, <2>1 DEF TypeOK, Opening
<1>5. TimeOK'
  BY <1>0, <1>1, <1>2, <1>3 DEF TimeOK
<1>6. SeenOK'
  <2>. SUFFICES ASSUME dirID = beforeDir
                PROVE  /\ Present' = DOMAIN before' \union todo'
                       /\ \A m \in DOMAIN before' : /\ dir[m].kind = before'[m][1]
                                                    /\ before'[m][2] <= dir[m].id
    BY <1>0 DEF SeenOK
  <2>1. /\ Present = DOMAIN before \union todo
        /\ \A m \in DOMAIN before : dir[m].kind = before[m][1] /\ before[m][2] <= dir[m].id
    BY <1>0 DEF IInv, SeenOK, Looking
  <2>2. Present' = Present
    BY <1>0 DEF Present
  <2>. QED BY <1>0, <1>2, <1>3, <2>1, <2>2
<1>7. LinksOK' /\ ReadingOK' /\ VerifiedOK' /\ ResultOK'
  BY <1>0 DEF IInv, LinksOK, ReadingOK, VerifiedOK, ResultOK, Classified
<1>8. RootsOK'
  BY <1>0 DEF IInv, RootsOK, Classified
<1>. QED BY <1>4, <1>5, <1>6, <1>7, <1>8 DEF IInv

(* Which entries are links, and the root of the blobs if there are any.    *)
LEMMA FindLinksInv ==
  ASSUME IInv, FindLinks
  PROVE  IInv'
<1>. USE DEF fileVars, bundleVars
<1>. DEFINE found == {n \in Names : dir[n].kind = "link"}
<1>0. /\ UNCHANGED <<fileVars, before, beforeDir, links, manifest, half, reading, existed,
                     bundleVars>>
      /\ phase = "links" /\ phase' = IF found = {} THEN "manifest" ELSE "classify"
      /\ todo' = found
      /\ roots' = IF found = {} THEN roots ELSE roots \union {"blobs"}
  BY DEF FindLinks, Enter
<1>1. TypeOK' /\ TimeOK'
  BY <1>0 DEF IInv, TypeOK, TimeOK, Opening
<1>2. SeenOK'
  BY <1>0 DEF IInv, SeenOK, Looking, Present
<1>3. LinksOK'
  BY <1>0 DEF IInv, LinksOK, Classified
<1>4. ReadingOK' /\ VerifiedOK' /\ ResultOK'
  BY <1>0 DEF IInv, ReadingOK, VerifiedOK, ResultOK, Classified
<1>5. RootsOK'
  BY <1>0 DEF IInv, RootsOK, Classified
<1>. QED BY <1>1, <1>2, <1>3, <1>4, <1>5 DEF IInv

(* Where a link leads.                                                     *)
LEMMA ClassifyTargetInv ==
  ASSUME IInv, NEW n \in Names, ClassifyTarget(n)
  PROVE  IInv'
<1>. USE DEF fileVars, bundleVars
<1>0. /\ UNCHANGED <<fileVars, phase, before, beforeDir, manifest, reading, roots, existed,
                     bundleVars>>
      /\ links' = [m \in DOMAIN links \union {n} |->
                     IF m = n THEN [blob |-> dir[n].blob, id |-> 0] ELSE links[m]]
      /\ phase = "classify" /\ n \in todo /\ todo' = todo \ {n} /\ half' = half \union {n}
      /\ dir[n].kind = "link"
  BY DEF ClassifyTarget
<1>1. TypeOK /\ TimeOK /\ dir[n].blob \in Blobs
  BY <1>0 DEF IInv, TypeOK
<1>2. /\ DOMAIN links' = DOMAIN links \union {n}
      /\ links'[n] = [blob |-> dir[n].blob, id |-> 0]
      /\ \A m \in DOMAIN links \ {n} : links'[m] = links[m]
  BY <1>0
<1>3. TypeOK'
  <2>1. links' \in [DOMAIN links' -> [blob : Blobs, id : Nat]]
    BY <1>0, <1>1, <1>2 DEF TypeOK
  <2>. QED BY <1>0, <1>1, <1>2, <2>1 DEF TypeOK
<1>4. TimeOK'
  BY <1>0, <1>1, <1>2 DEF TypeOK, TimeOK
<1>5. SeenOK'
  BY <1>0 DEF IInv, SeenOK, Present
<1>6. LinksOK'
  <2>. SUFFICES ASSUME dirID = beforeDir
                PROVE  /\ {m \in Names : dir[m].kind = "link"} = DOMAIN links' \union todo'
                       /\ \A m \in DOMAIN links' : dir[m].blob = links'[m].blob
    BY <1>0 DEF LinksOK
  <2>1. /\ {m \in Names : dir[m].kind = "link"} = DOMAIN links \union todo
        /\ \A m \in DOMAIN links : dir[m].blob = links[m].blob
    BY <1>0 DEF IInv, LinksOK
  <2>. QED BY <1>0, <1>2, <2>1
<1>7. ReadingOK' /\ VerifiedOK' /\ ResultOK'
  BY <1>0 DEF IInv, ReadingOK, VerifiedOK, ResultOK, Classified
<1>8. RootsOK'
  BY <1>0 DEF IInv, RootsOK, Classified
<1>. QED BY <1>3, <1>4, <1>5, <1>6, <1>7, <1>8 DEF IInv

(* The identity of the blob a link leads to.                               *)
LEMMA ClassifyBlobInv ==
  ASSUME IInv, NEW n \in Names, ClassifyBlob(n)
  PROVE  IInv'
<1>. USE DEF fileVars, bundleVars
<1>0. /\ UNCHANGED <<fileVars, before, beforeDir, manifest, todo, reading, roots, existed,
                     bundleVars>>
      /\ links' = [links EXCEPT ![n].id = blobs[links[n].blob].id]
      /\ phase = "classify"
      /\ phase' = IF todo \union half' = {} THEN "manifest" ELSE "classify"
      /\ n \in half /\ half' = half \ {n}
  BY DEF ClassifyBlob, Unless
<1>1. TypeOK /\ TimeOK /\ n \in DOMAIN links
  BY <1>0 DEF IInv, TypeOK
<1>2. links[n] \in [blob : Blobs, id : Nat] /\ blobs[links[n].blob].id \in Nat
      /\ blobs[links[n].blob].id <= changes
  BY <1>1 DEF TypeOK, TimeOK
<1>3. /\ DOMAIN links' = DOMAIN links
      /\ links'[n] = [blob |-> links[n].blob, id |-> blobs[links[n].blob].id]
      /\ \A m \in DOMAIN links \ {n} : links'[m] = links[m]
      /\ links' = [m \in DOMAIN links |-> links'[m]]
  BY <1>0, <1>1, <1>2 DEF TypeOK
<1>4. TypeOK'
  <2>1. links' \in [DOMAIN links' -> [blob : Blobs, id : Nat]]
    BY <1>1, <1>2, <1>3 DEF TypeOK
  <2>. QED BY <1>0, <1>1, <1>3, <2>1 DEF TypeOK, Opening
<1>5. TimeOK'
  BY <1>0, <1>1, <1>2, <1>3 DEF TimeOK
<1>6. SeenOK'
  BY <1>0 DEF IInv, SeenOK, Looking, Classified, Present
<1>7. LinksOK'
  <2>. SUFFICES ASSUME dirID = beforeDir
                PROVE  /\ {m \in Names : dir[m].kind = "link"} = DOMAIN links' \union todo
                       /\ \A m \in DOMAIN links' : dir[m].blob = links'[m].blob
    BY <1>0 DEF LinksOK
  <2>1. /\ {m \in Names : dir[m].kind = "link"} = DOMAIN links \union todo
        /\ \A m \in DOMAIN links : dir[m].blob = links[m].blob
    BY <1>0 DEF IInv, LinksOK
  <2>. QED BY <1>3, <2>1
<1>8. ReadingOK' /\ VerifiedOK' /\ ResultOK'
  BY <1>0 DEF IInv, ReadingOK, VerifiedOK, ResultOK, Classified
<1>9. RootsOK'
  <2>1. links' # << >>
    BY <1>1, <1>3, EmptyTuple
  <2>. QED BY <1>0, <2>1 DEF IInv, RootsOK, Classified
<1>. QED BY <1>4, <1>5, <1>6, <1>7, <1>8, <1>9 DEF IInv
-----------------------------------------------------------------------------
(***************************************************************************)
(* bundle.Verify.                                                          *)
(***************************************************************************)

(* When the directory is as it was, what is there is what was seen.        *)
LEMMA SameDirectory ==
  ASSUME IInv, phase \in Classified, dirID = beforeDir
  PROVE  /\ Present = DOMAIN before
         /\ \A n \in DOMAIN before : dir[n].kind = before[n][1] /\ before[n][2] <= dir[n].id
         /\ {n \in Names : dir[n].kind = "link"} = DOMAIN links
         /\ \A n \in DOMAIN links : dir[n].blob = links[n].blob
BY DEF IInv, SeenOK, LinksOK, Looking, Classified

(* A file is opened, directly or through its link, after its identity is   *)
(* compared.                                                               *)
LEMMA OpenFileInv ==
  ASSUME IInv, NEW n \in Names, OpenFile(n),
         phase \in {"manifest", "files"}, phase = "manifest" => n = ManifestName
  PROVE  IInv'
<1>. USE DEF fileVars, bundleVars
<1>0. /\ UNCHANGED <<fileVars, phase, before, beforeDir, links, manifest, todo, half, roots,
                     existed, bundleVars>>
      /\ phase \in Classified
      /\ \/ /\ dir[n].kind = "file"
            /\ reading' = [name |-> n, blob |-> "none", id |-> dir[n].id]
         \/ /\ dir[n].kind = "link" /\ n \in DOMAIN links
            /\ reading' = [name |-> n, blob |-> links[n].blob, id |-> links[n].id]
  BY DEF OpenFile, Readable, currentLink, Classified
<1>1. dir[n] \in AnyEntry /\ (n \in DOMAIN links => links[n] \in [blob : Blobs, id : Nat])
  BY DEF IInv, TypeOK
<1>2. reading' \in AnyReading /\ reading'.name = n
  BY <1>0, <1>1 DEF AnyReading, AnyEntry
<1>3. TypeOK' /\ TimeOK'
  BY <1>0, <1>2 DEF IInv, TypeOK, TimeOK
<1>4. SeenOK' /\ LinksOK' /\ ResultOK' /\ RootsOK'
  BY <1>0 DEF IInv, SeenOK, LinksOK, ResultOK, RootsOK, Present, EntryMoved, BlobMoved, identity
<1>5. VerifiedOK'
  BY <1>0 DEF IInv, VerifiedOK, Present, StableEntry, ContentOf, identity
<1>6. ReadingOK'
  <2>. SUFFICES ASSUME dirID = beforeDir
                PROVE  IF reading'.blob = "none"
                       THEN /\ dir[n].kind = "file"
                            /\ before[n][2] <= reading'.id
                            /\ reading'.id <= dir[n].id
                       ELSE /\ dir[n].kind = "link"
                            /\ reading'.blob = links[n].blob
                            /\ reading'.id = links[n].id
    BY <1>0, <1>2 DEF ReadingOK
  <2>1. n \in Present
    BY <1>0 DEF Present
  <2>2. before[n][2] <= dir[n].id /\ dir[n].id \in Nat
    BY <1>0, <1>1, <2>1, SameDirectory DEF AnyEntry
  <2>. QED BY <1>0, <1>1, <2>2, DirectoryAssumption
<1>. QED BY <1>3, <1>4, <1>5, <1>6 DEF IInv

(* What is read of a file that is still as the first look found it.        *)
LEMMA ReadStable ==
  ASSUME IInv, phase \in {"manifest", "files"}, reading # NotReading,
         dirID = beforeDir, StableEntry(reading.name)
  PROVE  Read = {ContentOf(reading.name)} /\ reading.name \in Present
<1>. DEFINE n == reading.name
<1>1. n \in Names /\ reading \in AnyReading /\ dir[n] \in AnyEntry
  BY DEF IInv, TypeOK, AnyReading
<1>2. phase \in Classified
  BY DEF Classified
<1>3. CASE reading.blob = "none"
  <2>1. /\ dir[n].kind = "file"
        /\ before[n][2] <= reading.id /\ reading.id <= dir[n].id
    BY <1>2, <1>3 DEF IInv, ReadingOK
  <2>2. n \in Present /\ n \in DOMAIN before
    BY <1>1, <1>2, <2>1, SameDirectory DEF Present
  <2>3. dir[n].id = before[n][2]
    BY <2>2 DEF StableEntry, identity
  <2>4. dir[n].id = reading.id
    BY <1>1, <2>1, <2>3 DEF AnyReading, AnyEntry
  <2>. QED BY <1>3, <2>1, <2>2, <2>4 DEF Read, ContentOf
<1>4. CASE reading.blob # "none"
  <2>1. /\ dir[n].kind = "link"
        /\ reading.blob = links[n].blob /\ reading.id = links[n].id
    BY <1>2, <1>4 DEF IInv, ReadingOK
  <2>2. n \in Present
    BY <1>1, <2>1 DEF Present
  <2>3. n \in DOMAIN links /\ dir[n].blob = links[n].blob
    BY <1>1, <1>2, <2>1, SameDirectory
  <2>4. blobs[reading.blob].id = reading.id
    BY <2>1 DEF StableEntry
  <2>. QED BY <1>4, <2>1, <2>2, <2>3, <2>4 DEF Read, ContentOf
<1>. QED BY <1>3, <1>4

(* The manifest is read from what was opened.                              *)
LEMMA ReadManifestInv ==
  ASSUME IInv, ReadManifest
  PROVE  IInv'
<1>. USE DEF fileVars, bundleVars
<1>0. /\ UNCHANGED <<fileVars, before, beforeDir, links, todo, half, roots, existed, bundleVars>>
      /\ phase = "manifest" /\ phase' = "list"
      /\ reading # NotReading /\ reading' = NotReading
      /\ manifest' \in Read /\ manifest' \in DOMAIN Declares
  BY DEF ReadManifest, Enter
<1>1. TypeOK' /\ TimeOK'
  BY <1>0 DEF IInv, TypeOK, TimeOK, Opening
<1>2. SeenOK'
  BY <1>0 DEF IInv, SeenOK, Looking, Classified, Present
<1>3. LinksOK' /\ ReadingOK' /\ ResultOK'
  BY <1>0 DEF IInv, LinksOK, ReadingOK, ResultOK, Classified
<1>4. RootsOK'
  BY <1>0 DEF IInv, RootsOK, Classified
<1>5. VerifiedOK'
  <2>. SUFFICES ASSUME dirID = beforeDir
                PROVE  /\ ManifestName \in Present
                       /\ StableEntry(ManifestName) => ContentOf(ManifestName) = manifest'
    BY <1>0 DEF VerifiedOK, Present, StableEntry, ContentOf, identity
  <2>1. reading.name = ManifestName /\ reading \in AnyReading
    BY <1>0 DEF IInv, ReadingOK, TypeOK
  <2>2. dir[ManifestName].kind # "none"
    BY <1>0, <2>1 DEF IInv, ReadingOK, Classified
  <2>3. ManifestName \in Present
    BY <2>2, DirectoryAssumption DEF Present
  <2>. QED BY <1>0, <2>1, <2>3, ReadStable
<1>. QED BY <1>1, <1>2, <1>3, <1>4, <1>5 DEF IInv

(* verifyFiles compares the names with those the manifest declares.        *)
LEMMA ListFilesInv ==
  ASSUME IInv, ListFiles
  PROVE  IInv'
<1>. USE DEF fileVars, bundleVars
<1>0. /\ UNCHANGED <<fileVars, before, beforeDir, links, manifest, half, reading, roots,
                     existed, bundleVars>>
      /\ phase = "list" /\ phase' = "files"
      /\ Present \ {ManifestName} = DOMAIN Declares[manifest]
      /\ todo' = Present \ {ManifestName}
      /\ Present' = Present
  BY DEF ListFiles, Enter, Present
<1>1. TypeOK' /\ TimeOK'
  BY <1>0 DEF IInv, TypeOK, TimeOK, Opening, Present
<1>2. SeenOK'
  BY <1>0 DEF IInv, SeenOK, Looking, Classified
<1>3. LinksOK' /\ ReadingOK' /\ ResultOK'
  BY <1>0 DEF IInv, LinksOK, ReadingOK, ResultOK, Classified
<1>4. RootsOK'
  BY <1>0 DEF IInv, RootsOK, Classified
<1>5. VerifiedOK'
  BY <1>0 DEF IInv, VerifiedOK, StableEntry, ContentOf, identity
<1>. QED BY <1>1, <1>2, <1>3, <1>4, <1>5 DEF IInv

(* A declared file is read and compared; with the last, Verify ends.       *)
LEMMA VerifyFileInv ==
  ASSUME IInv, VerifyFile
  PROVE  IInv'
<1>. USE DEF fileVars, bundleVars
<1>. DEFINE n == reading.name
            rest == todo \ {n}
            D == Declares[manifest]
<1>0. /\ UNCHANGED <<fileVars, before, beforeDir, links, manifest, half, roots, bundleVars>>
      /\ phase = "files" /\ reading # NotReading /\ reading' = NotReading
      /\ D[n] \in Read
      /\ todo' = IF rest = {} THEN DOMAIN links ELSE rest
      /\ phase' = IF rest # {} THEN "files" ELSE IF links = << >> THEN "after" ELSE "stable"
      /\ Present' = Present
  BY DEF VerifyFile, Present
<1>1. n \in Names /\ manifest \in DOMAIN Declares
  BY <1>0 DEF IInv, TypeOK, AnyReading
<1>2. TypeOK' /\ TimeOK'
  BY <1>0 DEF IInv, TypeOK, TimeOK, Opening
<1>3. SeenOK' /\ LinksOK'
  BY <1>0 DEF IInv, SeenOK, LinksOK, Looking, Classified
<1>4. ReadingOK'
  BY <1>0 DEF ReadingOK
<1>5. RootsOK'
  BY <1>0 DEF IInv, RootsOK, Classified
<1>6. ASSUME NEW m \in DOMAIN D \ rest, StableEntry(m)
      PROVE  ContentOf(m) = D[m]
  <2>1. CASE m \notin todo
    BY <1>0, <1>6, <2>1 DEF IInv, VerifiedOK
  <2>2. CASE m = n
    BY <1>0, <1>6, <2>2, ReadStable DEF StableEntry
  <2>. QED BY <1>6, <2>1, <2>2
<1>7. VerifiedOK'
  <2>. SUFFICES ASSUME rest # {}
                PROVE  VerifiedOK'
    BY <1>0 DEF VerifiedOK
  <2>1. todo' = rest /\ phase' = "files"
    BY <1>0
  <2>2. \A m : (StableEntry(m)' <=> StableEntry(m)) /\ ContentOf(m)' = ContentOf(m)
    BY <1>0 DEF StableEntry, ContentOf, identity
  <2>. QED BY <1>0, <1>6, <2>1, <2>2 DEF IInv, VerifiedOK
<1>8. ResultOK'
  <2>. SUFFICES ASSUME rest = {}, dirID = beforeDir,
                       \A m \in DOMAIN before : ~EntryMoved(m),
                       \A m \in DOMAIN links : ~BlobMoved(m)
                PROVE  existed'
    <3>1. \A m : (EntryMoved(m)' <=> EntryMoved(m)) /\ (BlobMoved(m)' <=> BlobMoved(m))
      BY <1>0 DEF EntryMoved, BlobMoved, identity
    <3>2. links = << >> => DOMAIN links = {}
      BY EmptyTuple
    <3>. QED BY <1>0, <3>1, <3>2 DEF ResultOK
  <2>1. /\ Present = DOMAIN before
        /\ {m \in Names : dir[m].kind = "link"} = DOMAIN links
    BY <1>0, SameDirectory DEF Classified
  <2>2. ASSUME NEW m \in Present
        PROVE  StableEntry(m)
    BY <2>1, <2>2 DEF StableEntry, EntryMoved, BlobMoved, Present
  <2>3. ManifestName \in Present /\ Present \ {ManifestName} = DOMAIN D
    BY <1>0 DEF IInv, VerifiedOK
  <2>4. ContentOf(ManifestName) = manifest
    BY <1>0, <2>2, <2>3 DEF IInv, VerifiedOK
  <2>5. \A m \in DOMAIN D : ContentOf(m) = D[m]
    BY <1>6, <2>2, <2>3
  <2>6. Present = {ManifestName} \union DOMAIN D
    BY <2>3
  <2>. QED BY <2>4, <2>5, <2>6 DEF VerifyFile
<1>. QED BY <1>2, <1>3, <1>4, <1>5, <1>7, <1>8 DEF IInv
-----------------------------------------------------------------------------
(***************************************************************************)
(* The second look, and the Bundle.                                        *)
(***************************************************************************)

(* A step of the second look, or of the Bundle: what is left to show is    *)
(* that the traces that are still to be found are still looked for.        *)
LEMMA SecondLookInv ==
  ASSUME IInv, UNCHANGED <<fileVars, before, beforeDir, links, manifest, reading>>,
         phase \in {"stable", "after", "afterInfo", "open"},
         phase' \in {"stable", "after", "afterInfo", "open"},
         todo' \subseteq Names, half' \subseteq DOMAIN links,
         phase' = "stable" => todo' \subseteq DOMAIN links,
         phase' = "afterInfo" => todo' \subseteq DOMAIN before,
         phase' \in Classified => phase \in Classified,
         ResultOK', RootsOK'
  PROVE  IInv'
<1>. USE DEF fileVars
<1>1. TypeOK' /\ TimeOK'
  BY DEF IInv, TypeOK, TimeOK, Opening
<1>2. SeenOK'
  BY DEF IInv, SeenOK, Looking, Classified, Present
<1>3. LinksOK'
  BY DEF IInv, LinksOK, Classified
<1>4. ReadingOK'
  BY DEF IInv, ReadingOK, Classified
<1>5. VerifiedOK'
  BY DEF VerifiedOK
<1>. QED BY <1>1, <1>2, <1>3, <1>4, <1>5 DEF IInv

(* The traces themselves do not move with a step of the call.              *)
LEMMA SameTraces ==
  ASSUME UNCHANGED <<fileVars, before, links>>
  PROVE  \A n : (EntryMoved(n)' <=> EntryMoved(n)) /\ (BlobMoved(n)' <=> BlobMoved(n))
BY DEF fileVars, EntryMoved, BlobMoved, identity

(* The second look at a link: its target and its blob.                     *)
LEMMA StableLinksInv ==
  ASSUME IInv, NEW n \in Names, StableTarget(n) \/ StableBlob(n)
  PROVE  IInv'
<1>0. /\ UNCHANGED <<fileVars, before, beforeDir, links, manifest, reading, roots, existed,
                     bundleVars>>
      /\ phase = "stable"
      /\ \/ /\ n \in todo /\ todo' = todo \ {n} /\ half' = half \union {n}
            /\ phase' = "stable"
         \/ /\ n \in half /\ half' = half \ {n} /\ todo' = todo
            /\ ~BlobMoved(n)
            /\ phase' = IF todo' \union half' = {} THEN "after" ELSE "stable"
  BY DEF StableTarget, StableBlob, Unless, blobIsStable, BlobMoved
<1>1. todo \subseteq DOMAIN links /\ half \subseteq DOMAIN links /\ todo \subseteq Names
  BY <1>0 DEF IInv, TypeOK
<1>2. ResultOK'
  <2>. SUFFICES ASSUME ~existed, dirID = beforeDir,
                       \A m \in DOMAIN before : ~EntryMoved(m)
                PROVE  phase' = "stable" /\ \E m \in todo' \union half' : BlobMoved(m)
    <3>1. phase' \in {"stable", "after"} /\ existed' = existed /\ dirID' = dirID
          /\ beforeDir' = beforeDir /\ before' = before
      BY <1>0 DEF fileVars
    <3>. QED BY <1>0, <3>1, SameTraces DEF ResultOK
  <2>1. PICK m \in todo \union half : BlobMoved(m)
    BY <1>0 DEF IInv, ResultOK
  <2>2. m \in todo' \union half'
    BY <1>0, <2>1
  <2>. QED BY <1>0, <2>1, <2>2
<1>3. RootsOK'
  BY <1>0 DEF IInv, RootsOK, Classified, bundleVars
<1>. QED BY <1>0, <1>1, <1>2, <1>3, SecondLookInv DEF Classified

(* The second look at the directory and at each of its entries.            *)
LEMMA LookAfterInv ==
  ASSUME IInv, ListAfter \/ \E n \in Names : InfoAfter(n)
  PROVE  IInv'
<1>0. /\ UNCHANGED <<fileVars, before, beforeDir, links, manifest, half, reading, roots,
                     existed, bundleVars>>
      /\ \/ /\ phase = "after" /\ phase' = "afterInfo"
            /\ dirID = beforeDir /\ Present = DOMAIN before /\ todo' = Present
         \/ /\ phase = "afterInfo" /\ phase' = IF todo' = {} THEN "open" ELSE "afterInfo"
            /\ \E n \in todo : ~EntryMoved(n) /\ todo' = todo \ {n}
  BY DEF ListAfter, InfoAfter, Enter, Unless, sameFileIdentity, EntryMoved
<1>1. /\ todo \subseteq Names /\ half \subseteq DOMAIN links /\ Present \subseteq Names
      /\ phase = "afterInfo" => todo \subseteq DOMAIN before
  BY DEF IInv, TypeOK, Present
<1>2. ResultOK'
  <2>. SUFFICES ASSUME ~existed
                PROVE  phase' = "afterInfo" /\ \E m \in todo' : EntryMoved(m)
    <3>1. phase' \in {"afterInfo", "open"} /\ existed' = existed
      BY <1>0
    <3>. QED BY <1>0, <3>1, SameTraces DEF ResultOK
  <2>1. CASE phase = "after"
    BY <1>0, <2>1 DEF IInv, ResultOK
  <2>2. CASE phase = "afterInfo"
    <3>1. PICK m \in todo : EntryMoved(m)
      BY <2>2 DEF IInv, ResultOK
    <3>2. m \in todo'
      BY <1>0, <2>2, <3>1
    <3>. QED BY <1>0, <2>2, <3>1, <3>2
  <2>. QED BY <1>0, <2>1, <2>2
<1>3. RootsOK'
  BY <1>0 DEF IInv, RootsOK, Classified, bundleVars
<1>. QED BY <1>0, <1>1, <1>2, <1>3, SecondLookInv DEF Classified

(* Readers and Close of the Bundle that was returned.                      *)
LEMMA BundleInv ==
  ASSUME IInv, Close \/ \E r \in Readers : ReadFile(r) \/ ReadFileReturns(r)
  PROVE  IInv'
<1>. USE DEF openVars
<1>0. /\ UNCHANGED <<fileVars, phase, before, beforeDir, links, manifest, todo, half, reading,
                     existed>>
      /\ \/ /\ readers = {} /\ readers' = {} /\ roots' = {} /\ closed' = TRUE
            /\ phase = "open"
         \/ /\ phase = "open" /\ ~closed /\ closed' = closed /\ roots' = roots
         \/ /\ readers # {} /\ closed' = closed /\ roots' = roots
  BY DEF Close, ReadFile, ReadFileReturns
<1>1. phase = "open"
  BY <1>0 DEF IInv, RootsOK
<1>2. todo \subseteq Names /\ half \subseteq DOMAIN links
  BY DEF IInv, TypeOK
<1>3. ResultOK'
  BY <1>0, <1>1 DEF IInv, ResultOK
<1>4. RootsOK'
  <2>1. CASE closed' = TRUE /\ readers' = {} /\ roots' = {}
    BY <1>0, <1>1, <2>1 DEF RootsOK
  <2>2. CASE ~closed /\ closed' = closed /\ roots' = roots
    BY <1>0, <1>1, <2>2 DEF IInv, RootsOK
  <2>. QED BY <1>0, <1>1, <2>1, <2>2 DEF IInv, RootsOK
<1>. QED BY <1>0, <1>1, <1>2, <1>3, <1>4, SecondLookInv DEF Classified
-----------------------------------------------------------------------------
(* Every step keeps the invariant.                                         *)
LEMMA NextInv ==
  ASSUME IInv, [Next]_vars
  PROVE  IInv'
<1>1. CASE UNCHANGED vars
  <2>. USE <1>1 DEF vars, fileVars, openVars, bundleVars
  <2>1. TypeOK' /\ TimeOK'
    BY DEF IInv, TypeOK, TimeOK
  <2>2. SeenOK' /\ LinksOK' /\ ReadingOK'
    BY DEF IInv, SeenOK, LinksOK, ReadingOK, Present
  <2>3. VerifiedOK'
    BY DEF IInv, VerifiedOK, Present, StableEntry, ContentOf, identity
  <2>4. ResultOK' /\ RootsOK'
    BY DEF IInv, ResultOK, RootsOK, EntryMoved, BlobMoved, identity
  <2>. QED BY <2>1, <2>2, <2>3, <2>4 DEF IInv
<1>2. CASE OpenManifest
  BY <1>2, OpenFileInv, DirectoryAssumption DEF OpenManifest
<1>3. ASSUME NEW n \in Names, EntryStep(n)
      PROVE  IInv'
  <2>1. CASE OpenArtifact(n)
    <3>1. OpenFile(n) /\ phase \in {"manifest", "files"} /\ (phase = "manifest" => n = ManifestName)
      BY <2>1 DEF OpenArtifact
    <3>. QED BY <1>3, <3>1, OpenFileInv
  <2>2. CASE InfoBefore(n) \/ ClassifyTarget(n) \/ ClassifyBlob(n)
    BY <2>2, InfoBeforeInv, ClassifyTargetInv, ClassifyBlobInv
  <2>3. CASE StableTarget(n) \/ StableBlob(n)
    BY <2>3, StableLinksInv
  <2>4. CASE InfoAfter(n)
    BY <2>4, LookAfterInv
  <2>. QED BY <1>3, <2>1, <2>2, <2>3, <2>4 DEF EntryStep
<1>. QED BY <1>1, <1>2, <1>3, ChangeEntryInv, ChangeBlobInv, OpenRootInv, FailInv,
            ListBeforeInv, FindLinksInv, ReadManifestInv, ListFilesInv, VerifyFileInv,
            LookAfterInv, BundleInv DEF Next

(* IInv is an invariant of OpenDirectory on any directory, whatever is     *)
(* changed in it and between which of its steps.                           *)
THEOREM Invariance == Spec => []IInv
<1>1. Init => IInv
  BY InitInv
<1>2. IInv /\ [Next]_vars => IInv'
  BY NextInv
<1>. QED BY <1>1, <1>2, PTL DEF Spec

(* The two looks of snapshotEntries and of the links, with compareEntries, *)
(* are enough: a Bundle is returned only if its manifest and exactly the   *)
(* files that declares were all there at the moment bundle.Verify ended.   *)
THEOREM VerifiedState == Spec => []VerifiedStateExisted
<1>1. IInv => VerifiedStateExisted
  BY DEF IInv, ResultOK, VerifiedStateExisted
<1>. QED BY <1>1, Invariance, PTL

(* openDirectory closes the roots it has opened when it fails, Bundle.Close *)
(* closes them otherwise, and none is closed under a reader.               *)
THEOREM RootOwnership == Spec => []RootsHaveOneOwner
<1>1. IInv => RootsHaveOneOwner
  BY DEF IInv, RootsOK, RootsHaveOneOwner
<1>. QED BY <1>1, Invariance, PTL
=============================================================================
