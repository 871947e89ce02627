------------------------------- MODULE FileCache -------------------------------
(***************************************************************************)
(* The cache of downloaded scripts that the executions of a keeper share:  *)
(* an in-memory map from URL to file, the files, and cache_metadata.json,  *)
(* from which a restart builds the map again.                              *)
(*                                                                         *)
(* All files have size 1.  A restart also takes up the .go files of the    *)
(* directory under their file names: since the metadata has them under     *)
(* their URLs, each file then has two entries and is counted twice.  Such  *)
(* a second entry is never looked up, and evicting it deletes the file.    *)
(*                                                                         *)
(* The map is encoded and then written out, without its lock but after an  *)
(* eviction: what is written may be older than the map and than what other *)
(* calls have written meanwhile.  The Go runtime may end the process when  *)
(* the map is changed while it is encoded: a crash here is that, too.      *)
(***************************************************************************)
EXTENDS Integers, Sequences, FiniteSets, SequencesExt

CONSTANTS
  Fetchers,    \* calls of GetOrDownload
  Urls,        \* URLs, with different file names
  CacheMax,    \* max_cache_size, in files
  MaxRestarts  \* bound on crashes; the calls after one are new ones

ASSUME FileCacheAssumption ==
  IsFiniteSet(Urls) /\ CacheMax \in Nat \ {0} /\ MaxRestarts \in Nat

VARIABLES
  phase,     \* per call: where it is
  wants,     \* per call: its URL, or NoUrl
  served,    \* per call: what was copied into the container
  lru,       \* the entries of the map, the least recently used first
  cacheSize, \* stats.Size
  disk,      \* per URL: the state of its file
  copies,    \* per call: the entries it has encoded and not yet written, if any
  meta,      \* the entries in cache_metadata.json
  cacheLock, \* the call that holds the write lock over a write of the metadata
  torn,      \* history: URLs the file of which may be a part of it, while an
             \* entry, or a copy of one, leads to it
  restarts

cacheVars == <<phase, wants, served, lru, cacheSize, disk, copies, meta, cacheLock, torn, restarts>>

NoUrl == "none"
Phases == {"idle", "hit", "dropping", "dropped", "missed", "fetched", "evicting", "spaced",
           "writing", "written", "saving", "reading", "checked", "failed", "given"}
\* an entry: the URL, and whether the map has it under the file name instead
Entries == Urls \X BOOLEAN
Of(u) == <<u, FALSE>>

Unlocked == cacheLock = NoUrl
Step(f, p) == phase' = [phase EXCEPT ![f] = p]
Cached(u) == Of(u) \in ToSet(lru)
Drop(s, e) == IF e \in ToSet(s) THEN RemoveAt(s, CHOOSE n \in DOMAIN s : s[n] = e) ELSE s
\* the sequences of the entries es, those of t in the order of t
InOrderOf(es, t) ==
  {s \in SetToSeqs(es) : \A i, j \in DOMAIN s, k, l \in DOMAIN t :
                           s[i] = t[k] /\ s[j] = t[l] /\ i < j => k < l}

\* loadExistingFiles: the entries of the metadata that have a file, and every file
\* under its name, with the time it was written, which is no later than its last
\* access.
Kept == {e \in ToSet(meta) : disk[e[1]] # "absent"}
Named == {<<u, TRUE>> : u \in {v \in Urls : disk[v] # "absent"}} \ Kept
Loaded == {s \in InOrderOf(Kept \cup Named, meta) :
             \A m, n \in DOMAIN s : s[m][1] = s[n][1] /\ s[m][2] /\ ~s[n][2] => m < n}

\* A process that finds files of an earlier one, or none.
CacheInit ==
  /\ phase = [f \in Fetchers |-> "idle"]
  /\ wants = [f \in Fetchers |-> NoUrl]
  /\ served = [f \in Fetchers |-> NoUrl]
  /\ disk \in [Urls -> {"absent", "whole"}]
  /\ meta \in SetToSeqs({Of(u) : u \in {v \in Urls : disk[v] = "whole"}})
  /\ lru \in Loaded /\ cacheSize = Cardinality(Kept \cup Named)
  /\ copies = [f \in Fetchers |-> {}]
  /\ cacheLock = NoUrl
  /\ torn = {}
  /\ restarts = 0

\* getOrDownloadFile: a hit or a miss, under the read lock.
Lookup(f, u) ==
  /\ phase[f] = "idle" /\ Unlocked
  /\ wants' = [wants EXCEPT ![f] = u]
  /\ Step(f, IF Cached(u) THEN "hit" ELSE "missed")
  /\ UNCHANGED <<served, lru, cacheSize, disk, copies, meta, cacheLock, torn, restarts>>

\* accessCachedFile finds the file, and the entry becomes the latest (also one
\* that was replaced or evicted since: that changes nothing).
Touch(f) ==
  /\ phase[f] = "hit" /\ disk[wants[f]] # "absent"
  /\ lru' = IF Cached(wants[f]) THEN Append(Drop(lru, Of(wants[f])), Of(wants[f])) ELSE lru
  /\ Step(f, "saving")
  /\ UNCHANGED <<wants, served, cacheSize, disk, copies, meta, cacheLock, torn, restarts>>

\* It does not: the entry is deleted, the size reduced, the call fails.
FindGone(f) ==
  /\ phase[f] = "hit" /\ disk[wants[f]] = "absent"
  /\ Step(f, "dropping")
  /\ UNCHANGED <<wants, served, lru, cacheSize, disk, copies, meta, cacheLock, torn, restarts>>

DropEntry(f) ==
  /\ phase[f] = "dropping" /\ Unlocked
  /\ lru' = Drop(lru, Of(wants[f]))
  /\ cacheSize' = cacheSize - 1
  /\ Step(f, "dropped")
  /\ UNCHANGED <<wants, served, disk, copies, meta, cacheLock, torn, restarts>>

\* downloadContent
Download(f) ==
  /\ phase[f] = "missed"
  /\ \E p \in {"fetched", "failed"} : Step(f, p)
  /\ UNCHANGED <<wants, served, lru, cacheSize, disk, copies, meta, cacheLock, torn, restarts>>

\* ensureSpace: the least recently used entries go until enough is evicted; one
\* the file of which is gone cannot be removed and stays.
Excess == cacheSize + 1 - CacheMax
Removable == SelectSeq(lru, LAMBDA e : disk[e[1]] # "absent")
\* of two entries with one file the second finds it gone
FirstOf(s) == SelectSeq([n \in DOMAIN s |-> IF \E m \in 1..(n - 1) : s[m][1] = s[n][1]
                                              THEN << >> ELSE s[n]],
                        LAMBDA e : e # << >>)
Victims == LET c == FirstOf(Removable)
           IN  ToSet(SubSeq(c, 1, IF Len(c) < Excess THEN Len(c) ELSE Excess))

EnsureSpace(f) ==
  /\ phase[f] = "fetched" /\ Unlocked
  /\ IF Excess <= 0
       THEN Step(f, "spaced") /\ UNCHANGED <<lru, cacheSize, disk, cacheLock>>
       ELSE /\ lru' \in InOrderOf(ToSet(lru) \ Victims, lru)
            /\ cacheSize' = cacheSize - Cardinality(Victims)
            /\ disk' = [u \in Urls |-> IF \E e \in Victims : e[1] = u THEN "absent" ELSE disk[u]]
            /\ cacheLock' = f
            /\ Step(f, "evicting")
  /\ UNCHANGED <<wants, served, copies, meta, torn, restarts>>

\* WriteFile truncates, then fills.  When an entry already leads to the file, one
\* is about to be written that does, or another call writes the file, a reader
\* may find a part of it.
BeginWrite(f) ==
  /\ phase[f] = "spaced"
  /\ disk' = [disk EXCEPT ![wants[f]] = "partial"]
  /\ torn' = IF \/ Cached(wants[f]) \/ Of(wants[f]) \in ToSet(meta)
                \/ \E g \in Fetchers : \E c \in copies[g] : Of(wants[f]) \in ToSet(c)
                \/ \E g \in Fetchers \ {f} : /\ wants[g] = wants[f]
                                             /\ phase[g] \in {"hit", "writing", "written",
                                                              "saving", "reading", "checked"}
             THEN torn \cup {wants[f]} ELSE torn
  /\ Step(f, "writing")
  /\ UNCHANGED <<wants, served, lru, cacheSize, copies, meta, cacheLock, restarts>>

WriteFails(f) ==
  /\ phase[f] = "writing"
  /\ Step(f, "failed")
  /\ UNCHANGED <<wants, served, lru, cacheSize, disk, copies, meta, cacheLock, torn, restarts>>

EndWrite(f) ==
  /\ phase[f] = "writing"
  /\ disk' = [disk EXCEPT ![wants[f]] = IF @ = "partial" THEN "whole" ELSE @]
  /\ Step(f, "written")
  /\ UNCHANGED <<wants, served, lru, cacheSize, copies, meta, cacheLock, torn, restarts>>

(* A faulty variant: the entry is made before the file is written.         *)
StoreBeforeWrite(f) ==
  /\ phase[f] \in {"spaced", "written"} /\ Unlocked
  /\ IF phase[f] = "written" THEN Step(f, "saving") ELSE Step(f, "writing")
  /\ lru' = Append(Drop(lru, Of(wants[f])), Of(wants[f]))
  /\ disk' = IF phase[f] = "spaced" THEN [disk EXCEPT ![wants[f]] = "partial"] ELSE disk
  /\ UNCHANGED <<wants, served, cacheSize, copies, meta, cacheLock, torn, restarts>>

\* storeFile: Stat, then the entry and the size, also of one that is replaced.
Store(f) ==
  /\ phase[f] = "written" /\ Unlocked
  /\ IF disk[wants[f]] = "absent"
       THEN Step(f, "failed") /\ UNCHANGED <<lru, cacheSize>>
       ELSE /\ lru' = Append(Drop(lru, Of(wants[f])), Of(wants[f]))
            /\ cacheSize' = cacheSize + 1
            /\ Step(f, "saving")
  /\ UNCHANGED <<wants, served, disk, copies, meta, cacheLock, torn, restarts>>

\* saveMetadata, with the lock after an eviction and without it otherwise: the
\* entries are encoded ...
AfterSave == [evicting |-> "spaced", saving |-> "reading", dropped |-> "failed"]
EncodeMetadata(f) ==
  /\ phase[f] \in DOMAIN AfterSave /\ copies[f] = {}
  /\ copies' = [copies EXCEPT ![f] = {lru}]
  /\ UNCHANGED <<phase, wants, served, lru, cacheSize, disk, meta, cacheLock, torn, restarts>>

\* ... and written.  A write that fails, or that mixes with another one, leaves
\* nothing that can be read; the call goes on all the same.
WriteMetadata(f) ==
  /\ phase[f] \in DOMAIN AfterSave
  /\ \E c \in copies[f] : meta' \in {c, << >>}
  /\ copies' = [copies EXCEPT ![f] = {}]
  /\ cacheLock' = IF cacheLock = f THEN NoUrl ELSE cacheLock
  /\ Step(f, AfterSave[phase[f]])
  /\ UNCHANGED <<wants, served, lru, cacheSize, disk, torn, restarts>>

\* downloadFile reads the file and validates it; it may have been evicted.
ReadAndValidate(f) ==
  /\ phase[f] = "reading"
  /\ \/ disk[wants[f]] # "absent" /\ Step(f, "checked")
     \/ Step(f, "failed")
  /\ UNCHANGED <<wants, served, lru, cacheSize, disk, copies, meta, cacheLock, torn, restarts>>

\* copyFileToContainerOptimized reads it again.
CopyFile(f) ==
  /\ phase[f] = "checked"
  /\ IF disk[wants[f]] = "absent"
       THEN Step(f, "failed") /\ UNCHANGED served
       ELSE Step(f, "given") /\ served' = [served EXCEPT ![f] = disk[wants[f]]]
  /\ UNCHANGED <<wants, lru, cacheSize, disk, copies, meta, cacheLock, torn, restarts>>

\* The process ends and starts again.
Restart ==
  /\ restarts < MaxRestarts
  /\ restarts' = restarts + 1
  /\ phase' = [f \in Fetchers |-> "idle"]
  /\ wants' = [f \in Fetchers |-> NoUrl] /\ served' = [f \in Fetchers |-> NoUrl]
  /\ copies' = [f \in Fetchers |-> {}]
  /\ lru' \in Loaded /\ cacheSize' = Cardinality(Kept \cup Named)
  /\ cacheLock' = NoUrl
  /\ UNCHANGED <<disk, meta, torn>>

CacheNext ==
  \/ Restart
  \/ \E f \in Fetchers :
       \/ \E u \in Urls : Lookup(f, u)
       \/ Touch(f) \/ FindGone(f) \/ DropEntry(f) \/ Download(f) \/ EnsureSpace(f)
       \/ BeginWrite(f) \/ WriteFails(f) \/ EndWrite(f) \/ Store(f) \/ EncodeMetadata(f)
       \/ WriteMetadata(f) \/ ReadAndValidate(f) \/ CopyFile(f)

CacheSpec == CacheInit /\ [][CacheNext]_cacheVars

-----------------------------------------------------------------------------
\* The variables have the shapes declared above.
CacheTypeOK ==
  /\ phase \in [Fetchers -> Phases]
  /\ wants \in [Fetchers -> Urls \cup {NoUrl}]
  /\ served \in [Fetchers -> {NoUrl, "whole", "partial"}]
  /\ lru \in Seq(Entries) /\ IsInjective(lru)
  /\ cacheSize \in Int
  /\ disk \in [Urls -> {"absent", "partial", "whole"}]
  /\ copies \in [Fetchers -> SUBSET Seq(Entries)] /\ meta \in Seq(Entries)
  /\ cacheLock \in Fetchers \cup {NoUrl}
  /\ torn \subseteq Urls /\ restarts \in 0..MaxRestarts

\* Through evictions, files that are gone, restarts in the middle of a write and
\* metadata older than the files: what is executed is a whole download.  Only a
\* file that is written while an entry leads to it - of the map, of the metadata,
\* or of a copy of the map that some call is about to write - or while another
\* call uses it, may be executed in part.
ServedIsWhole ==
  \A f \in Fetchers : served[f] # "partial" \/ wants[f] \in torn
=============================================================================
