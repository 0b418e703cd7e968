---------------------------- MODULE BytecodeCache ----------------------------
(***************************************************************************)
(* The bytecode cache of src/src/cache.rs: one shard file that every run   *)
(* of the program reads, looks its sources up in and writes back, with no  *)
(* lock.  What protects it is the order of a run's steps, a temporary file *)
(* renamed into place, and keys that name the binary.                      *)
(*                                                                         *)
(* A run is a process, or a worker thread of one: each has a shard of its  *)
(* own in memory.  Runs and rebuilds of the binary interleave, and a run   *)
(* may be killed between any two steps.  A program is the binary that      *)
(* compiled it and the source it was compiled from.  Two sources may have  *)
(* one 64-bit key; the two hashes together are taken to tell sources and   *)
(* build identities apart, and a modification time to tell writes apart.   *)
(***************************************************************************)
EXTENDS Integers, FiniteSets

CONSTANTS
  Run, Source, Keys,
  KeyOf,          \* the 64-bit hash of a build identity and a source
  MaxBinaries,    \* bound: binaries installed one after the other
  MaxCompiles,    \* bound: sources a run asks for
  RebuildsRace    \* a binary may be replaced before the runs of it have read its time

Binary == 1 .. MaxBinaries
Id == 0 .. MaxBinaries     \* a binary's modification time; 0: it could not be read
NoFile == [entries |-> {}, mtime |-> 0, whole |-> TRUE]

ASSUME BytecodeCacheAssumption ==
  /\ MaxBinaries \in Nat \ {0} /\ MaxCompiles \in Nat /\ RebuildsRace \in BOOLEAN
  /\ KeyOf \in [Id \X Source -> Keys]

VARIABLES
  binary,    \* the binary that is installed
  shard,     \* scripts.rkyv
  temp,      \* each run's temporary file
  writes,    \* the clock of the file system
  phase,     \* where each run is
  image,     \* the binary each run executes
  build_id,  \* what it takes for its identity
  stamp, disk, added, dirty, pending,   \* its ShardMem, and what flush writes
  got,       \* the last source asked for, and the program that ran
  looked,    \* history: the file its flush knows the contents of
  compiles   \* bound

mem == <<stamp, disk, added, dirty>>
files == <<shard, temp, writes>>
history == <<got, looked, compiles>>
cache_vars == <<binary, files, phase, image, build_id, mem, pending, history>>

Program == Binary \X Source
Entry == [key : Keys, verify : Id \X Source, build : Id, blob : Program]
Whole(file) == IF file.whole THEN file.entries ELSE {}   \* check_bytes refuses a torn archive

CacheInit ==
  /\ binary = 1 /\ shard = NoFile /\ writes = 0
  /\ temp = [r \in Run |-> NoFile]
  /\ phase = [r \in Run |-> "off"]
  /\ image = [r \in Run |-> 1] /\ build_id = [r \in Run |-> 0]
  /\ stamp = [r \in Run |-> 0] /\ disk = [r \in Run |-> {}] /\ added = [r \in Run |-> {}]
  /\ dirty = [r \in Run |-> FALSE] /\ pending = [r \in Run |-> {}]
  /\ got = [r \in Run |-> <<>>] /\ looked = [r \in Run |-> 0] /\ compiles = [r \in Run |-> 0]

Goes(r, from, to) == phase[r] = from /\ phase' = [phase EXCEPT ![r] = to]

(* The installed binary is replaced by the next one. *)
Rebuild ==
  /\ binary < MaxBinaries /\ binary' = binary + 1
  /\ RebuildsRace \/ \A r \in Run : phase[r] # "started"
  /\ UNCHANGED <<files, phase, image, build_id, mem, pending, history>>

Start(r) ==
  /\ Goes(r, "off", "started") /\ image' = [image EXCEPT ![r] = binary]
  /\ UNCHANGED <<binary, files, build_id, mem, pending, history>>

(* build_id, of the path the run was started from: a file that was replaced
   meanwhile is stat'd in its new state, or not found. *)
ReadId(r) ==
  /\ Goes(r, "started", "identified")
  /\ \E id \in {binary} \cup (IF binary = image[r] THEN {} ELSE {0}) :
       build_id' = [build_id EXCEPT ![r] = id]
  /\ UNCHANGED <<binary, files, image, mem, pending, history>>

key_for(r, s) == KeyOf[<<build_id[r], s>>]
verify_for(r, s) == <<build_id[r], s>>

(* load_shard_indexed: the stamp, and then the bytes, of the run's own build. *)
Own(r, entries) == {e \in entries : e.build = build_id[r]}

Stamp(r) ==
  /\ Goes(r, "identified", "stamped") /\ stamp' = [stamp EXCEPT ![r] = shard.mtime]
  /\ UNCHANGED <<binary, files, image, build_id, disk, added, dirty, pending, history>>

Read(r) ==
  /\ Goes(r, "stamped", "running")
  /\ disk' = [disk EXCEPT ![r] = Own(r, Whole(shard))]
  /\ UNCHANGED <<binary, files, image, build_id, stamp, added, dirty, pending, history>>

(* ShardMem: this run's additions shadow what it read. *)
Shadowing(front, back) == front \cup {e \in back : \A f \in front : f.key # e.key}
Live(r) == Shadowing(added[r], disk[r])

\* Mutant of Hits: one hash is enough.
HitsUnverified(r, s) == {e \in Live(r) : e.key = key_for(r, s)}

(* load, and when it misses compile and store. *)
Hits(r, s) == {e \in Live(r) : e.key = key_for(r, s) /\ e.verify = verify_for(r, s)}

Asks(r, s) == phase[r] = "running" /\ compiles[r] < MaxCompiles
              /\ compiles' = [compiles EXCEPT ![r] = @ + 1]

Hit(r, s) ==
  /\ Asks(r, s)
  /\ \E e \in Hits(r, s) : got' = [got EXCEPT ![r] = <<s, e.blob>>]
  /\ UNCHANGED <<binary, files, phase, image, build_id, mem, pending, looked>>

store(r, s) ==
  LET e == [key |-> key_for(r, s), verify |-> verify_for(r, s), build |-> build_id[r],
            blob |-> <<image[r], s>>] IN
  /\ added' = [added EXCEPT ![r] = Shadowing({e}, @)]
  /\ dirty' = [dirty EXCEPT ![r] = TRUE]

Compile(r, s) ==
  /\ Asks(r, s) /\ Hits(r, s) = {}
  /\ got' = [got EXCEPT ![r] = <<s, <<image[r], s>>>>]
  /\ store(r, s)
  /\ UNCHANGED <<binary, files, phase, image, build_id, stamp, disk, pending, looked>>

(* node --build compiles and stores without looking. *)
Build(r, s) ==
  /\ Asks(r, s) /\ store(r, s)
  /\ UNCHANGED <<binary, files, phase, image, build_id, stamp, disk, pending, got, looked>>

(* flush: nothing to write; or the file is the one that was read, and is not
   read again; or it is, and the entries this run has not are taken over. *)
Flush(r) ==
  /\ Goes(r, "running", IF dirty[r] THEN "flushing" ELSE "gone")
  /\ dirty' = [dirty EXCEPT ![r] = FALSE]
  /\ pending' = [pending EXCEPT ![r] = IF dirty[r] THEN Live(r) ELSE {}]
  /\ UNCHANGED <<binary, files, image, build_id, stamp, disk, added, history>>

Changed(r) == shard.mtime # stamp[r]

Compare(r) ==
  /\ Goes(r, "flushing", IF Changed(r) THEN "merging" ELSE "writing")
  /\ looked' = [looked EXCEPT ![r] = shard.mtime]
  /\ UNCHANGED <<binary, files, image, build_id, mem, pending, got, compiles>>

\* Mutant of Merge: what the others stored is overwritten.
MergeNothing(r) ==
  /\ Goes(r, "merging", "writing") /\ looked' = [looked EXCEPT ![r] = shard.mtime]
  /\ UNCHANGED <<binary, files, image, build_id, mem, pending, got, compiles>>

Merge(r) ==
  /\ Goes(r, "merging", "writing")
  /\ pending' = [pending EXCEPT ![r] = Shadowing(@, Own(r, Whole(shard)))]
  /\ looked' = [looked EXCEPT ![r] = shard.mtime]
  /\ UNCHANGED <<binary, files, image, build_id, mem, got, compiles>>

(* write_shard: a temporary file of this write's own, and a rename. *)
Write(r) ==
  /\ Goes(r, "writing", "torn") /\ writes' = writes + 1
  /\ temp' = [temp EXCEPT ![r] = [entries |-> {}, mtime |-> writes', whole |-> FALSE]]
  /\ UNCHANGED <<binary, shard, image, build_id, mem, pending, history>>

Written(r) ==
  /\ Goes(r, "torn", "written") /\ writes' = writes + 1
  /\ temp' = [temp EXCEPT ![r] = [entries |-> {[e EXCEPT !.build = build_id[r]] : e \in pending[r]},
                                  mtime |-> writes', whole |-> TRUE]]
  /\ UNCHANGED <<binary, shard, image, build_id, mem, pending, history>>

Rename(r) ==
  /\ Goes(r, "written", "gone") /\ shard' = temp[r]
  /\ temp' = [temp EXCEPT ![r] = NoFile]
  /\ UNCHANGED <<binary, writes, image, build_id, mem, pending, history>>

(* The write or the rename fails, which loses what the run had; or it is killed. *)
WriteFails(r) ==
  /\ phase[r] \in {"writing", "torn", "written"} /\ phase' = [phase EXCEPT ![r] = "gone"]
  /\ temp' = [temp EXCEPT ![r] = IF phase[r] = "written" THEN NoFile ELSE @]
  /\ UNCHANGED <<binary, shard, writes, image, build_id, mem, pending, history>>

Killed(r) ==
  /\ phase[r] \notin {"off", "gone"} /\ phase' = [phase EXCEPT ![r] = "gone"]
  /\ UNCHANGED <<binary, files, image, build_id, mem, pending, history>>

CacheNext ==
  \/ Rebuild
  \/ \E r \in Run :
       \/ Start(r) \/ ReadId(r) \/ Stamp(r) \/ Read(r)
       \/ \E s \in Source : Hit(r, s) \/ Compile(r, s) \/ Build(r, s)
       \/ Flush(r) \/ Compare(r) \/ Merge(r) \/ Write(r) \/ Written(r) \/ Rename(r)
       \/ WriteFails(r) \/ Killed(r)

CacheSpec == CacheInit /\ [][CacheNext]_cache_vars

----------------------------------------------------------------------------
(* Properties. *)

Known == {"identified", "stamped", "running", "flushing", "merging", "writing", "torn", "written"}
File == [entries : SUBSET Entry, mtime : Nat, whole : BOOLEAN]

CacheTypeOK ==
  /\ binary \in Binary /\ shard \in File /\ temp \in [Run -> File] /\ writes \in Nat
  /\ phase \in [Run -> Known \cup {"off", "started", "gone"}]
  /\ image \in [Run -> Binary] /\ build_id \in [Run -> Id]
  /\ stamp \in [Run -> Nat] /\ looked \in [Run -> Nat] /\ compiles \in [Run -> Nat]
  /\ disk \in [Run -> SUBSET Entry] /\ added \in [Run -> SUBSET Entry]
  /\ pending \in [Run -> SUBSET Entry] /\ dirty \in [Run -> BOOLEAN]
  /\ got \in [Run -> {<<>>} \cup (Source \X Program)]

Keyed(entries) == {e.key : e \in entries}

\* What runs is the source that was asked for, compiled by the binary that
\* asks, whatever the file holds: entries of earlier binaries, of other
\* sources with the same key, of runs that were killed half way.
HitsAreOwn ==
  \A r \in Run : got[r] # <<>> => got[r][2] = <<image[r], got[r][1]>>

\* A run that replaces the file it knows the contents of (no other run
\* committed since it compared the stamp, or since it read the file again)
\* keeps every entry of its build, though it need not have read the file
\* since it started.
NothingDropped ==
  [][\A r \in Run : Rename(r) /\ looked[r] = shard.mtime =>
       Keyed(Own(r, shard.entries)) \subseteq Keyed(shard'.entries)]_cache_vars

\* No reader ever meets a torn file, whoever was killed in the middle of writing.
ShardWhole == shard.whole
============================================================================
