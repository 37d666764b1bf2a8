------------------------------- MODULE Fat16 -------------------------------
(***************************************************************************)
(* The file system: fat16_mount, the search of the root directory and the  *)
(* walk along cluster chains of fat16.c, and what uses them: open and read *)
(* of fd.c, exec, the listing of the directory.                            *)
(*                                                                         *)
(* Every virtio_blk_read fills the one sector_buf (or dir_sector, when the *)
(* directory is listed) in a step of its own,                              *)
(* and may fail; what is done with the sector is the next step.  That a    *)
(* read which gave up is not answered later is assumed here: Drivers has   *)
(* the late answers.  A byte is its place on the disk, so sector_buf holds *)
(* the number of a sector.                                                 *)
(* Which descriptors refer to an open file is the matter of FileTable:     *)
(* here any task may read from any, as after a fork.                       *)
(*                                                                         *)
(* Preemptible says whether another task can run between two steps of a    *)
(* call (see Sched).                                                       *)
(***************************************************************************)
EXTENDS Integers, Sequences

CONSTANTS
  Tasks, Files,       \* Files: the memory for open files
  Paths, Names, Fat83,\* Fat83: to_fat83, from paths to 8.3 names
  Disks,              \* the disks to start from
  SectorBytes,        \* 512 in the code
  EntriesPerSector,   \* 16 in the code
  Counts,             \* the counts that programs read
  Rooms,              \* the names that programs have room for
  MaxBytes,           \* the size of the largest file (a bound)
  Preemptible

ASSUME Fat16Assumption ==
  /\ SectorBytes \in Nat \ {0} /\ EntriesPerSector \in Nat \ {0}
  /\ Fat83 \in [Paths -> Names] /\ Counts \subseteq Nat /\ Rooms \subseteq Nat /\ MaxBytes \in Nat
  /\ Preemptible \in BOOLEAN

EOC == 65528                    \* from here on, the end of a chain
NoSector == -1
Untouched == <<NoSector, 0>>    \* memory that nothing was read into

VARIABLES
  disk,         \* what is on it: bpb, root directory, file allocation table
  mounted,      \* "no", "yes" or "failed"
  sector_buf, dir_sector,
  pc,           \* per task: "user", or where it is in its call
  job,          \* the arguments and local variables of its call
  file,         \* the open files, or those not yet open: position = -1
  mem,          \* the buffer that the caller gave, and what lies behind it
  tmpbuf,       \* the kernel's buffer, of fd_read or of exec
  got           \* per open file: the bytes that read has returned, in order

vars == <<disk, mounted, sector_buf, dir_sector, pc, job, file, mem, tmpbuf, got>>

-----------------------------------------------------------------------------
(* The layout of the disk, as fat16_mount computes it.                     *)

Bpb == disk.bpb
RootDirSector == Bpb.reserved + Bpb.num_fats * Bpb.fat_size
RootDirSectors == (Bpb.root_entries + EntriesPerSector - 1) \div EntriesPerSector
DataStart == RootDirSector + RootDirSectors
FirstSector(cluster) == DataStart + (cluster - 2) * Bpb.sectors_per_cluster

Bytes == (Nat \X (0 .. SectorBytes - 1)) \cup {Untouched}

\* The entries that a sector of the root directory holds.
EntriesIn(sector) ==
  LET first == (sector - RootDirSector) * EntriesPerSector IN
  [i \in 1 .. EntriesPerSector |->
     IF first + i <= Len(disk.root) THEN disk.root[first + i] ELSE [kind |-> "end"]]

InChain(cluster) == cluster >= 2 /\ cluster < EOC

-----------------------------------------------------------------------------
NoJob == [op |-> "none", name |-> "none", sector |-> 0, first |-> 0, size |-> 0,
          cluster |-> 0, done |-> 0, to_read |-> 0, pass |-> 1, file |-> "none",
          count |-> 0, listed |-> <<>>, answer |-> 0, failed |-> FALSE]
Empty == [i \in 0 .. MaxBytes - 1 |-> Untouched]

TypeOK ==
  /\ mounted \in {"no", "yes", "failed"}
  /\ {sector_buf, dir_sector} \subseteq Nat \cup {NoSector}
  /\ pc \in [Tasks -> {"user", "dir", "scan", "sector", "copy", "end", "return"}]
  /\ \A t \in Tasks :
       /\ DOMAIN job[t] = DOMAIN NoJob
       /\ job[t].done \in -1 .. MaxBytes /\ job[t].to_read \in 0 .. MaxBytes
       /\ pc[t] = "copy" => job[t].done < job[t].to_read /\ InChain(job[t].cluster)
  /\ \A f \in Files : file[f].position \in -1 .. file[f].size
  /\ mem \in [Tasks -> [0 .. MaxBytes - 1 -> Bytes]]
  /\ tmpbuf \in [Tasks -> [0 .. MaxBytes - 1 -> Bytes]]

Init ==
  /\ disk \in Disks
  /\ mounted = "no"
  /\ sector_buf = NoSector /\ dir_sector = NoSector
  /\ pc = [t \in Tasks |-> "user"]
  /\ job = [t \in Tasks |-> NoJob]
  /\ file = [f \in Files |-> [position |-> -1, first |-> 0, size |-> 0]]
  /\ mem = [t \in Tasks |-> Empty]
  /\ tmpbuf = [t \in Tasks |-> Empty]
  /\ got = [f \in Files |-> <<>>]

\* fat16_mount: the boot sector, then the sectors of the first table, which
\* are read into memory of their own.
Mount ==
  /\ mounted = "no"
  /\ mounted' \in {"yes", "failed"}
  /\ sector_buf' \in {0, NoSector}
  /\ UNCHANGED <<disk, dir_sector, pc, job, file, mem, tmpbuf, got>>

Runs(t) == mounted = "yes" /\ (Preemptible \/ \A u \in Tasks \ {t} : pc[u] = "user")
At(t, label) == Runs(t) /\ pc[t] = label
Goto(t, label) == pc' = [pc EXCEPT ![t] = label]

Return(t, answer, failed) ==
  /\ Goto(t, "return")
  /\ job' = [job EXCEPT ![t].answer = answer, ![t].failed = failed]

\* Back in the program, which may then do with its buffer what it likes.
Leave(t) ==
  /\ At(t, "return") /\ Goto(t, "user")
  /\ job' = [job EXCEPT ![t] = NoJob]
  /\ mem' = [mem EXCEPT ![t] = Empty]
  /\ tmpbuf' = [tmpbuf EXCEPT ![t] = Empty]
  /\ UNCHANGED <<disk, mounted, sector_buf, dir_sector, file, got>>

-----------------------------------------------------------------------------
(* fat16_open, and the start of fat16_read_file.                           *)

StartOpen(t, path, op) ==
  /\ At(t, "user")
  /\ job' = [job EXCEPT ![t] = [NoJob EXCEPT !.op = op, !.name = Fat83[path]]]
  /\ Goto(t, "dir")
  /\ UNCHANGED <<disk, mounted, sector_buf, dir_sector, file, mem, tmpbuf, got>>

StartList(t, room) ==
  /\ At(t, "user")
  /\ job' = [job EXCEPT ![t] = [NoJob EXCEPT !.op = "list", !.count = room]]
  /\ Goto(t, "dir")
  /\ UNCHANGED <<disk, mounted, sector_buf, dir_sector, file, mem, tmpbuf, got>>

\* The next sector of the directory, if there is one, and room for a name.  A
\* sector that cannot be read ends the listing, and fails the search.
ReadDir(t) ==
  LET lists == job[t].op = "list"
      more == /\ job[t].sector < RootDirSectors
              /\ lists => Len(job[t].listed) < job[t].count
      answer == IF lists THEN Len(job[t].listed) ELSE -1 IN
  /\ At(t, "dir")
  /\ \/ /\ more /\ Goto(t, "scan") /\ UNCHANGED job
        /\ IF lists
           THEN dir_sector' = RootDirSector + job[t].sector /\ UNCHANGED sector_buf
           ELSE sector_buf' = RootDirSector + job[t].sector /\ UNCHANGED dir_sector
     \/ more /\ Return(t, answer, TRUE) /\ UNCHANGED <<sector_buf, dir_sector>>
     \/ ~more /\ Return(t, answer, FALSE) /\ UNCHANGED <<sector_buf, dir_sector>>
  /\ UNCHANGED <<disk, mounted, file, mem, tmpbuf, got>>

\* Read only, hidden and system files share a bit with FAT_ATTR_LFN.
SkippedByAttr(e) ==    \* variant: deleted entries count
  e.attr \cap {"read_only", "hidden", "system", "volume_id"} # {}
Skipped(e) == e.kind = "deleted"
              \/ e.attr \cap {"read_only", "hidden", "system", "volume_id"} # {}

\* The state of the walk along the chain from cluster, j being the job: the
\* loops of fat16_read_file go on, or are over.
Walk(t, j) ==
  /\ job' = [job EXCEPT ![t] = j]
  /\ Goto(t, IF j.done < j.to_read /\ InChain(j.cluster) THEN "sector" ELSE "end")

\* What fat16_open has found is opened by fd_open, which needs memory, or
\* loaded by SYS_EXEC.
Found(t, e) ==
  \/ /\ job[t].op = "open"
     /\ \/ \E f \in Files :
             /\ file[f].position = -1
             /\ file' = [file EXCEPT ![f] = [position |-> 0, first |-> e.cluster,
                                             size |-> e.size]]
             /\ job' = [job EXCEPT ![t].answer = 0, ![t].file = f,
                                   ![t].first = e.cluster, ![t].size = e.size]
             /\ Goto(t, "return")
        \/ Return(t, -1, TRUE) /\ UNCHANGED file
  \/ /\ job[t].op = "exec" /\ UNCHANGED file
     /\ \/ Return(t, -1, TRUE)                      \* no memory for it
        \/ Walk(t, [job[t] EXCEPT !.first = e.cluster, !.size = e.size, !.sector = 0,
                                  !.cluster = e.cluster, !.to_read = e.size])

\* The loop over the entries of the sector that is in sector_buf.
Scan(t) ==
  LET entries == EntriesIn(sector_buf)
      stop == {i \in 1 .. EntriesPerSector :
                 \/ entries[i].kind = "end"
                 \/ ~Skipped(entries[i]) /\ entries[i].name = job[t].name} IN
  /\ At(t, "scan") /\ job[t].op # "list"
  /\ \/ /\ stop = {}
        /\ job' = [job EXCEPT ![t].sector = @ + 1]
        /\ Goto(t, "dir") /\ UNCHANGED file
     \/ \E i \in stop :
          /\ \A k \in stop : i <= k
          /\ IF entries[i].kind = "end" THEN Return(t, -1, FALSE) /\ UNCHANGED file
                                        ELSE Found(t, entries[i])
  /\ UNCHANGED <<disk, mounted, sector_buf, dir_sector, mem, tmpbuf, got>>

\* SYS_LISTDIR has another mask: 0x1E, without FAT_ATTR_READ_ONLY.
Unlisted(e) == e.kind = "deleted"
               \/ e.attr \cap {"hidden", "system", "volume_id", "directory"} # {}

\* Variant: the names of the next sector replace those of the last.
ListedAgain(j, names) == SubSeq(names, 1, IF Len(names) > j.count THEN j.count ELSE Len(names))

\* The names in the buffer when those of a sector are added, as far as there
\* is room.
ListedAfter(j, names) ==
  LET all == j.listed \o names IN
  SubSeq(all, 1, IF Len(all) > j.count THEN j.count ELSE Len(all))

\* The entries before the end mark.
InUse(entries) ==
  LET ends == {i \in 1 .. Len(entries) : entries[i].kind = "end"} IN
  SubSeq(entries, 1, CHOOSE n \in 0 .. Len(entries) :
                       /\ \A i \in ends : n < i
                       /\ n = Len(entries) \/ n + 1 \in ends)

List(t) ==
  LET entries == InUse(EntriesIn(dir_sector))
      plain == SelectSeq(entries, LAMBDA e : ~Unlisted(e))
      listed == ListedAfter(job[t], [i \in 1 .. Len(plain) |-> plain[i].name]) IN
  /\ At(t, "scan") /\ job[t].op = "list"
  /\ IF Len(entries) < EntriesPerSector
     THEN /\ Goto(t, "return")
          /\ job' = [job EXCEPT ![t].listed = listed, ![t].answer = Len(listed)]
     ELSE /\ Goto(t, "dir")
          /\ job' = [job EXCEPT ![t].listed = listed, ![t].sector = @ + 1]
  /\ UNCHANGED <<disk, mounted, sector_buf, dir_sector, file, mem, tmpbuf, got>>

-----------------------------------------------------------------------------
(* fat16_read_file.                                                        *)

\* Variant: what was read before the failure counts.
ReadSectorBreak(t) ==
  /\ At(t, "sector")
  /\ \/ /\ sector_buf' = FirstSector(job[t].cluster) + job[t].sector
        /\ Goto(t, "copy")
     \/ Goto(t, "end") /\ UNCHANGED sector_buf
  /\ UNCHANGED <<disk, mounted, dir_sector, job, file, mem, tmpbuf, got>>

\* virtio_blk_read of the next sector.
ReadSector(t) ==
  /\ At(t, "sector")
  /\ \/ /\ sector_buf' = FirstSector(job[t].cluster) + job[t].sector
        /\ Goto(t, "copy") /\ UNCHANGED job
     \/ /\ UNCHANGED sector_buf
        /\ job' = [job EXCEPT ![t].done = -1, ![t].failed = TRUE]
        /\ Goto(t, "end")
  /\ UNCHANGED <<disk, mounted, dir_sector, file, mem, tmpbuf, got>>

\* The buffer with the next bytes of sector_buf in it.
Filled(buffer, j) ==
  [i \in DOMAIN buffer |->
     IF i \in j.done .. j.done + SectorBytes - 1 /\ i < j.to_read
     THEN <<sector_buf, i - j.done>> ELSE buffer[i]]

\* Variant: the last chunk is not cut.
CopySectorWhole(t) ==
  LET j == job[t] IN
  /\ At(t, "copy")
  /\ tmpbuf' = [tmpbuf EXCEPT ![t] = Filled(@, j)]
  /\ Walk(t, IF j.sector + 1 < Bpb.sectors_per_cluster /\ j.done + SectorBytes < j.to_read
             THEN [j EXCEPT !.done = @ + SectorBytes, !.sector = @ + 1]
             ELSE [j EXCEPT !.done = @ + SectorBytes, !.sector = 0,
                            !.cluster = disk.fat[j.cluster]])
  /\ UNCHANGED <<disk, mounted, sector_buf, dir_sector, file, mem, got>>

\* The first pass of fd_read goes to the buffer of the caller.
CopySector(t) ==
  LET j    == job[t]
      done == IF j.done + SectorBytes > j.to_read THEN j.to_read ELSE j.done + SectorBytes
      more == j.sector + 1 < Bpb.sectors_per_cluster /\ done < j.to_read IN
  /\ At(t, "copy")
  /\ IF j.op = "read" /\ j.pass = 1
     THEN mem' = [mem EXCEPT ![t] = Filled(@, j)] /\ UNCHANGED tmpbuf
     ELSE tmpbuf' = [tmpbuf EXCEPT ![t] = Filled(@, j)] /\ UNCHANGED mem
  /\ Walk(t, IF more THEN [j EXCEPT !.done = done, !.sector = @ + 1]
             ELSE [j EXCEPT !.done = done, !.sector = 0,
                            !.cluster = disk.fat[j.cluster]])
  /\ UNCHANGED <<disk, mounted, sector_buf, dir_sector, file, got>>

-----------------------------------------------------------------------------
(* Exec, and fd_read of a file.                                            *)

ExecEnds(t) ==
  /\ At(t, "end") /\ job[t].op = "exec"
  /\ \/ Return(t, job[t].done, job[t].failed)
     \/ Return(t, -1, TRUE)              \* no slot or frames for the task
  /\ UNCHANGED <<disk, mounted, sector_buf, dir_sector, file, mem, tmpbuf, got>>

StartRead(t, f, count) ==
  LET left == file[f].size - file[f].position
      n == IF count > left THEN left ELSE count IN
  /\ At(t, "user") /\ file[f].position # -1
  /\ IF left = 0 THEN Return(t, 0, FALSE)
     ELSE Walk(t, [NoJob EXCEPT !.op = "read", !.file = f, !.count = n,
                     !.first = file[f].first, !.cluster = file[f].first,
                     !.to_read = file[f].position + n])
  /\ UNCHANGED <<disk, mounted, sector_buf, dir_sector, file, mem, tmpbuf, got>>

\* The first pass is over: -1 when it failed, nothing when the chain ended
\* before the position, else all is read once more, into tmpbuf.
FirstPassEnds(t) ==
  LET j    == job[t]
      at   == file[j.file].position
      size == file[j.file].size IN
  /\ At(t, "end") /\ j.op = "read" /\ j.pass = 1
  /\ \/ j.done = -1 /\ Return(t, -1, TRUE)
     \/ j.done \in 0 .. at /\ Return(t, 0, FALSE)
     \/ j.done > at /\ Return(t, -1, TRUE)          \* no memory for tmpbuf
     \/ /\ j.done > at
        /\ Walk(t, [j EXCEPT !.pass = 2, !.done = 0, !.sector = 0, !.cluster = j.first,
                             !.to_read = IF at + j.count > size THEN size
                                                                ELSE at + j.count])
  /\ UNCHANGED <<disk, mounted, sector_buf, dir_sector, file, mem, tmpbuf, got>>

\* Variant: the position moves by what was asked for.
SecondPassEndsCount(t) ==
  LET j == job[t] IN
  /\ At(t, "end") /\ j.op = "read" /\ j.pass = 2
  /\ file' = [file EXCEPT ![j.file].position = @ + j.count]
  /\ got' = [got EXCEPT ![j.file] =
               @ \o [i \in 1 .. j.done - file[j.file].position |->
                       tmpbuf[t][file[j.file].position + i - 1]]]
  /\ Return(t, j.count, j.failed)
  /\ UNCHANGED <<disk, mounted, sector_buf, dir_sector, mem, tmpbuf>>

\* The bytes from the position on go to the caller, and the position moves
\* on.  When this pass has failed, the caller gets 0.
SecondPassEnds(t) ==
  LET j == job[t]
      from == file[j.file].position
      actual == IF j.done <= from THEN 0
                ELSE IF j.done - from > j.count THEN j.count ELSE j.done - from IN
  /\ At(t, "end") /\ j.op = "read" /\ j.pass = 2
  /\ mem' = [mem EXCEPT ![t] = [i \in DOMAIN @ |->
               IF i < actual THEN tmpbuf[t][from + i] ELSE @[i]]]
  /\ file' = [file EXCEPT ![j.file].position = @ + actual]
  /\ got' = [got EXCEPT ![j.file] = @ \o [i \in 1 .. actual |-> tmpbuf[t][from + i - 1]]]
  /\ Return(t, actual, j.failed)
  /\ UNCHANGED <<disk, mounted, sector_buf, dir_sector, tmpbuf>>

\* The last descriptor of an open file is closed.
Close(f) ==
  /\ mounted = "yes" /\ file[f].position # -1
  /\ \A t \in Tasks : pc[t] = "user"
  /\ file' = [file EXCEPT ![f] = [position |-> -1, first |-> 0, size |-> 0]]
  /\ got' = [got EXCEPT ![f] = <<>>]
  /\ UNCHANGED <<disk, mounted, sector_buf, dir_sector, pc, job, mem, tmpbuf>>

Next ==
  \/ Mount
  \/ \E t \in Tasks :
       \/ \E path \in Paths, op \in {"open", "exec"} : StartOpen(t, path, op)
       \/ \E room \in Rooms : StartList(t, room)
       \/ Leave(t) \/ ReadDir(t) \/ Scan(t) \/ List(t)
       \/ ReadSector(t) \/ CopySector(t)
       \/ \E f \in Files, n \in Counts : StartRead(t, f, n)
       \/ ExecEnds(t) \/ FirstPassEnds(t) \/ SecondPassEnds(t)
  \/ \E f \in Files : Close(f)

Spec == Init /\ [][Next]_vars

-----------------------------------------------------------------------------
(* Properties.                                                             *)

\* The bytes of the file that starts in cluster first, by the definition of
\* a FAT file system.
Content(first, size) ==
  LET perCluster == Bpb.sectors_per_cluster * SectorBytes
      nth[n \in 0 .. size] == IF n = 0 THEN first ELSE disk.fat[nth[n - 1]]
  IN [i \in 1 .. size |->
        LET rest == (i - 1) % perCluster IN
        <<FirstSector(nth[(i - 1) \div perCluster]) + rest \div SectorBytes,
          rest % SectorBytes>>]

\* Reads of an open file, by whichever tasks share it and in whatever pieces,
\* return its bytes one after the other, each once, through sectors, clusters
\* and failed reads (fd.c, fat16_read_file).
ReadsFollowTheFile ==
  \A f \in Files : file[f].position # -1 =>
    /\ Len(got[f]) = file[f].position
    /\ \A i \in 1 .. file[f].position : got[f][i] = Content(file[f].first, file[f].size)[i]

\* A program that exec loads is all of its file, or is not started.
ExecLoadsTheFile ==
  \A t \in Tasks : pc[t] = "return" /\ job[t].op = "exec" /\ job[t].answer >= 0 =>
    LET bytes == Content(job[t].first, job[t].size) IN
    job[t].answer = Len(bytes) /\ \A i \in 1 .. Len(bytes) : tmpbuf[t][i - 1] = bytes[i]

\* The entries that open should find: those with the name that are in use,
\* before the end of the directory.
Matches(name) ==
  {i \in 1 .. Len(disk.root) :
     /\ \A k \in 1 .. i : disk.root[k].kind # "end"
     /\ disk.root[i].kind = "used" /\ disk.root[i].name = name
     /\ disk.root[i].attr \subseteq {"archive", "directory"}}

\* open and exec take the first entry with the name, wherever the sectors of
\* the directory end, and fail when there is none (fat16.h:85).
OpenFindsFirst ==
  \A t \in Tasks :
    pc[t] = "return" /\ job[t].op \in {"open", "exec"} /\ ~job[t].failed =>
      LET matches == Matches(job[t].name) IN
      IF job[t].answer = -1 THEN matches = {}
      ELSE \E i \in matches :
             /\ \A k \in matches : i <= k
             /\ disk.root[i].cluster = job[t].first /\ disk.root[i].size = job[t].size

\* The listing has the names of the plain files, each once, in the order of
\* the directory and up to where there is room.
ListingIsTrue ==
  LET IsPlain(e) == e.kind = "used" /\ e.attr \subseteq {"archive", "read_only"}
      plain == SelectSeq(InUse(disk.root), IsPlain) IN
  \A t \in Tasks :
    pc[t] = "return" /\ job[t].op = "list" =>
      LET n == job[t].answer IN
      /\ n = Len(job[t].listed)
      /\ \A i \in 1 .. n : i <= Len(plain) /\ job[t].listed[i] = plain[i].name
      /\ ~job[t].failed => n = Len(plain) \/ n = job[t].count

\* Whatever the directory is searched for, the answer is the one that a
\* search in one piece would give (fat16_open, SYS_LISTDIR).
DirectoryIsSearched == OpenFindsFirst /\ ListingIsTrue

\* fd.h:88, "For files: reads up to count bytes from current position": the
\* memory behind the caller's buffer is left alone.
ReadKeepsToBuffer ==
  \A t \in Tasks : job[t].op = "read" =>
    \A i \in DOMAIN mem[t] : i >= job[t].count => mem[t][i] = Untouched

=============================================================================
