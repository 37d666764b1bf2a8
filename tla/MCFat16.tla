------------------------------ MODULE MCFat16 ------------------------------
(***************************************************************************)
(* Disks for Fat16: clusters of two sectors of two bytes, two directory    *)
(* entries to a sector; a file in two clusters that do not follow each     *)
(* other, one that ends within a sector, an empty one; a label, a deleted  *)
(* entry, a name that occurs twice, a directory of two sectors or of one   *)
(* that is full and has no end mark; a read-only file and a directory.     *)
(***************************************************************************)
EXTENDS Fat16, TLC

BPB == [reserved |-> 1, num_fats |-> 2, fat_size |-> 1, root_entries |-> 4,
        sectors_per_cluster |-> 2]
Entry(kind, attr, name, cluster, size) ==
  [kind |-> kind, attr |-> attr, name |-> name, cluster |-> cluster, size |-> size]
Label == Entry("used", {"volume_id"}, "A", 0, 0)
Gone == Entry("deleted", {"archive"}, "A", 3, 3)
End == [kind |-> "end"]

\* 2 leads to 4; 3 and 5 are alone.
FAT == (2 :> 4) @@ (3 :> 65535) @@ (4 :> 65535) @@ (5 :> 65528)

Long(name)  == Entry("used", {"archive"}, name, 2, 7)
Short(name) == Entry("used", {}, name, 3, 3)
Fixed(name) == Entry("used", {"read_only", "archive"}, name, 3, 3)
Dir(name)   == Entry("used", {"directory"}, name, 5, 0)
Nothing(name) == Entry("used", {}, name, 0, 0)

Disk(root) == [bpb |-> BPB, root |-> root, fat |-> FAT]
MCDisks ==
  {Disk(<<Label, Gone, Long("A"), Fixed("B")>>),
   Disk(<<Short("B"), Long("A"), Short("A"), Dir("C")>>),
   Disk(<<Nothing("B"), End, Long("A"), Short("B")>>),
   [Disk(<<Gone, Short("A")>>) EXCEPT !.bpb.root_entries = 1]}

\* Paths in either case have the same 8.3 name.
MCFat83 == ("a" :> "A") @@ ("A" :> "A") @@ ("b" :> "B") @@ ("c" :> "C")

=============================================================================
