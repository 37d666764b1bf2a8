------------------------------- MODULE Frames -------------------------------
(***************************************************************************)
(* The page frame allocator of pmm.c.  The bitmap is the set used of the   *)
(* frames whose bit is set; frames are numbered from RAM_BASE.             *)
(***************************************************************************)
EXTENDS Integers

CONSTANT TotalPages      \* TOTAL_PAGES, 32768 in the code

ASSUME FramesAssumption == TotalPages \in Nat

Frame == 0 .. TotalPages - 1
NoFrame == -1            \* the address 0 that the code returns on failure

Run(start, count) == start .. start + count - 1

\* (Variant: the run is not reset at a used frame.)
ScanNoReset(used, count) ==
  LET scan[i \in 0 .. TotalPages] ==
        IF i = 0 THEN [run |-> 0, start |-> 0]
        ELSE LET s == scan[i - 1] IN
             IF s.run = count \/ i - 1 \in used THEN s
             ELSE [run |-> s.run + 1, start |-> IF s.run = 0 THEN i - 1 ELSE s.start]
  IN  scan[TotalPages]

\* The scan of pmm_alloc_pages: the free frames in a row before frame i, and
\* where the row begins; it stops with the row complete.
Scan(used, count) ==
  LET scan[i \in 0 .. TotalPages] ==
        IF i = 0 THEN [run |-> 0, start |-> 0]
        ELSE LET s == scan[i - 1] IN
             IF s.run = count THEN s
             ELSE IF i - 1 \in used THEN [s EXCEPT !.run = 0]
             ELSE [run |-> s.run + 1, start |-> IF s.run = 0 THEN i - 1 ELSE s.start]
  IN  scan[TotalPages]

\* pmm_alloc_pages(count), and pmm_alloc_page() for count = 1: where the
\* frames begin that it marks used, or NoFrame.
AllocPages(used, count) ==
  IF count > 0 /\ Scan(used, count).run = count THEN Scan(used, count).start
  ELSE NoFrame

\* What it should return: the lowest place where count frames are free.
FirstFit(used, count) ==
  LET fits == {f \in Frame : Run(f, count) \subseteq Frame \ used} IN
  IF fits = {} THEN NoFrame ELSE CHOOSE f \in fits : \A g \in fits : f <= g

=============================================================================
