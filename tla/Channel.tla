------------------------------ MODULE Channel ------------------------------
(***************************************************************************)
(* What a pipe promises to the programs that share it: a bounded channel   *)
(* that hands over every byte once and in the order in which they were     *)
(* written, that ends (a read returns 0) only when nobody can write to it  *)
(* any more and everything written has been read, and that breaks (a write *)
(* returns -1) only when nobody can read from it any more.                 *)
(*                                                                         *)
(* Bytes are numbered from 1 in the order in which the channel takes them. *)
(***************************************************************************)
EXTENDS Naturals, Sequences

CONSTANTS Size,     \* how many bytes the channel holds
          Readers,  \* the tasks that have the read end at first
          Writers   \* the tasks that have the write end at first

VARIABLES
  sent,   \* how many bytes the channel has taken
  out,    \* the bytes that were read, in order
  rd,     \* the tasks that have the read end open
  wr,     \* the tasks that have the write end open
  answer  \* of the last call of each task: "end", "broken", or neither

cvars == <<sent, out, rd, wr, answer>>

Init ==
  /\ sent = 0 /\ out = <<>>
  /\ rd = Readers /\ wr = Writers
  /\ answer = [t \in Readers \cup Writers |-> "none"]

Put ==
  /\ sent - Len(out) < Size
  /\ sent' = sent + 1
  /\ UNCHANGED <<out, rd, wr, answer>>

Get ==
  /\ Len(out) < sent
  /\ out' = Append(out, Len(out) + 1)
  /\ UNCHANGED <<sent, rd, wr, answer>>

Answer(t, a) ==
  /\ t \in rd \cup wr
  /\ a = "end" => wr = {} /\ Len(out) = sent
  /\ a = "broken" => rd = {}
  /\ answer' = [answer EXCEPT ![t] = a]
  /\ UNCHANGED <<sent, out, rd, wr>>

Close(t) ==
  /\ \/ t \in rd /\ rd' = rd \ {t} /\ UNCHANGED wr
     \/ t \in wr /\ wr' = wr \ {t} /\ UNCHANGED rd
  /\ UNCHANGED <<sent, out, answer>>

Next ==
  \/ Put \/ Get
  \/ \E t \in Readers \cup Writers :
       Close(t) \/ \E a \in {"none", "end", "broken"} : Answer(t, a)

Spec == Init /\ [][Next]_cvars

=============================================================================
