----------------------------- MODULE ByteStream -----------------------------
(***************************************************************************)
(* What one direction of a TCP connection promises to the applications:    *)
(* the bytes that one writes are read by the other, each once and in       *)
(* order, and the end of the stream is reported after the last of them.    *)
(***************************************************************************)
EXTENDS SequencesExt, Integers

CONSTANT Bytes  (* what can be written                                     *)

VARIABLES
  written,  (* the bytes accepted by tcp_write                             *)
  given,    (* the bytes given to the recv callback and accepted by it     *)
  closed,   (* whether tcp_close has been accepted                         *)
  ended     (* whether the reader has been told of the end                 *)

streamVars == <<written, given, closed, ended>>

Init ==
  /\ written = <<>> /\ given = <<>>
  /\ closed = FALSE /\ ended = FALSE

(* No more than what there is room for is written at once.                 *)
Write ==
  /\ ~closed
  /\ IsStrictPrefix(written, written')
  /\ written' \in Seq(Bytes)
  /\ UNCHANGED <<given, closed, ended>>

Close ==
  /\ closed' = TRUE
  /\ UNCHANGED <<written, given, ended>>

(* Some of what was written is given, the end with the last of it.         *)
Give ==
  /\ ~ended
  /\ IsPrefix(given, given') /\ IsPrefix(given', written)
  /\ ended' \in {FALSE, closed /\ given' = written}
  /\ UNCHANGED <<written, closed>>

Next == Write \/ Close \/ Give

Spec == Init /\ [][Next]_streamVars
=============================================================================
