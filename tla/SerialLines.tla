----------------------------- MODULE SerialLines ----------------------------
(***************************************************************************)
(* What the harness of scripts/qemu-test.py promises about the firmware's  *)
(* serial output, whatever the chunking of the pipe and however the read   *)
(* loop ends: the lines it hands to its parser are the lines the firmware  *)
(* printed, in the order printed, each once and none skipped before a     *)
(* line handed over later: they are always a prefix of the printed lines. *)
(* After the loop has stopped it parses nothing more, so the lines beyond *)
(* the prefix are lost.  A step may hand over several lines (one read can *)
(* complete several), and the step that stops the loop may hand over its  *)
(* last lines.                                                             *)
(***************************************************************************)
EXTENDS Naturals, Sequences

CONSTANT Kinds   \* the lines the firmware can print

VARIABLES lines,   \* the lines the firmware has printed
          seen,    \* the lines the harness has parsed
          reading  \* the read loop has not stopped

vars == <<lines, seen, reading>>

Init ==
    /\ lines = <<>>
    /\ seen = <<>>
    /\ reading = TRUE

Emit(k) ==
    /\ lines' = Append(lines, k)
    /\ UNCHANGED <<seen, reading>>

(* The next n printed lines, in order. *)
Take(n) == seen' = SubSeq(lines, 1, Len(seen) + n)

Consume ==
    /\ reading
    /\ \E n \in 1..(Len(lines) - Len(seen)) : Take(n)
    /\ UNCHANGED <<lines, reading>>

Stop ==
    /\ reading
    /\ reading' = FALSE
    /\ \E n \in 0..(Len(lines) - Len(seen)) : Take(n)
    /\ UNCHANGED lines

Next == (\E k \in Kinds : Emit(k)) \/ Consume \/ Stop

Spec == Init /\ [][Next]_vars

=============================================================================
