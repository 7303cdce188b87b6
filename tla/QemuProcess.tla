----------------------------- MODULE QemuProcess ----------------------------
(***************************************************************************)
(* The environment of the harness in scripts/qemu-test.py: the QEMU child  *)
(* process started by subprocess.Popen, the pipe carrying its merged       *)
(* stdout/stderr (the firmware's UART output), and the monotonic clock the *)
(* timeout is measured on.                                                 *)
(*                                                                         *)
(* out is everything QEMU has written to the pipe so far, one atom per     *)
(* serial line of text followed by one NL atom; rd is how many atoms the   *)
(* harness has read.  The firmware prints a line in two writes (its text,  *)
(* then the newline), so a read can return a line without its newline.    *)
(* QEMU can exit at any moment, also in the middle of a line; the pipe     *)
(* then reaches end of file once the harness has read what is left.        *)
(***************************************************************************)
EXTENDS Naturals, Sequences, SequencesExt, LineBuffer

CONSTANTS LineKinds, \* the lines the firmware can print (by what they match)
          MaxLines,  \* bound on the number of lines the firmware prints
          MaxChunk   \* most atoms one proc.stdout.read(4096) returns

ASSUME NL \notin LineKinds /\ MaxLines \in Nat /\ MaxChunk \in Nat \ {0}

VARIABLES out,       \* atoms QEMU has written to the pipe
          rd,        \* atoms the harness has read from the pipe
          qemu,      \* "none" (not spawned), "running", "exited", "killed"
          timedOut   \* time.monotonic() - start_time > timeout

envVars == <<out, rd, qemu, timedOut>>

(* What is in the pipe and not read yet. *)
pipe == SubSeq(out, rd + 1, Len(out))

(* The serial lines printed so far, the one still missing its newline      *)
(* included.                                                               *)
Printed == SelectSeq(out, LAMBDA a : a # NL)

(* out alternates the text of a line and its newline, so the firmware is   *)
(* at the start of a line exactly when out has even length.                *)
AtLineStart == Len(out) % 2 = 0

(* The lines printed so far that have their newline. *)
Terminated == IF AtLineStart THEN Printed ELSE Front(Printed)

EnvTypeOK ==
    /\ out \in Seq(LineKinds \cup {NL})
    /\ rd \in 0..Len(out)
    /\ qemu \in {"none", "running", "exited", "killed"}
    /\ timedOut \in BOOLEAN

EnvInit ==
    /\ out = <<>>
    /\ rd = 0
    /\ qemu = "none"
    /\ timedOut = FALSE

(* The firmware prints the text of a line. *)
PrintText(k) ==
    /\ qemu = "running"
    /\ Len(Printed) < MaxLines
    /\ AtLineStart
    /\ out' = Append(out, k)
    /\ UNCHANGED <<rd, qemu, timedOut>>

(* The firmware ends the line it is printing. *)
PrintNewline ==
    /\ qemu = "running"
    /\ ~AtLineStart
    /\ out' = Append(out, NL)
    /\ UNCHANGED <<rd, qemu, timedOut>>

(* QEMU exits on its own (firmware shutdown, emulator crash): the write    *)
(* end of the pipe closes and proc.poll() starts returning a code.         *)
QemuExits ==
    /\ qemu = "running"
    /\ qemu' = "exited"
    /\ UNCHANGED <<out, rd, timedOut>>

(* The monotonic clock passes start_time + timeout.  The clock starts      *)
(* once Popen has returned.                                                *)
Tick ==
    /\ qemu # "none"
    /\ ~timedOut
    /\ timedOut' = TRUE
    /\ UNCHANGED <<out, rd, qemu>>

EnvNext ==
    \/ \E k \in LineKinds : PrintText(k)
    \/ PrintNewline
    \/ QemuExits
    \/ Tick

=============================================================================
