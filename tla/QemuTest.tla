------------------------------ MODULE QemuTest ------------------------------
(***************************************************************************)
(* Test-suite mode of scripts/qemu-test.py: run_qemu() and the part of     *)
(* main() that turns its TestResults into the process exit status.         *)
(*                                                                         *)
(* The harness is one thread; its loop is cut into the steps between which *)
(* the environment (QemuProcess: the firmware printing, QEMU exiting, the  *)
(* clock) can move: the select/read/line-processing part of an iteration,  *)
(* the timeout check, and the proc.poll() check with its final drain.      *)
(* The work on lines inside one step touches only the harness's own        *)
(* variables, so doing it atomically loses no interleaving.                *)
(*                                                                         *)
(* A serial line is abstracted to the marker or display class it matches:  *)
(*   "START" "RUN" "PASS" "FAIL" "SKIP" "SUMMARY"  [TEST:...] markers      *)
(*   "EXIT0" "EXIT1"   [TEST:EXIT] 0 and [TEST:EXIT] 1                     *)
(*   "RUNNING"  a line containing "=== Running" (starts with "=== ")       *)
(*   "TESTLN"   a line starting with "Test "                               *)
(*   "DEBUG"    a line starting with "IPC: " or "THREAD_CREATE:"           *)
(*   any other  text that matches none of these                            *)
(***************************************************************************)
EXTENDS Naturals, Sequences, SequencesExt, LineBuffer, QemuProcess

CONSTANTS MaxUnexpected, \* MAX_UNEXPECTED_LINES
          None           \* the Python None

ASSUME MaxUnexpected \in Nat

VARIABLES pc,          \* where run_qemu/main is
          lineBuf,     \* line_buffer
          results,     \* TestResults (tests_run and unexpected_output as lengths)
          testStarted, \* test_started
          closed,      \* proc.stdout and proc.stdin closed
          rc,          \* argument of sys.exit
          parsed,      \* history: the lines handed to parse_test_line, in order
          ended        \* history: how the read loop ended

harnessVars == <<pc, lineBuf, results, testStarted, closed, rc, parsed, ended>>

vars == <<envVars, harnessVars>>

ExitKinds   == {"EXIT0", "EXIT1"}
MarkerKinds == {"START", "RUN", "PASS", "FAIL", "SKIP", "SUMMARY"} \cup ExitKinds

(* int(match.group(1)) of a [TEST:EXIT] line *)
ExitValue(k) == IF k = "EXIT0" THEN 0 ELSE 1

(* parse_test_line: the counters a line changes.  START is acknowledged    *)
(* only; a SUMMARY line is compared with the counters and at most prints a *)
(* warning.                                                                *)
ParseTestLine(k, res) ==
    CASE k = "RUN"  -> [res EXCEPT !.tests_run = @ + 1]
      [] k = "PASS" -> [res EXCEPT !.passed = @ + 1]
      [] k = "FAIL" -> [res EXCEPT !.failed = @ + 1]
      [] k = "SKIP" -> [res EXCEPT !.skipped = @ + 1]
      [] k \in ExitKinds -> [res EXCEPT !.exit_code = ExitValue(k)]
      [] OTHER -> res

(* The display filter: once the session has started, a line that is not   *)
(* echoed ("=== ", "Test "), not a marker and not known debug output is    *)
(* buffered as unexpected while the buffer has room.                       *)
IsUnexpected(k) == k \notin MarkerKinds \cup {"RUNNING", "TESTLN", "DEBUG"}

(* Mutant: the length check on unexpected_output dropped. *)
DisplayUncapped(k, started, res) ==
    IF started /\ IsUnexpected(k) THEN [res EXCEPT !.unexpected = @ + 1] ELSE res

Display(k, started, res) ==
    IF started /\ IsUnexpected(k) /\ res.unexpected < MaxUnexpected
    THEN [res EXCEPT !.unexpected = @ + 1]
    ELSE res

(* while "\n" in line_buffer: one complete line is cut off, parsed, checked *)
(* for the session start, filtered for display; [TEST:EXIT] breaks out.     *)
(* s holds the loop's state: buf, res, started, exit (exit_requested), seen *)
RECURSIVE ProcessLines(_)
ProcessLines(s) ==
    IF ~HasNewline(s.buf) THEN s
    ELSE LET k   == LineOf(SplitOnce(s.buf)[1])
             st  == s.started \/ k = "RUNNING"
             nxt == [buf     |-> SplitOnce(s.buf)[2],
                     res     |-> Display(k, st, ParseTestLine(k, s.res)),
                     started |-> st,
                     exit    |-> k \in ExitKinds,
                     seen    |-> Append(s.seen, k)]
         IN  IF nxt.exit THEN nxt ELSE ProcessLines(nxt)

(* TestResults() with its dataclass defaults. *)
NoResults ==
    [passed |-> 0, failed |-> 0, skipped |-> 0, tests_run |-> 0,
     exit_code |-> None, unexpected |-> 0]

TypeOK ==
    /\ EnvTypeOK
    /\ pc \in {"spawn", "select", "timeout", "poll", "grace", "finally", "main", "done"}
    /\ lineBuf \in Seq(LineKinds \cup {NL})
    /\ results \in [passed : Nat, failed : Nat, skipped : Nat, tests_run : Nat,
                    exit_code : {None, 0, 1, 127}, unexpected : 0..MaxUnexpected]
    /\ testStarted \in BOOLEAN
    /\ closed \in BOOLEAN
    /\ rc \in {None, 0, 1, 127}
    /\ parsed \in Seq(LineKinds)
    /\ ended \in {None, "launch", "exit", "eof", "timeout", "exited", "interrupt"}

Init ==
    /\ EnvInit
    /\ pc = "spawn"
    /\ lineBuf = <<>>
    /\ results = NoResults
    /\ testStarted = FALSE
    /\ closed = FALSE
    /\ rc = None
    /\ parsed = <<>>
    /\ ended = None

(* subprocess.Popen: QEMU starts, or the binary is missing and run_qemu    *)
(* returns at once with exit_code 127.                                     *)
Launch ==
    /\ pc = "spawn"
    /\ \/ /\ qemu' = "running"
          /\ pc' = "select"
          /\ UNCHANGED <<results, ended>>
       \/ /\ results' = [results EXCEPT !.exit_code = 127]
          /\ pc' = "main"
          /\ ended' = "launch"
          /\ UNCHANGED qemu
    /\ UNCHANGED <<out, rd, timedOut, lineBuf, testStarted, closed, rc, parsed>>

(* select() reports the pipe readable when it holds data or is at end of   *)
(* file; read(4096) then returns some of the data, or "" at end of file.   *)
ReadSizes == IF pipe = <<>> THEN {0} ELSE 1..Min({MaxChunk, Len(pipe)})

AtEof == pipe = <<>> /\ qemu # "running"

(* The loop's state after the read of n atoms and the inner while loop. *)
AfterRead(n) ==
    ProcessLines([buf |-> lineBuf \o SubSeq(pipe, 1, n), res |-> results,
                  started |-> testStarted, exit |-> FALSE, seen |-> parsed])

(* The rest of the pass, given the inner loop's final state s: stop at     *)
(* [TEST:EXIT]; at end of file parse the unterminated rest of line_buffer  *)
(* and stop; otherwise go on to the timeout check.                         *)
EndOfPass(n, s) ==
    /\ rd' = rd + n
    /\ lineBuf' = s.buf
    /\ testStarted' = s.started
    /\ \/ /\ s.exit
          /\ results' = s.res
          /\ parsed' = s.seen
          /\ pc' = "grace"
          /\ ended' = "exit"
       \/ /\ ~s.exit /\ n = 0 /\ AtEof
          /\ IF IsBlank(s.buf)
             THEN results' = s.res /\ parsed' = s.seen
             ELSE /\ results' = ParseTestLine(LineOf(s.buf), s.res)
                  /\ parsed' = Append(s.seen, LineOf(s.buf))
          /\ pc' = "finally"
          /\ ended' = "eof"
       \/ /\ ~s.exit /\ ~(n = 0 /\ AtEof)
          /\ results' = s.res
          /\ parsed' = s.seen
          /\ pc' = "timeout"
          /\ UNCHANGED ended

(* One pass of the while loop up to the end-of-file check: select, read,   *)
(* process the complete lines, then EndOfPass.                             *)
ReadChunk ==
    /\ pc = "select"
    /\ \E n \in ReadSizes : EndOfPass(n, AfterRead(n))
    /\ UNCHANGED <<out, qemu, timedOut, closed, rc>>

(* time.sleep(0.1) after [TEST:EXIT], then break. *)
Grace ==
    /\ pc = "grace"
    /\ pc' = "finally"
    /\ UNCHANGED <<envVars, lineBuf, results, testStarted, closed, rc, parsed, ended>>

(* Mutant: the elapsed time is never compared with the timeout. *)
CheckTimeoutIgnored ==
    /\ pc = "timeout"
    /\ pc' = "poll"
    /\ UNCHANGED <<envVars, lineBuf, results, testStarted, closed, rc, parsed, ended>>

(* The timeout check after the lines are processed. *)
CheckTimeout ==
    /\ pc = "timeout"
    /\ \/ /\ timedOut
          /\ results' = [results EXCEPT !.exit_code = 1]
          /\ pc' = "finally"
          /\ ended' = "timeout"
       \/ /\ ~timedOut
          /\ pc' = "poll"
          /\ UNCHANGED <<results, ended>>
    /\ UNCHANGED <<envVars, lineBuf, testStarted, closed, rc, parsed>>

(* Mutant: the drain parses only what read() returned, dropping the        *)
(* partial line already in line_buffer.                                    *)
PollDropsBuffer ==
    /\ pc = "poll"
    /\ \/ /\ qemu = "running"
          /\ pc' = "select"
          /\ UNCHANGED <<rd, results, parsed, ended>>
       \/ /\ qemu # "running"
          /\ rd' = Len(out)
          /\ results' = FoldLeft(LAMBDA r, k : ParseTestLine(k, r), results, NonBlankLines(pipe))
          /\ parsed' = parsed \o NonBlankLines(pipe)
          /\ pc' = "finally"
          /\ ended' = "exited"
    /\ UNCHANGED <<out, qemu, timedOut, lineBuf, testStarted, closed, rc>>

(* Mutant: the loop breaks as soon as QEMU has exited, without the drain. *)
PollNoDrain ==
    /\ pc = "poll"
    /\ \/ qemu = "running" /\ pc' = "select" /\ UNCHANGED ended
       \/ qemu # "running" /\ pc' = "finally" /\ ended' = "exited"
    /\ UNCHANGED <<envVars, lineBuf, results, testStarted, closed, rc, parsed>>

(* proc.poll(): once QEMU has exited, read() the rest of the pipe and, if  *)
(* it is not empty, parse every non-blank piece of line_buffer + remaining *)
(* split on "\n"; then break.                                              *)
Poll ==
    /\ pc = "poll"
    /\ \/ /\ qemu = "running"
          /\ pc' = "select"
          /\ UNCHANGED <<rd, lineBuf, results, parsed, ended>>
       \/ /\ qemu # "running"
          /\ rd' = Len(out)
          /\ LET buf   == lineBuf \o pipe
                 lines == NonBlankLines(buf)
             IN  IF pipe # <<>>
                 THEN /\ lineBuf' = buf
                      /\ results' = FoldLeft(LAMBDA r, k : ParseTestLine(k, r), results, lines)
                      /\ parsed' = parsed \o lines
                 ELSE UNCHANGED <<lineBuf, results, parsed>>
          /\ pc' = "finally"
          /\ ended' = "exited"
    /\ UNCHANGED <<out, qemu, timedOut, testStarted, closed, rc>>

(* KeyboardInterrupt anywhere in the try block: exit_code = 1, then the    *)
(* finally block.                                                          *)
Interrupt ==
    /\ pc \in {"select", "timeout", "poll", "grace"}
    /\ results' = [results EXCEPT !.exit_code = 1]
    /\ pc' = "finally"
    /\ ended' = "interrupt"
    /\ UNCHANGED <<envVars, lineBuf, testStarted, closed, rc, parsed>>

Teardown ==
    /\ pc = "finally"
    /\ \/ qemu = "running" /\ qemu' = "exited"   \* terminate(); wait(timeout=2) returns
       \/ qemu = "running" /\ qemu' = "killed"   \* wait times out; kill(); wait()
       \/ qemu # "running" /\ UNCHANGED qemu
    /\ closed' = TRUE
    /\ results' = IF results.exit_code = None
                  THEN [results EXCEPT !.exit_code = 1] ELSE results
    /\ pc' = "main"
    /\ UNCHANGED <<out, rd, timedOut, lineBuf, testStarted, rc, parsed, ended>>

(* Mutant: NO TESTS RUN exits with results.exit_code as the other verdicts. *)
VerdictNoOverride ==
    /\ pc = "main"
    /\ rc' = results.exit_code
    /\ pc' = "done"
    /\ UNCHANGED <<envVars, lineBuf, results, testStarted, closed, parsed, ended>>

(* main(): FAILED and PASSED exit with results.exit_code; NO TESTS RUN     *)
(* sets it to 1 first.                                                     *)
Verdict ==
    /\ pc = "main"
    /\ LET noTests == results.failed = 0 /\ results.passed = 0
           res     == IF noTests THEN [results EXCEPT !.exit_code = 1] ELSE results
       IN  /\ results' = res
           /\ rc' = res.exit_code
    /\ pc' = "done"
    /\ UNCHANGED <<envVars, lineBuf, testStarted, closed, parsed, ended>>

(* The harness steps that run by themselves (all but the user's Ctrl-C). *)
Harness == Launch \/ ReadChunk \/ Grace \/ CheckTimeout \/ Poll \/ Teardown \/ Verdict

Next == Harness \/ Interrupt \/ (EnvNext /\ UNCHANGED harnessVars)

(* The loop never blocks for more than the 0.1 s select timeout, and the   *)
(* monotonic clock keeps advancing; the firmware and the user owe nothing. *)
Spec == Init /\ [][Next]_vars /\ WF_vars(Harness) /\ WF_vars(Tick /\ UNCHANGED harnessVars)

-----------------------------------------------------------------------------
(* Properties *)

(* Refinement: the lines run_qemu parses are a prefix of the firmware's    *)
(* lines, in order, without duplication or reordering across chunk         *)
(* boundaries, the end-of-file flush and the drain after QEMU exits; once  *)
(* the loop has stopped nothing more is parsed (the lines after the prefix *)
(* are then never parsed).                                                  *)
Lines == INSTANCE SerialLines
    WITH Kinds <- LineKinds, lines <- Printed, seen <- parsed,
         reading <- pc \in {"spawn", "select", "timeout", "poll"}

SerialLinesRefined == Lines!Spec

(* The last [TEST:EXIT] marker among the parsed lines, or None. *)
LastExitMarker ==
    LET exits == SelectSeq(parsed, LAMBDA k : k \in ExitKinds)
    IN  IF exits = <<>> THEN None ELSE Last(exits)

(* main() exits 0 only if some test reported a result, the last exit       *)
(* marker the harness parsed said 0, and the run was not cut short by the   *)
(* timeout or by Ctrl-C: a missing marker, a timeout, an interrupt and a    *)
(* run without results all end in 1, whatever [TEST:EXIT] said.             *)
SuccessNeedsResultAndExitZero ==
    pc = "done" /\ rc = 0 =>
        /\ results.passed + results.failed > 0
        /\ LastExitMarker = "EXIT0"
        /\ ended \in {"exit", "eof", "exited"}

(* When the loop ends at end of file or because QEMU exited (not at an exit *)
(* marker, the timeout or Ctrl-C), every line the firmware printed with its *)
(* newline has been parsed, whichever of the two paths saw the exit.        *)
TerminatedLinesParsed ==
    pc = "done" /\ ended \in {"eof", "exited"} => IsPrefix(Terminated, parsed)

(* The harness always terminates: the firmware may print nothing and QEMU  *)
(* may never exit, and still the timeout ends the run.                     *)
Termination == <>(pc = "done")

-----------------------------------------------------------------------------
(* Statements of the spec that the code does not keep (violation runs). *)

(* Spec 4.1/6: a missing emulator binary gives exit status 127. *)
LaunchErrorExits127 == pc = "done" /\ ended = "launch" => rc = 127

(* Spec 6: exit status 0 means the verdict is a success, so never with a   *)
(* failed test.                                                            *)
ExitZeroOnlyWithoutFailures == pc = "done" /\ rc = 0 => results.failed = 0

(* Spec 4.1/4.2/4.5: at end of stream or process exit the partial trailing *)
(* line is flushed and parsed, so every printed line is parsed.            *)
AllLinesParsed == pc = "done" /\ ended \in {"eof", "exited"} => parsed = Printed

(* Spec 4.5: the loop stops as soon as an exit marker is parsed, so no line *)
(* after an exit marker is ever parsed.                                     *)
NothingParsedAfterExit ==
    \A i \in 1..(Len(parsed) - 1) : parsed[i] \notin ExitKinds

=============================================================================
