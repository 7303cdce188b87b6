---------------------------- MODULE QemuFaultTest ---------------------------
(***************************************************************************)
(* Fault-test mode of scripts/qemu-test.py (--fault): run_qemu_fault() and *)
(* the part of main() that exits with its exit code.  The firmware is      *)
(* expected to announce a fault with [FAULT:EXPECT] <type> and then panic; *)
(* the harness succeeds when it sees a panic of that type.                 *)
(*                                                                         *)
(* The loop is cut into steps as in QemuTest.  A serial line is abstracted *)
(* to what the detection rules see in it:                                  *)
(*   "EXPECT_MPU"     [FAULT:EXPECT] mpu_write_to_code                     *)
(*   "EXPECT_CANARY"  [FAULT:EXPECT] stack_canary_trip  (contains "canary")*)
(*   "PANIC"          contains "panic" in any case, matches no pattern     *)
(*   "MEMFAULT"       matches a mpu_write_to_code pattern, no "panic"      *)
(*   "CANARY"         matches a stack_canary_trip pattern, no "panic"      *)
(*   "PANIC_MEMFAULT" contains "panic" and a mpu_write_to_code pattern     *)
(*   any other        matches nothing                                      *)
(***************************************************************************)
EXTENDS Naturals, Sequences, SequencesExt, LineBuffer, QemuProcess

CONSTANTS MaxOutput, \* MAX_UNEXPECTED_LINES, the cap on all_output
          None       \* the Python None

ASSUME MaxOutput \in Nat

VARIABLES pc,       \* where run_qemu_fault/main is
          lineBuf,  \* line_buffer
          results,  \* FaultTestResults (all_output as its length)
          closed,   \* proc.stdout and proc.stdin closed
          rc,       \* argument of sys.exit
          parsed,   \* history: the lines run through the detection rules
          ended     \* history: how the read loop ended

harnessVars == <<pc, lineBuf, results, closed, rc, parsed, ended>>

vars == <<envVars, harnessVars>>

(* The fault type a [FAULT:EXPECT] line names. *)
ExpectedBy == [EXPECT_MPU |-> "mpu_write_to_code", EXPECT_CANARY |-> "stack_canary_trip"]

ExpectKinds == DOMAIN ExpectedBy

(* "panic" in line.lower() or "PANIC" in line *)
HasPanic(k) == k \in {"PANIC", "PANIC_MEMFAULT"}

(* re.search(p, line, re.IGNORECASE) for some p in FAULT_PANIC_PATTERNS     *)
(* [fault]: "Memory fault", "MEMFAULT", "DACCVIOL" for mpu_write_to_code;   *)
(* "Stack overflow", "canary" for stack_canary_trip, which the expect line  *)
(* of that fault contains itself.                                           *)
MatchesPattern(fault, k) ==
    \/ fault = "mpu_write_to_code" /\ k \in {"MEMFAULT", "PANIC_MEMFAULT"}
    \/ fault = "stack_canary_trip" /\ k \in {"CANARY", "EXPECT_CANARY"}

(* A line recorded as the panic. *)
Panic(res, k) == [res EXCEPT !.panic_found = TRUE, !.panic_message = k]

(* Mutant: the expect marker stores match.group(0), the whole marker, as  *)
(* the fault type instead of group(1).                                     *)
ScanLineWholeMatch(k, res) ==
    LET r1 == IF res.all_output < MaxOutput THEN [res EXCEPT !.all_output = @ + 1] ELSE res
        r2 == IF k \in ExpectKinds THEN [r1 EXCEPT !.expected_fault = k] ELSE r1
        r3 == IF HasPanic(k) THEN Panic(r2, k) ELSE r2
    IN  IF r3.expected_fault # None /\ MatchesPattern(r3.expected_fault, k)
        THEN Panic(r3, k) ELSE r3

(* The detection rules for one non-blank line of the read loop: store it   *)
(* (bounded), take the fault type of an expect marker, record a line with  *)
(* "panic", then a line matching a pattern of the expected fault.          *)
ScanLine(k, res) ==
    LET r1 == IF res.all_output < MaxOutput THEN [res EXCEPT !.all_output = @ + 1] ELSE res
        r2 == IF k \in ExpectKinds THEN [r1 EXCEPT !.expected_fault = ExpectedBy[k]] ELSE r1
        r3 == IF HasPanic(k) THEN Panic(r2, k) ELSE r2
    IN  IF r3.expected_fault # None /\ MatchesPattern(r3.expected_fault, k)
        THEN Panic(r3, k) ELSE r3

(* The drain after QEMU exits stores every line, unbounded, and looks for  *)
(* "panic" only.                                                           *)
DrainLine(res, k) ==
    LET r1 == [res EXCEPT !.all_output = @ + 1]
    IN  IF HasPanic(k) THEN Panic(r1, k) ELSE r1

(* Mutant: the verdict does not ask for an expected fault. *)
FaultExitCodeNoExpect(res) ==
    IF res.panic_found /\ HasPanic(res.panic_message) THEN 0 ELSE 1

(* After the loop: success needs an expected fault and a panic whose       *)
(* message matches a pattern of that fault or merely contains "panic".     *)
FaultExitCode(res) ==
    IF /\ res.expected_fault # None
       /\ res.panic_found
       /\ MatchesPattern(res.expected_fault, res.panic_message) \/ HasPanic(res.panic_message)
    THEN 0 ELSE 1

(* FaultTestResults() with its dataclass defaults. *)
NoFaultResults ==
    [expected_fault |-> None, panic_found |-> FALSE, panic_message |-> "",
     all_output |-> 0, exit_code |-> 1]

TypeOK ==
    /\ EnvTypeOK
    /\ pc \in {"spawn", "select", "timeout", "poll", "finally", "main", "done"}
    /\ lineBuf \in Seq(LineKinds \cup {NL})
    /\ results \in [expected_fault : {None} \cup Range(ExpectedBy),
                    panic_found : BOOLEAN, panic_message : {""} \cup LineKinds,
                    all_output : Nat, exit_code : {0, 1, 127}]
    /\ closed \in BOOLEAN
    /\ rc \in {None, 0, 1, 127}
    /\ parsed \in Seq(LineKinds)
    /\ ended \in {None, "launch", "eof", "timeout", "exited", "interrupt"}

Init ==
    /\ EnvInit
    /\ pc = "spawn"
    /\ lineBuf = <<>>
    /\ results = NoFaultResults
    /\ closed = FALSE
    /\ rc = None
    /\ parsed = <<>>
    /\ ended = None

(* Mutant: a missing binary returns the default exit code 1. *)
LaunchNo127 ==
    /\ pc = "spawn"
    /\ \/ qemu' = "running" /\ pc' = "select" /\ UNCHANGED ended
       \/ pc' = "main" /\ ended' = "launch" /\ UNCHANGED qemu
    /\ UNCHANGED <<out, rd, timedOut, lineBuf, results, closed, rc, parsed>>

(* subprocess.Popen: QEMU starts, or the binary is missing and             *)
(* run_qemu_fault returns at once with exit_code 127.                      *)
Launch ==
    /\ pc = "spawn"
    /\ \/ /\ qemu' = "running"
          /\ pc' = "select"
          /\ UNCHANGED <<results, ended>>
       \/ /\ results' = [results EXCEPT !.exit_code = 127]
          /\ pc' = "main"
          /\ ended' = "launch"
          /\ UNCHANGED qemu
    /\ UNCHANGED <<out, rd, timedOut, lineBuf, closed, rc, parsed>>

ReadSizes == IF pipe = <<>> THEN {0} ELSE 1..Min({MaxChunk, Len(pipe)})

AtEof == pipe = <<>> /\ qemu # "running"

(* The complete non-blank lines of buf, and what is left after them. *)
CompleteLines(buf) == LinesOf(Front(SplitAll(buf)))
Rest(buf) == Last(SplitAll(buf))

(* One pass of the loop up to the end-of-file check: select, read, run     *)
(* every complete line through the detection rules; at end of file break  *)
(* (the unterminated rest of line_buffer is not looked at).                *)
ReadChunk ==
    /\ pc = "select"
    /\ \E n \in ReadSizes :
        LET buf == lineBuf \o SubSeq(pipe, 1, n)
        IN  /\ rd' = rd + n
            /\ lineBuf' = Rest(buf)
            /\ results' = FoldLeft(LAMBDA r, k : ScanLine(k, r), results, CompleteLines(buf))
            /\ parsed' = parsed \o CompleteLines(buf)
            /\ \/ n = 0 /\ AtEof /\ pc' = "finally" /\ ended' = "eof"
               \/ ~(n = 0 /\ AtEof) /\ pc' = "timeout" /\ UNCHANGED ended
    /\ UNCHANGED <<out, qemu, timedOut, closed, rc>>

(* Mutant: the elapsed time is never compared with the timeout. *)
CheckTimeoutIgnored ==
    /\ pc = "timeout"
    /\ pc' = "poll"
    /\ UNCHANGED <<envVars, lineBuf, results, closed, rc, parsed, ended>>

(* The timeout check: break, leaving the verdict to what was seen. *)
CheckTimeout ==
    /\ pc = "timeout"
    /\ \/ timedOut /\ pc' = "finally" /\ ended' = "timeout"
       \/ ~timedOut /\ pc' = "poll" /\ UNCHANGED ended
    /\ UNCHANGED <<envVars, lineBuf, results, closed, rc, parsed>>

(* proc.poll(): once QEMU has exited, read() the rest of the pipe, run     *)
(* each non-blank piece of remaining.split("\n") through DrainLine, break. *)
Poll ==
    /\ pc = "poll"
    /\ \/ /\ qemu = "running"
          /\ pc' = "select"
          /\ UNCHANGED <<rd, results, parsed, ended>>
       \/ /\ qemu # "running"
          /\ rd' = Len(out)
          /\ results' = FoldLeft(DrainLine, results, NonBlankLines(pipe))
          /\ parsed' = parsed \o NonBlankLines(pipe)
          /\ pc' = "finally"
          /\ ended' = "exited"
    /\ UNCHANGED <<out, qemu, timedOut, lineBuf, closed, rc>>

(* KeyboardInterrupt in the try block: a message, then the finally block. *)
Interrupt ==
    /\ pc \in {"select", "timeout", "poll"}
    /\ pc' = "finally"
    /\ ended' = "interrupt"
    /\ UNCHANGED <<envVars, lineBuf, results, closed, rc, parsed>>

Teardown ==
    /\ pc = "finally"
    /\ \/ qemu = "running" /\ qemu' = "exited"   \* terminate(); wait(timeout=2) returns
       \/ qemu = "running" /\ qemu' = "killed"   \* wait times out; kill(); wait()
       \/ qemu # "running" /\ UNCHANGED qemu
    /\ closed' = TRUE
    /\ results' = [results EXCEPT !.exit_code = FaultExitCode(results)]
    /\ pc' = "main"
    /\ UNCHANGED <<out, rd, timedOut, lineBuf, rc, parsed, ended>>

(* main(): sys.exit(results.exit_code) *)
Verdict ==
    /\ pc = "main"
    /\ rc' = results.exit_code
    /\ pc' = "done"
    /\ UNCHANGED <<envVars, lineBuf, results, closed, parsed, ended>>

Harness == Launch \/ ReadChunk \/ CheckTimeout \/ Poll \/ Teardown \/ Verdict

Next == Harness \/ Interrupt \/ (EnvNext /\ UNCHANGED harnessVars)

(* As in QemuTest: the loop never blocks for long and the clock advances. *)
Spec == Init /\ [][Next]_vars /\ WF_vars(Harness) /\ WF_vars(Tick /\ UNCHANGED harnessVars)

-----------------------------------------------------------------------------
(* Properties *)

(* A fault test exits 0 only if the firmware announced a fault with       *)
(* [FAULT:EXPECT] and printed a line that contains "panic" or matches a    *)
(* pattern of an announced fault; a panic without any expect marker fails, *)
(* whether it came through the read loop or the drain after QEMU exited.   *)
SuccessNeedsExpectAndPanic ==
    pc = "done" /\ rc = 0 =>
        \E i, j \in DOMAIN parsed :
            /\ parsed[i] \in ExpectKinds
            /\ HasPanic(parsed[j]) \/ MatchesPattern(ExpectedBy[parsed[i]], parsed[j])

(* A missing emulator binary ends the fault test with 127. *)
LaunchErrorExits127 == pc = "done" /\ ended = "launch" => rc = 127

(* The fault test always terminates. *)
Termination == <>(pc = "done")

-----------------------------------------------------------------------------
(* Statements of the spec that the code does not keep (violation runs). *)

(* Spec 4.1 / 5: lines are processed in arrival order and none is lost:  *)
(* the lines run through the detection rules are always a prefix of the   *)
(* firmware's lines, and all of them once the loop has ended on end of    *)
(* file (which flushes the partial trailing line) or on QEMU's exit (which *)
(* drains the buffered bytes).                                             *)
AllLinesParsed ==
    /\ IsPrefix(parsed, Printed)
    /\ pc = "done" /\ ended \in {"eof", "exited"} => parsed = Printed

(* Spec 3 / 4.4: the first [FAULT:EXPECT] wins. Stated of the lines the  *)
(* read loop ran through its rules (385-432): the drain after QEMU exits   *)
(* (ended = "exited") applies a different rule set and is left out.       *)
FirstExpectWins ==
    LET ex == SelectSeq(parsed, LAMBDA k : k \in ExpectKinds)
    IN  ended # "exited" /\ ex # <<>> => results.expected_fault = ExpectedBy[Head(ex)]

(* Spec 8: an expect marker with no panic-bearing line after it fails: the *)
(* marker line alone never makes the test pass.                            *)
NoPassOnMarkerAlone ==
    pc = "done" /\ rc = 0 =>
        \E i \in DOMAIN parsed :
            /\ parsed[i] \notin ExpectKinds
            /\ HasPanic(parsed[i]) \/ MatchesPattern(results.expected_fault, parsed[i])

(* Spec 3 and 4.4: every non-empty line goes through the same rules,      *)
(* however it reached the harness: all_output keeps at most 100 lines, an  *)
(* expect marker sets the fault type, a line with "panic" or a pattern of  *)
(* the expected fault is the panic.  So once the loop is over, the results *)
(* are what the read loop's rules give on the lines seen, in order, also   *)
(* for the lines of the drain after QEMU exited.                           *)
DetectionRulesOnEveryLine ==
    pc \in {"main", "done"} /\ ended # "launch" =>
        [results EXCEPT !.exit_code = NoFaultResults.exit_code]
            = FoldLeft(LAMBDA r, k : ScanLine(k, r), NoFaultResults, parsed)

=============================================================================
