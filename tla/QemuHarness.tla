----------------------------- MODULE QemuHarness ----------------------------
(***************************************************************************)
(* main() of scripts/qemu-test.py: argparse and the two checks before any  *)
(* process is spawned, then run_qemu_fault() (--fault) or run_qemu() and   *)
(* the verdict of the chosen mode.  The two modes are the modules          *)
(* QemuFaultTest and QemuTest, instantiated with their own harness         *)
(* variables and sharing the one QEMU process, pipe and clock.            *)
(***************************************************************************)
EXTENDS Naturals, Sequences

CONSTANTS SuiteKinds,    \* serial lines the firmware prints in a suite run
          FaultKinds,    \* serial lines the firmware prints in a fault run
          MaxLines, MaxChunk, MaxUnexpected, MaxOutput, None

VARIABLES out, rd, qemu, timedOut,                       \* QemuProcess
          mode,   \* "args" before dispatch, then "suite" or "fault"
          argRc,  \* sys.exit status of argparse or the checks, or None
          spc, sLineBuf, sResults, sStarted, sClosed, sRc, sParsed, sEnded,
          fpc, fLineBuf, fResults, fClosed, fRc, fParsed, fEnded

envVars   == <<out, rd, qemu, timedOut>>
suiteVars == <<spc, sLineBuf, sResults, sStarted, sClosed, sRc, sParsed, sEnded>>
faultVars == <<fpc, fLineBuf, fResults, fClosed, fRc, fParsed, fEnded>>
vars      == <<envVars, mode, argRc, suiteVars, faultVars>>

Suite == INSTANCE QemuTest
    WITH LineKinds <- SuiteKinds, pc <- spc, lineBuf <- sLineBuf,
         results <- sResults, testStarted <- sStarted, closed <- sClosed,
         rc <- sRc, parsed <- sParsed, ended <- sEnded

Fault == INSTANCE QemuFaultTest
    WITH LineKinds <- FaultKinds, pc <- fpc, lineBuf <- fLineBuf,
         results <- fResults, closed <- fClosed, rc <- fRc,
         parsed <- fParsed, ended <- fEnded

TypeOK ==
    /\ mode \in {"args", "suite", "fault"}
    /\ argRc \in {None, 1, 2}
    /\ mode # "fault" => Suite!TypeOK      \* out holds the mode's line kinds
    /\ mode # "suite" => Fault!TypeOK

Init ==
    /\ mode = "args"
    /\ argRc = None
    /\ Suite!Init
    /\ Fault!Init

(* parser.parse_args() exits 2 on a missing ELF argument or a timeout that *)
(* is not an int; a timeout <= 0 or an ELF path that does not exist exits  *)
(* 1; otherwise args.fault picks the mode.                                 *)
ParseArgs ==
    /\ mode = "args"
    /\ argRc = None
    /\ \/ argRc' = 2 /\ UNCHANGED mode                 \* argparse error
       \/ argRc' = 1 /\ UNCHANGED mode                 \* bad timeout or ELF
       \/ mode' = "fault" /\ UNCHANGED argRc
       \/ mode' = "suite" /\ UNCHANGED argRc
    /\ UNCHANGED <<envVars, suiteVars, faultVars>>

SuiteStep == mode = "suite" /\ Suite!Harness /\ UNCHANGED <<mode, argRc, faultVars>>
FaultStep == mode = "fault" /\ Fault!Harness /\ UNCHANGED <<mode, argRc, suiteVars>>

(* The user's Ctrl-C and the environment, in the mode that runs. *)
Others ==
    \/ mode = "suite" /\ Suite!Interrupt /\ UNCHANGED <<mode, argRc, faultVars>>
    \/ mode = "fault" /\ Fault!Interrupt /\ UNCHANGED <<mode, argRc, suiteVars>>
    \/ mode = "suite" /\ Suite!EnvNext /\ UNCHANGED <<mode, argRc, suiteVars, faultVars>>
    \/ mode = "fault" /\ Fault!EnvNext /\ UNCHANGED <<mode, argRc, suiteVars, faultVars>>

Clock == Suite!Tick /\ UNCHANGED <<mode, argRc, suiteVars, faultVars>>

Next == ParseArgs \/ SuiteStep \/ FaultStep \/ Others

(* As in each mode: the script's own steps and the clock are fair. *)
Spec == Init /\ [][Next]_vars
        /\ WF_vars(ParseArgs) /\ WF_vars(SuiteStep) /\ WF_vars(FaultStep)
        /\ WF_vars(Clock)

-----------------------------------------------------------------------------
(* Properties *)

(* Refinement, in a suite run: the lines run_qemu parses are a prefix of   *)
(* the firmware's lines, in order, without duplication or reordering       *)
(* across chunk boundaries, the end-of-file flush and the drain after QEMU *)
(* exits; once the loop has stopped nothing more is parsed.                *)
SuiteLines == INSTANCE SerialLines
    WITH Kinds <- SuiteKinds,
         lines <- IF mode = "suite" THEN Suite!Printed ELSE <<>>,
         seen <- sParsed,
         reading <- spc \in {"spawn", "select", "timeout", "poll"}

SerialLinesRefined == SuiteLines!Spec

(* A suite run exits 0 only if some test reported a result, the last exit *)
(* marker parsed said 0, and neither the timeout nor Ctrl-C cut it short.  *)
SuccessNeedsResultAndExitZero == Suite!SuccessNeedsResultAndExitZero

(* When a suite run's loop ends at end of file or on QEMU's exit, every    *)
(* line the firmware printed with its newline has been parsed, whichever  *)
(* of the two paths saw the exit.                                          *)
TerminatedLinesParsed == Suite!TerminatedLinesParsed

(* A fault run exits 0 only if the firmware printed an expect marker and   *)
(* a line that shows a panic (one with "panic" or a pattern of the fault). *)
SuccessNeedsExpectAndPanic == Fault!SuccessNeedsExpectAndPanic

(* A missing QEMU binary makes a fault run exit 127. *)
LaunchErrorExits127 == Fault!LaunchErrorExits127

(* main() always reaches sys.exit: at the argument checks, or after the    *)
(* chosen mode's run, even when the firmware prints nothing and QEMU never *)
(* exits.                                                                  *)
Termination == <>(argRc # None \/ spc = "done" \/ fpc = "done")

=============================================================================
