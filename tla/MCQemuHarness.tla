---------------------------- MODULE MCQemuHarness ---------------------------
(***************************************************************************)
(* Instantiates QemuHarness for TLC: the serial lines each mode's firmware *)
(* may print.                                                              *)
(***************************************************************************)
EXTENDS QemuHarness

(* Suite mode: results, both exit codes, the start of the session, text   *)
(* that is unexpected after it and known debug text.                      *)
MCSuiteKinds == {"PASS", "FAIL", "EXIT0", "EXIT1", "RUNNING", "OTHER", "DEBUG"}

(* Fault mode: both expect markers, a bare panic, a pattern match with and *)
(* without "panic", and a line that matches nothing.                       *)
MCFaultKinds == {"EXPECT_MPU", "EXPECT_CANARY", "PANIC", "MEMFAULT", "PANIC_MEMFAULT", "OTHER"}

=============================================================================
