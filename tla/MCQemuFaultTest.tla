--------------------------- MODULE MCQemuFaultTest --------------------------
(***************************************************************************)
(* Instantiates QemuFaultTest for TLC.                                     *)
(***************************************************************************)
EXTENDS QemuFaultTest

(* Both expect markers, a bare panic, a pattern match with and without     *)
(* "panic", and a line that matches nothing.                               *)
MCFaultKinds == {"EXPECT_MPU", "EXPECT_CANARY", "PANIC", "MEMFAULT", "PANIC_MEMFAULT", "OTHER"}

=============================================================================
