----------------------------- MODULE MCQemuTest -----------------------------
(***************************************************************************)
(* Instantiates QemuTest for TLC: which serial lines the firmware may      *)
(* print, how many, how a read may cut them, and the unexpected-output     *)
(* cap.                                                                    *)
(***************************************************************************)
EXTENDS QemuTest

(* Just enough to show the code's disagreements with the spec. *)
MCFewKinds == {"PASS", "FAIL", "EXIT0"}

=============================================================================
