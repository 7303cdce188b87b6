----------------------------- MODULE LineBuffer -----------------------------
(***************************************************************************)
(* The line reassembly of scripts/qemu-test.py: the harness appends every  *)
(* chunk read from the emulator's stdout to the string line_buffer and     *)
(* cuts complete lines off its front with line_buffer.split("\n", 1).      *)
(*                                                                         *)
(* A string is a sequence of atoms.  NL is the newline character; every    *)
(* other atom stands for a run of text without a newline (in the harness   *)
(* models, the text of one serial line).  A chunk boundary can fall        *)
(* between any two atoms, so a line can arrive without its newline and be  *)
(* completed by a later read.                                              *)
(***************************************************************************)
EXTENDS Sequences, SequencesExt

NL == "\n"

(* "\n" in line_buffer *)
HasNewline(buf) == \E i \in DOMAIN buf : buf[i] = NL

(* Mutant: the rest starts one atom too late (off by one after the cut). *)
SplitOnceSkipsAtom(buf) ==
    LET i == SelectInSeq(buf, LAMBDA a : a = NL)
    IN  <<SubSeq(buf, 1, i - 1), SubSeq(buf, i + 2, Len(buf))>>

(* line, line_buffer = line_buffer.split("\n", 1): the text before the     *)
(* first newline and the text after it.                                    *)
SplitOnce(buf) ==
    LET i == SelectInSeq(buf, LAMBDA a : a = NL)
    IN  <<SubSeq(buf, 1, i - 1), SubSeq(buf, i + 1, Len(buf))>>

(* buf.split("\n"): every piece between newlines, the last one included    *)
(* (empty when buf ends with a newline).                                   *)
RECURSIVE SplitAll(_)
SplitAll(buf) ==
    IF HasNewline(buf)
    THEN <<SplitOnce(buf)[1]>> \o SplitAll(SplitOnce(buf)[2])
    ELSE <<buf>>

(* line.strip() is empty: in the models a line is either empty or one      *)
(* atom of text, never whitespace only.                                    *)
IsBlank(piece) == piece = <<>>

(* The text atom a non-empty line consists of. *)
LineOf(piece) == piece[1]

(* The non-blank pieces among pieces, as the line atoms they are. *)
LinesOf(pieces) ==
    LET ps == SelectSeq(pieces, LAMBDA p : ~IsBlank(p))
    IN  [i \in DOMAIN ps |-> LineOf(ps[i])]

(* The non-blank lines of buf.split("\n"). *)
NonBlankLines(buf) == LinesOf(SplitAll(buf))

=============================================================================
