----------------------------- MODULE BuildConfig -----------------------------
(***************************************************************************)
(* MakefileConfig of scripts/list_init_hooks.py (ConfigParser of           *)
(* scripts/symmap.py is the same code): a dict filled from three sources   *)
(* in order.                                                               *)
(*   1. parse_defconfig: every board/<dir>/defconfig, in glob() order;     *)
(*      a CONFIG_BOARD_* line records board[key] = <dir>.                  *)
(*   2. parse_config('.config', user_config=True): every key is set to     *)
(*      True; a CONFIG_BOARD_* key also sets BOARD = board[key].           *)
(*   3. parse_makefile(infile), then for hook objects parse_makefile(      *)
(*      'mk/toolchain.mk'): a "key ?= value" line sets key only if absent. *)
(* Lines are abstracted to their shape and key; a value is a model value.  *)
(* A failed split or a missing board key raises: the result is Error.      *)
(***************************************************************************)
EXTENDS Naturals, Sequences, SequencesExt, TLC

CONSTANTS Error,    \* the constructor raised (ValueError, KeyError)
          BoardKeys \* the keys starting with 'CONFIG_BOARD_'

(* The dict before any source is read: the attribute self.board is itself *)
(* a key of the dict (__setattr__ is dict.__setitem__).                    *)
EmptyConfig == [dict |-> <<>>, board |-> <<>>]

(* key.startswith('CONFIG_BOARD_') *)
IsBoardKey(line) == line.key \in BoardKeys

(* key, value = i.split('='): exactly one '=' or ValueError. *)
SplitOk(line) == line.kind = "assign"

DefconfigLine(dir, cfg, line) ==
    CASE cfg = Error                     -> Error
      [] line.kind \in {"blank", "comment"} -> cfg
      [] ~SplitOk(line)                  -> Error
      [] IsBoardKey(line)                -> [cfg EXCEPT !.board = (line.key :> dir) @@ @]
      [] OTHER                           -> cfg

(* parse_config('.config', user_config=True). *)
UserConfigLine(cfg, line) ==
    CASE cfg = Error                     -> Error
      [] line.kind \in {"blank", "comment"} -> cfg
      [] ~SplitOk(line)                  -> Error
      [] IsBoardKey(line) /\ line.key \notin DOMAIN cfg.board -> Error
      [] IsBoardKey(line) ->
           [cfg EXCEPT !.dict = ("BOARD" :> cfg.board[line.key])
                                @@ (line.key :> TRUE) @@ @]
      [] OTHER -> [cfg EXCEPT !.dict = (line.key :> TRUE) @@ @]

(* Mutant: "?=" overwrites whatever is already set. *)
MakefileLineOverwrites(cfg, line) ==
    IF cfg = Error \/ line.kind # "default" THEN cfg
    ELSE [cfg EXCEPT !.dict = (line.key :> line.value) @@ @]

(* parse_makefile: a line splitting on "?=" into exactly two parts sets    *)
(* its key if the key is absent (the try/except around __getattr__).       *)
MakefileLine(cfg, line) ==
    IF cfg = Error \/ line.kind # "default" THEN cfg
    ELSE [cfg EXCEPT !.dict = @ @@ (line.key :> line.value)]

ParseDefconfig(cfg, defconfigs) ==
    FoldLeft(LAMBDA c, d : FoldLeft(LAMBDA c2, l : DefconfigLine(d.dir, c2, l), c, d.lines),
             cfg, defconfigs)

ParseConfig(cfg, lines) == FoldLeft(UserConfigLine, cfg, lines)

ParseMakefile(cfg, lines) == FoldLeft(MakefileLine, cfg, lines)

(* MakefileConfig(infile) followed by the parse_makefile calls of the      *)
(* caller (hook.__init__ reads 'Makefile', then 'mk/toolchain.mk').        *)
MakefileConfig(defconfigs, dotconfig, makefiles) ==
    FoldLeft(ParseMakefile,
             ParseConfig(ParseDefconfig(EmptyConfig, defconfigs), dotconfig),
             makefiles)

=============================================================================
