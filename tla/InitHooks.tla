------------------------------ MODULE InitHooks ------------------------------
(***************************************************************************)
(* scripts/list_init_hooks.py: every INIT_HOOK(function, level) line that  *)
(* grep finds in the kernel's .c files becomes a hook; the hooks are       *)
(* sorted by level and printed under the level tags of HOOK_LEVEL, a hook  *)
(* under the first tag whose threshold is at least its level.              *)
(*                                                                         *)
(* A grep line is abstracted to its file, its shape and its level         *)
(* expression: a level tag of HOOK_LEVEL plus an offset (what eval() can   *)
(* evaluate), or Opaque (an expression eval() cannot evaluate, whose level *)
(* is then read from the object file with objdump).  The shape is "ok",    *)
(* "colons" (a second ':' on the line, in a path or a trailing comment) or *)
(* "noargs" (INIT_HOOK without a parenthesised pair after it).  Function   *)
(* names, paths and the printed layout are left out.                       *)
(***************************************************************************)
EXTENDS Integers, Sequences, SequencesExt, BuildConfig

CONSTANTS LevelLast, \* INIT_LEVEL_LAST (0xFFFFFFFF in the script)
          Opaque,    \* a level expression eval() raises on
          ObjWord,   \* file -> hex digits objdump shows for its .init_hook
          NoObject   \* ObjWord of a file objdump fails on or shows no word for

ASSUME LevelLast > 16384

(* HOOK_LEVEL, in insertion order: <<tag, threshold>>. *)
HOOK_LEVEL ==
    << <<"INIT_LEVEL_EARLIEST", 1>>,
       <<"INIT_LEVEL_PLATFORM_EARLY", 4096>>,
       <<"INIT_LEVEL_PLATFORM", 8192>>,
       <<"INIT_LEVEL_KERNEL_EARLY", 12288>>,
       <<"INIT_LEVEL_KERNEL", 16384>>,
       <<"INIT_LEVEL_LAST", LevelLast>> >>

LevelNames == {HOOK_LEVEL[i][1] : i \in DOMAIN HOOK_LEVEL}

(* The names the exec() loop defines, as a function tag -> threshold. *)
LevelValue == [n \in LevelNames |->
                 LET i == CHOOSE j \in DOMAIN HOOK_LEVEL : HOOK_LEVEL[j][1] = n
                 IN  HOOK_LEVEL[i][2]]

(* Mutant: the pairs are read in objdump's order (big-endian). *)
ParseFromObjNoReverse(s) ==
    LET pairs == [i \in 1..((Len(s) + 1) \div 2) |->
                    SubSeq(s, 2 * i - 1, IF 2 * i <= Len(s) THEN 2 * i ELSE Len(s))]
    IN  FoldLeft(LAMBDA acc, d : 16 * acc + d, 0, FlattenSeq(pairs))

(* hook.parse_from_obj: cut the hex word into pairs of digits, reverse the *)
(* pairs (the word is little-endian) and read the result as hexadecimal.   *)
ParseFromObj(s) ==
    LET pairs == [i \in 1..((Len(s) + 1) \div 2) |->
                    SubSeq(s, 2 * i - 1, IF 2 * i <= Len(s) THEN 2 * i ELSE Len(s))]
    IN  FoldLeft(LAMBDA acc, d : 16 * acc + d, 0, FlattenSeq(Reverse(pairs)))

(* parse_from_obj as a whole: config.BOARD and config.CROSS_COMPILE      *)
(* raise KeyError when no source set them; check_output raises            *)
(* CalledProcessError when objdump fails (no object file), and the         *)
(* indexing [4] / [2] IndexError when it shows no .init_hook word: all     *)
(* abort the script (Error, NoObject).                                     *)
ObjLevel(config, file) ==
    IF {"BOARD", "CROSS_COMPILE"} \subseteq DOMAIN config.dict /\ ObjWord[file] # NoObject
    THEN ParseFromObj(ObjWord[file])
    ELSE Error

(* hook.parse: eval(hook_level), or the objdump word of the hook's file    *)
(* when eval raises.                                                       *)
HookLevelInt(config, line) ==
    IF line.expr = Opaque
    THEN ObjLevel(config, line.file)
    ELSE LevelValue[line.expr.tag] + line.expr.off

(* hook.parse: files, hooks = s.split(':') raises ValueError unless there *)
(* are exactly two parts, and re.search(...).groups() raises               *)
(* AttributeError when there is no "(function,level)".                     *)
ParseOk(line) == line.text = "ok"

(* hook(s): __init__ builds the configuration (MakefileConfig('Makefile') *)
(* then parse_makefile('mk/toolchain.mk'), config, which is Error when    *)
(* that raises) before parse(s); any exception aborts (Error).            *)
Hook(config, line) ==
    IF config = Error \/ ~ParseOk(line) THEN Error
    ELSE LET lv == HookLevelInt(config, line)
         IN  IF lv = Error THEN Error ELSE [file |-> line.file, level |-> lv]

(* parse_hooks: the list comprehension builds every hook first, so one     *)
(* line hook() raises on aborts the script (Error) before anything is      *)
(* printed; then sorted() by __lt__ (hook_level_int), which is stable, so  *)
(* hooks of one level keep grep's order.  With no grep line no hook, and  *)
(* so no configuration, is ever built.                                     *)
ParseHooks(config, lines) ==
    LET hs == [i \in DOMAIN lines |-> Hook(config, lines[i])]
    IN  IF \E i \in DOMAIN hs : hs[i] = Error THEN Error
        ELSE LET idx == SetToSortSeq(DOMAIN hs, LAMBDA i, j :
                            \/ hs[i].level < hs[j].level
                            \/ hs[i].level = hs[j].level /\ i < j)
             IN  [k \in DOMAIN idx |-> hs[idx[k]]]

(* Mutant: last_level is never advanced past 0. *)
PrintByLevelNoAdvance(hooks) ==
    LET Step(acc, lv) ==
          [last |-> acc.last,
           out  |-> Append(acc.out, <<lv[1], SelectSeq(hooks, LAMBDA h :
                        h.level > acc.last /\ h.level <= lv[2])>>)]
    IN  FoldLeft(Step, [last |-> 0, out |-> <<>>], HOOK_LEVEL).out

(* print_by_level: for each tag, the hooks with last_level < level <=      *)
(* threshold, in list order ("--- None ---" when there are none); then    *)
(* last_level becomes the threshold.                                       *)
PrintByLevel(hooks) ==
    LET Step(acc, lv) ==
          [last |-> lv[2],
           out  |-> Append(acc.out, <<lv[1], SelectSeq(hooks, LAMBDA h :
                        h.level > acc.last /\ h.level <= lv[2])>>)]
    IN  FoldLeft(Step, [last |-> 0, out |-> <<>>], HOOK_LEVEL).out

(* __main__: the grep lines, empty ones filtered out beforehand; config   *)
(* is what hook.__init__'s MakefileConfig construction yields.            *)
ListInitHooks(config, lines) ==
    LET ph == ParseHooks(config, lines) IN IF ph = Error THEN Error ELSE PrintByLevel(ph)

=============================================================================
