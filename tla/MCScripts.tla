------------------------------ MODULE MCScripts ------------------------------
(***************************************************************************)
(* Checks the pure algorithms of scripts/ against declarative reference   *)
(* definitions over bounded inputs: the hook listing of                    *)
(* list_init_hooks.py (InitHooks), the                                     *)
(* configuration merge (BuildConfig) and the symbol lookup of symmap.py    *)
(* (Symmap).  Init picks which algorithm (part) and one input; the state   *)
(* never changes, so every distinct input is one state.                    *)
(***************************************************************************)
EXTENDS Integers, Sequences, SequencesExt, FiniteSets, TLC,
        InitHooks, Symmap

CONSTANTS F1, F2, F3,       \* source files holding INIT_HOOKs
          D1, D2,           \* board directories
          KB1, KB2, K1,     \* CONFIG_BOARD_* keys and another key
          V1, V2,           \* Makefile values
          N1, N2            \* symbol names

VARIABLES part, input
vars == <<part, input>>

-----------------------------------------------------------------------------
(* Inputs *)

(* objdump words: the first two bytes of a .init_hook section. *)
(* F3's object is missing, or its dump shows no word.                     *)
MCObjWord == (F1 :> <<0, 0, 1, 0>>) @@ (F2 :> <<0, 1, 0, 0>>) @@ (F3 :> NoObject)

LevelExprs ==
    [tag : {"INIT_LEVEL_EARLIEST", "INIT_LEVEL_PLATFORM_EARLY", "INIT_LEVEL_LAST"},
     off : {-1, 0, 1}] \cup {Opaque}

HookLines == [file : {F1, F2}, text : {"ok"}, expr : LevelExprs]
             \cup [file : {F1}, text : {"colons", "noargs"}, expr : {Opaque}]
             \cup [file : {F3}, text : {"ok"}, expr : {Opaque}]

(* What hook.__init__'s configuration yields: a full one, one without     *)
(* CROSS_COMPILE, or a raise.                                              *)
HookConfig  == [dict |-> ("BOARD" :> D1) @@ ("CROSS_COMPILE" :> V1), board |-> <<>>]
HookConfigs == {HookConfig, [dict |-> ("BOARD" :> D1), board |-> <<>>], Error}

CfgLine(kind, key) == [kind |-> kind, key |-> key, value |-> V1]

DefconfigFile(d, l) == [dir |-> d, lines |-> <<l>>]
DefLines  == {CfgLine("assign", KB1), CfgLine("assign", KB2),
              CfgLine("multi", KB1), CfgLine("comment", KB1)}
(* glob('board/*/defconfig'), in either order *)
Defconfigs ==
    {<<>>} \cup {<<DefconfigFile(d, l)>> : d \in {D1, D2}, l \in DefLines}
    \cup {<<DefconfigFile(D1, l), DefconfigFile(D2, m)>> : l \in DefLines, m \in DefLines}
    \cup {<<DefconfigFile(D2, l), DefconfigFile(D1, m)>> : l \in DefLines, m \in DefLines}
DotLines  == {CfgLine("assign", KB1), CfgLine("assign", KB2),
              CfgLine("assign", K1), CfgLine("multi", K1), CfgLine("comment", K1)}
MakeLines == {[kind |-> "default", key |-> K1, value |-> V1],
              [kind |-> "default", key |-> K1, value |-> V2],
              [kind |-> "default", key |-> "BOARD", value |-> V1],
              [kind |-> "other", key |-> K1, value |-> V1]}
ConfigInputs ==
    [defconfigs : Defconfigs, dotconfig : BoundedSeq(DotLines, 2),
     makefiles : {<<m, t>> : m \in BoundedSeq(MakeLines, 1), t \in BoundedSeq(MakeLines, 1)}]

Symbols == BoundedSeq([name : {N1, N2}, addr : {<<1>>, <<1, 0>>, <<15, 15>>}], 3)

(* f9_symmap.c as the build writes it: the address array, then the names, *)
(* both in symbol order.                                                    *)
SymmapFile(syms) ==
    [i \in DOMAIN syms |-> [kind |-> "entry", addr |-> syms[i].addr]]
    \o [i \in DOMAIN syms |-> [kind |-> "string", name |-> syms[i].name]]

SymConfigs == {Error, EmptyConfig, [dict |-> ("BOARD" :> D1), board |-> <<>>]}

SymInputs ==
    [syms : Symbols, present : BOOLEAN, config : SymConfigs,
     argv : {<<>>, <<N1>>, <<N2>>, <<N1, N2>>}]

Init ==
    \/ part = "hooks"   /\ input \in [config : HookConfigs, lines : BoundedSeq(HookLines, 3)]
    \/ part = "objword" /\ input \in BoundedSeq({0, 1, 10, 15}, 4)
    \/ part = "config"  /\ input \in ConfigInputs
    \/ part = "symmap"  /\ input \in SymInputs

Next == UNCHANGED vars

Spec == Init /\ [][Next]_vars

-----------------------------------------------------------------------------
(* Init hook listing (list_init_hooks.py) *)

Floor(i)      == IF i = 1 THEN 0 ELSE HOOK_LEVEL[i - 1][2]
OfLevel(s, v) == SelectSeq(s, LAMBDA h : h.level = v)
Flat(listing) == FlattenSeq([i \in DOMAIN listing |-> listing[i][2]])

(* print_by_level prints the tags of HOOK_LEVEL in order; under each tag   *)
(* the hooks above the previous threshold and up to its own; every hook    *)
(* whose level lies in 1..INIT_LEVEL_LAST is printed exactly once, the     *)
(* whole listing in non-decreasing level, hooks of one level in grep order *)
(* (the order the header comment says it keeps).  Stated of inputs the    *)
(* script can list: a full configuration, well-formed lines and objects   *)
(* objdump reads.                                                         *)
Listable(in) ==
    /\ in.config = HookConfig
    /\ \A g \in DOMAIN in.lines :
          ParseOk(in.lines[g]) /\ (in.lines[g].expr = Opaque => ObjWord[in.lines[g].file] # NoObject)

HooksListedByLevel ==
    part = "hooks" /\ Listable(input) =>
        LET out    == ListInitHooks(input.config, input.lines)
            listed == Flat(out)
            grep   == [i \in DOMAIN input.lines |-> Hook(input.config, input.lines[i])]
        IN  /\ [i \in DOMAIN out |-> out[i][1]]
                  = [i \in DOMAIN HOOK_LEVEL |-> HOOK_LEVEL[i][1]]
            /\ \A i \in DOMAIN out : \A k \in DOMAIN out[i][2] :
                  Floor(i) < out[i][2][k].level /\ out[i][2][k].level <= HOOK_LEVEL[i][2]
            /\ \A v \in {grep[i].level : i \in DOMAIN grep} :
                  0 < v /\ v <= LevelLast => OfLevel(listed, v) = OfLevel(grep, v)
            /\ IsSorted([k \in DOMAIN listed |-> listed[k].level], <=)

(* The script lists all init hooks (its header comment): it prints a       *)
(* listing, and every INIT_HOOK line grep finds is in it (of inputs it    *)
(* can list at all).                                                       *)
EveryHookListed ==
    part = "hooks" /\ Listable(input) =>
        LET out == ListInitHooks(input.config, input.lines)
        IN  out # Error /\ Len(Flat(out)) = Len(input.lines)

(* Reference: the little-endian value of the bytes objdump shows. *)
LittleEndian(w) ==
    LET bytes == [k \in 1..(Len(w) \div 2) |-> 16 * w[2 * k - 1] + w[2 * k]]
    IN  FoldRight(LAMBDA b, acc : b + 256 * acc, bytes, 0)

(* parse_from_obj reads the level stored in the object file: for a word of *)
(* whole bytes it is the little-endian value of those bytes.               *)
ObjLevelIsLittleEndian ==
    part = "objword" /\ Len(input) % 2 = 0 => ParseFromObj(input) = LittleEndian(input)

-----------------------------------------------------------------------------
(* Configuration merge (MakefileConfig / ConfigParser) *)

CfgResult     == MakefileConfig(input.defconfigs, input.dotconfig, input.makefiles)
DefLinesOf    == UNION {Range(d.lines) : d \in Range(input.defconfigs)}
DotAssigned   == {l.key : l \in {x \in Range(input.dotconfig) : x.kind = "assign"}}
DeclaredBoard == {l.key : l \in {x \in DefLinesOf : x.kind = "assign"}} \cap BoardKeys
MakeDefaults  == SelectSeq(FlattenSeq(input.makefiles), LAMBDA l : l.kind = "default")
FirstDefault(k) ==
    MakeDefaults[CHOOSE i \in DOMAIN MakeDefaults :
                    MakeDefaults[i].key = k
                    /\ \A j \in 1..(i - 1) : MakeDefaults[j].key # k].value

(* Reference for the merge: the constructor raises exactly when a line     *)
(* has no single '=' or .config names a board no defconfig declares;       *)
(* otherwise .config keys are True, BOARD is the directory of a defconfig  *)
(* declaring the .config board, and every other key has the value of its  *)
(* first "?=" line across Makefile then mk/toolchain.mk ("set only if      *)
(* absent": a later file never overrides .config or an earlier line).      *)
ConfigMergeMatchesReference ==
    part = "config" =>
        LET r == CfgResult
            bad == \E l \in DefLinesOf \cup Range(input.dotconfig) : l.kind = "multi"
            used == DotAssigned \cap BoardKeys
            defaults == {l.key : l \in Range(MakeDefaults)}
        IN  /\ (r = Error) <=> (bad \/ ~(used \subseteq DeclaredBoard))
            /\ r # Error =>
                 /\ DOMAIN r.dict = DotAssigned \cup defaults
                                    \cup (IF used # {} THEN {"BOARD"} ELSE {})
                 /\ \A k \in DotAssigned : r.dict[k] = TRUE
                 /\ used # {} =>
                      \E d \in Range(input.defconfigs) :
                          /\ r.dict["BOARD"] = d.dir
                          /\ \E l \in Range(d.lines) : l.kind = "assign" /\ l.key \in used
                 /\ \A k \in defaults \ DotAssigned :
                      (k = "BOARD" /\ used # {}) \/ r.dict[k] = FirstDefault(k)

(* The directory of the last defconfig, in glob order, declaring key k. *)
LastDeclarer(k) ==
    LET ds == {i \in DOMAIN input.defconfigs :
                 \E l \in Range(input.defconfigs[i].lines) : l.kind = "assign" /\ l.key = k}
    IN  input.defconfigs[Max(ds)].dir

(* The board key of the last board line of .config. *)
LastUsedBoard ==
    LET is == {i \in DOMAIN input.dotconfig :
                 input.dotconfig[i].kind = "assign" /\ input.dotconfig[i].key \in BoardKeys}
    IN  input.dotconfig[Max(is)].key

-----------------------------------------------------------------------------
(* Symbol lookup (symmap.py) *)

SymFiles == [d \in {D1} |-> IF input.present THEN SymmapFile(input.syms) ELSE NoFile]

(* The address of the last symbol called n, or NotFound. *)
LastAddress(syms, n) ==
    LET is == {i \in DOMAIN syms : syms[i].name = n}
    IN  IF is = {} THEN NotFound
        ELSE HexValue(syms[CHOOSE i \in is : \A j \in is : j <= i].addr)

(* symmap.py answers with the address of a symbol of the requested name    *)
(* (the last one when a name is defined twice), 'Cannot found' only for a  *)
(* name not in the table, and exits when the usage, the configuration or   *)
(* the file is wrong.                                                      *)
SymbolLookupMatchesTable ==
    part = "symmap" =>
        Main(input.config, SymFiles, input.argv) =
            CASE Len(input.argv) # 1                      -> Usage
              [] input.config = Error                     -> Error
              [] "BOARD" \notin DOMAIN input.config.dict  -> Error
              [] ~input.present                           -> NoFile
              [] OTHER -> LastAddress(input.syms, input.argv[1])

=============================================================================
