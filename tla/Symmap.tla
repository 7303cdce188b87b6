------------------------------- MODULE Symmap -------------------------------
(***************************************************************************)
(* scripts/symmap.py: look a kernel symbol up in build/<BOARD>/f9_symmap.c.*)
(* Symmap.parse collects, with two independent regular expressions, every *)
(* address entry of the symbol array and every NUL-terminated string (a    *)
(* symbol name) of the file, zips the two lists and fills a dict           *)
(* name -> int(hex, 16); a name seen again overwrites the earlier address. *)
(*                                                                         *)
(* The file is a sequence of items: [kind |-> "entry", addr |-> <hex       *)
(* digits>] for a match of the address pattern, [kind |-> "string", name   *)
(* |-> n] for a match of the name pattern; all other text is left out.     *)
(***************************************************************************)
EXTENDS Naturals, Sequences, SequencesExt, TLC, BuildConfig

CONSTANTS NoFile,   \* build/<BOARD>/f9_symmap.c does not exist
          NotFound, \* print_addr_by_name's 'Cannot found' answer
          Usage     \* sys.exit(usage): not exactly one argument

(* symmap.py's ConfigParser is a copy of MakefileConfig. *)
ConfigParser(defconfigs, dotconfig, makefiles) ==
    MakefileConfig(defconfigs, dotconfig, makefiles)

(* int(addr, 16) *)
HexValue(digits) == FoldLeft(LAMBDA acc, d : 16 * acc + d, 0, digits)

(* re.findall of the two patterns: the matches in file order. *)
Addresses(file) ==
    LET es == SelectSeq(file, LAMBDA it : it.kind = "entry")
    IN  [i \in DOMAIN es |-> es[i].addr]

Names(file) ==
    LET ns == SelectSeq(file, LAMBDA it : it.kind = "string")
    IN  [i \in DOMAIN ns |-> ns[i].name]

(* Mutant: a name already in the dict keeps its first address. *)
ParseKeepsFirst(file) ==
    IF file = NoFile THEN NoFile
    ELSE FoldLeft(LAMBDA m, p : m @@ (p[2] :> HexValue(p[1])),
                  <<>>, Zip(Addresses(file), Names(file)))

(* Symmap.parse: sys.exit when the file is missing; otherwise the zipped   *)
(* pairs in order, symmap[name] = int(addr, 16), later pairs overwriting.  *)
Parse(file) ==
    IF file = NoFile THEN NoFile
    ELSE FoldLeft(LAMBDA m, p : (p[2] :> HexValue(p[1])) @@ m,
                  <<>>, Zip(Addresses(file), Names(file)))

(* print_addr_by_name *)
PrintAddrByName(symmap, name) ==
    IF name \in DOMAIN symmap THEN symmap[name] ELSE NotFound

(* __main__: the usage check, then Symmap(): ConfigParser('Makefile')     *)
(* (which may raise), parse of the file of config.BOARD (a KeyError when   *)
(* no source set BOARD), and the lookup of argv[1].  files maps a board    *)
(* directory to its f9_symmap.c.                                           *)
Main(config, files, argv) ==
    CASE Len(argv) # 1                                   -> Usage
      [] config = Error                                  -> Error
      [] "BOARD" \notin DOMAIN config.dict               -> Error
      [] Parse(files[config.dict["BOARD"]]) = NoFile      -> NoFile
      [] OTHER -> PrintAddrByName(Parse(files[config.dict["BOARD"]]), argv[1])

=============================================================================
