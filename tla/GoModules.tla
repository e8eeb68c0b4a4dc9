----------------------------- MODULE GoModules -----------------------------
(***************************************************************************)
(* go.mod files (core/gomod.rs), the imports resolved by them              *)
(* (core/gomod_resolver.rs) and the cross-package index                    *)
(* (core/xpackage.rs).  A line is the sequence of its tokens, "(" and "="  *)
(* followed by ">" among them, a comment one that starts with "//"; quotes *)
(* are left out, but for the token "quotes" of an empty quoted string.  A  *)
(* value the code takes as text is a sequence of tokens.  A path is the    *)
(* sequence of its elements.                                               *)
(***************************************************************************)
EXTENDS Integers, Sequences, SequencesExt, FiniteSets, Maps, TLC

Blocks == {"require", "replace", "exclude", "retract"}
NewMod == [module |-> {}, go |-> {}, toolchain |-> {},
           entries |-> [b \in Blocks |-> <<>>], in_block |-> {}, block |-> <<>>, error |-> {}]

\* The parts of a line between a token, as split gives them.
Split(line, token) ==
    FoldLeft(LAMBDA parts, t : IF t = token THEN Append(parts, <<>>)
                               ELSE [parts EXCEPT ![Len(parts)] = Append(@, t)], << <<>> >>, line)

parse_module_path_with_version(side) ==
    [path |-> side[1], version |-> IF Len(side) > 1 THEN {side[2]} ELSE {}]

parse_retract_line(s) ==
    LET opened == IF Head(s) = "[" THEN Tail(s) ELSE s
        inner == IF opened # <<>> /\ Last(opened) = "]" THEN Front(opened) ELSE opened
        parts == Split(inner, ",")
        Bound(text) == IF text = <<>> THEN {} ELSE {text}
    IN  IF Head(s) = "[" /\ Len(parts) = 2 THEN [low |-> Bound(parts[1]), high |-> Bound(parts[2])]
        ELSE [low |-> {s}, high |-> {s}]

\* What a line adds to the entries of its kind: at most one, or an error.
Entry(kind, s) ==
    LET sides == Split(s, "=>")
    IN  CASE kind = "require" ->
                 IF Len(s) < 2 THEN <<>>
                 ELSE <<[path |-> s[1], version |-> s[2],
                         indirect |-> Len(s) > 3 /\ s[3] = "//" /\ s[4] = "indirect"]>>
          [] kind = "exclude" -> IF Len(s) < 2 THEN <<>> ELSE <<[path |-> s[1], version |-> s[2]]>>
          [] kind = "replace" ->
                 IF Len(sides) # 2 THEN <<>>
                 ELSE <<[old |-> parse_module_path_with_version(sides[1]),
                         new |-> parse_module_path_with_version(sides[2])]>>
          [] kind = "retract" -> <<parse_retract_line(s)>>
InvalidSyntax(kind, s) ==
    LET sides == Split(s, "=>")
    IN  kind = "replace" /\ Len(sides) = 2 /\ <<>> \in ToSet(sides)

\* The first error ends the parse.
Added(m, kind, s) ==
    IF m.error # {} THEN m
    ELSE IF InvalidSyntax(kind, s) THEN [m EXCEPT !.error = {"InvalidSyntax"}]
    ELSE [m EXCEPT !.entries[kind] = @ \o Entry(kind, s)]

CloseBlock(m) ==
    LET kind == CHOOSE b \in m.in_block : TRUE
        closed == [m EXCEPT !.in_block = {}, !.block = <<>>]
    IN  IF m.in_block \cap Blocks = {} THEN [m EXCEPT !.in_block = {}, !.block = <<>>]
        ELSE FoldLeft(LAMBDA n, s : Added(n, kind, s), closed, m.block)

Directive(m, line) ==
    LET rest == Tail(line)
    IN  CASE rest = <<>> -> m
          [] Head(line) = "module" -> IF rest = <<"quotes">> THEN [m EXCEPT !.error = {"InvalidModule"}]
                                      ELSE [m EXCEPT !.module = {rest}]
          [] Head(line) = "go" -> [m EXCEPT !.go = {rest}]
          [] Head(line) = "toolchain" -> [m EXCEPT !.toolchain = {rest}]
          [] Head(line) \in Blocks -> Added(m, Head(line), rest)
          [] OTHER -> m

ParseLine(m, line) ==
    CASE m.error # {} \/ line = <<>> \/ Head(line) = "//" -> m
      [] line = <<")">> -> CloseBlock(m)
      [] m.in_block # {} -> [m EXCEPT !.block = Append(@, line)]
      [] Last(line) = "(" -> [m EXCEPT !.in_block = {IF Len(line) = 2 THEN line[1] ELSE "other"}]
      [] OTHER -> Directive(m, line)

\* A block that is never closed adds nothing.
parse(lines) ==
    LET m == FoldLeft(ParseLine, NewMod, SelectSeq(lines, LAMBDA line : line # <<>> /\ Head(line) # "//"))
    IN  [module |-> m.module, go |-> m.go, toolchain |-> m.toolchain, entries |-> m.entries,
         error |-> IF m.error = {} /\ m.module = {} THEN {"MissingModule"} ELSE m.error]

direct_deps(mod) == SelectSeq(mod.entries["require"], LAMBDA r : ~r.indirect)
indirect_deps(mod) == SelectSeq(mod.entries["require"], LAMBDA r : r.indirect)
find_dep(mod, path) ==
    LET found == SelectSeq(mod.entries["require"], LAMBDA r : r.path = path)
    IN  IF found = <<>> THEN {} ELSE {Head(found)}

\* A version is its parts; of the first two those that are not numbers (-1) are dropped.
Parts(version) ==
    LET numbers == {i \in DOMAIN version : i <= 2 /\ version[i] >= 0}
    IN  CASE numbers = {} -> <<>>
          [] numbers = {1, 2} -> <<version[1], version[2]>>
          [] OTHER -> <<version[CHOOSE i \in numbers : TRUE]>>
version_gte(a, b) ==
    LET x == Parts(a)
        y == Parts(b)
        differ == {i \in DOMAIN x : i \in DOMAIN y /\ x[i] # y[i]}
        first == CHOOSE i \in differ : \A j \in differ : i <= j
    IN  IF differ = {} THEN Len(x) >= Len(y) ELSE x[first] > y[first]
satisfies_go_version(mod, version) == \A required \in mod.go : version_gte(version, required)

\* The nearest directory, going up, that has a go.mod.
Ancestors(dir) == [i \in 1..(Len(dir) + 1) |-> SubSeq(dir, 1, Len(dir) + 1 - i)]
find_module_root(dirs, start) ==
    LET above == Ancestors(start)
        found == {i \in DOMAIN above : above[i] \in dirs}
    IN  IF found = {} THEN {} ELSE {above[CHOOSE i \in found : \A j \in found : i <= j]}

\* ModuleCache: by path and version.
CacheAdd(cache, path, version, mod) == Put(cache, <<path, version>>, mod)
CacheGet(cache, path, version) == IF Has(cache, <<path, version>>) THEN {cache[<<path, version>>]} ELSE {}

\* Which tokens head a package of the standard library is a parameter: only whole first
\* elements count.  A replacement is of the very path, and no other import is resolved.
is_stdlib(std, path) == path[1] \in std
resolve_import(std, mods, path) ==
    LET replaced == FoldLeft(LAMBDA all, mod : all \o SelectSeq(mod.entries["replace"],
                                 LAMBDA r : <<r.old.path>> = path), <<>>, mods)
    IN  IF is_stdlib(std, path) THEN {[is |-> "Stdlib"]}
        ELSE IF replaced = <<>> THEN {} ELSE {[is |-> "Replaced", path |-> Head(replaced).new.path]}

\* CrossPackageIndex and its navigator.
register_symbol(index, symbol, location) == Put(index, symbol, location)
goto_definition(index, symbol) == IF Has(index, symbol) THEN {index[symbol]} ELSE {}

-----------------------------------------------------------------------------
(* The reference.                                                          *)

InBlock(kind, entries) == << <<kind, "(">> >> \o entries \o << <<")">> >>
OnLines(kind, entries) == [i \in DOMAIN entries |-> <<kind>> \o entries[i]]

\* What holds of every parsed module.
ModRight(mod) ==
    LET required == mod.entries["require"]
        paths == {<<r.old.path>> : r \in ToSet(mod.entries["replace"])}
    IN  /\ mod.error = {} => mod.module # {}
        /\ Len(direct_deps(mod)) + Len(indirect_deps(mod)) = Len(required)
        /\ \A r \in ToSet(required) : \A found \in find_dep(mod, r.path) :
               \E first \in DOMAIN required :
                   /\ required[first] = found /\ found.path = r.path
                   /\ \A i \in 1..(first - 1) : required[i].path # r.path
        /\ \A path \in paths :
               /\ resolve_import({"fmt"}, <<mod>>, path) # {}
               /\ path[1] # "fmt" => resolve_import({"fmt"}, <<mod>>, path \o <<"sub">>) = {}
        /\ resolve_import({"fmt"}, <<>>, <<"fmt", "sub">>) = {[is |-> "Stdlib"]}

\* Entries of a kind mean the same one to a line or in a block, or in two; a comment
\* anywhere changes nothing; a block that is not closed takes everything after it away;
\* direct and indirect dependencies are the required ones, each once; a dependency is
\* found by its first entry; and the import of a replaced module is the replacement, but
\* not that of a package below it.
GoModsRight(head, kind, entries, more) ==
    LET Commented(lines) == FoldLeft(LAMBDA all, l : all \o << <<"//", "note">>, <<>>, l >>, <<>>, lines)
        plain == head \o OnLines(kind, entries)
        blocks == head \o InBlock(kind, entries) \o InBlock(kind, more)
        unclosed == head \o << <<kind, "(">> >> \o entries \o << <<"go", "1.9">>, <<"module", "n">> >>
        same == {<<plain, head \o InBlock(kind, entries)>>,
                 <<blocks, head \o OnLines(kind, entries \o more)>>,
                 <<Commented(blocks), blocks>>,
                 <<unclosed, head>>}
    IN  /\ \A texts \in same : parse(texts[1]) = parse(texts[2])
        /\ ModRight(parse(plain))

\* Versions are compared as major.minor, a missing part being less than any; the order is
\* total; what is not a number is as if missing.  The module root is the closest one at
\* or above a directory.
VersionsRight(a, b, c, dirs, start) ==
    LET Less(x, y) == \/ x = <<>> /\ y # <<>>
                      \/ x # <<>> /\ y # <<>> /\ (x[1] < y[1] \/ (x[1] = y[1] /\ (
                             \/ Len(x) = 1 /\ Len(y) = 2
                             \/ Len(x) = 2 /\ Len(y) = 2 /\ x[2] < y[2])))
        required == [NewMod EXCEPT !.go = {b}]
        root == find_module_root(dirs, start)
    IN  /\ version_gte(a, b) <=> ~Less(Parts(a), Parts(b))
        /\ version_gte(a, b) \/ version_gte(b, a)
        /\ version_gte(a, b) /\ version_gte(b, c) => version_gte(a, c)
        /\ satisfies_go_version(required, a) /\ version_gte(c, a) => satisfies_go_version(required, c)
        /\ satisfies_go_version(NewMod, a)
        /\ (root = {}) <=> ~\E d \in dirs : IsPrefix(d, start)
        /\ \A r \in root : r \in dirs /\ IsPrefix(r, start)
                           /\ \A d \in dirs : IsPrefix(d, start) => Len(d) <= Len(r)
        /\ CacheGet(CacheAdd(CacheAdd(NoMap, "p", a, 1), "p", b, 2), "p", a) = {IF a = b THEN 2 ELSE 1}
        /\ goto_definition(register_symbol(register_symbol(NoMap, a, 1), b, 2), b) = {2}
=============================================================================
