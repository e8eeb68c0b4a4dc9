----------------------------- MODULE SourceText -----------------------------
(***************************************************************************)
(* A file's text: positions, offsets and edits (salsa/inputs.rs,           *)
(* salsa_full/inputs.rs) and what the Salsa queries read from its lines    *)
(* (salsa_full/queries.rs).  A text is a sequence of characters: newlines  *)
(* "n", others of one byte "c" or two "w".  Lines and columns count from   *)
(* zero, offsets are in bytes, and an edit that replace_range refuses      *)
(* Panics.  A line of a file is its tokens.                                *)
(***************************************************************************)
EXTENDS Integers, Sequences, SequencesExt, FiniteSets

Panics == <<"panics">>

\* What the first k characters have: of one character, in bytes, and in newlines.
Count(text, k, ch) == Cardinality({i \in 1..k : text[i] = ch})
Bytes(text, k) == k + Count(text, k, "w")
Newlines(text, k) == Count(text, k, "n")
Size(text) == Bytes(text, Len(text))

\* A line begins at the first character that has as many newlines before it; a column
\* that the line does not have is counted on into the next ones.
position_to_offset(text, line, col) ==
    LET starts == {k \in 0..(Len(text) - 1) : Newlines(text, k) = line}
        start == CHOOSE k \in starts : \A j \in starts : k <= j
    IN  IF starts = {} THEN Size(text)
        ELSE Bytes(text, IF start + col <= Len(text) THEN start + col ELSE Len(text))

\* The newlines before an offset, and the characters after the last of them.
Before(text, offset) == {k \in DOMAIN text : Bytes(text, k - 1) < offset}
\* A position whose column goes on over the end of a line.
ColumnNotReset(text, offset) ==
    LET before == Before(text, offset)
    IN  <<Cardinality({k \in before : text[k] = "n"}), Cardinality({k \in before : text[k] # "n"})>>
offset_to_position(text, offset) ==
    LET before == Before(text, offset)
    IN  <<Cardinality({k \in before : text[k] = "n"}),
          Cardinality({k \in before : \A j \in before : j >= k => text[j] # "n"})>>

\* String::replace_range.
Boundary(text, offset) == {k \in 0..Len(text) : Bytes(text, k) = offset}
Replaced(text, start, end, new) ==
    IF start > end \/ {} \in {Boundary(text, start), Boundary(text, end)} THEN Panics
    ELSE LET At(offset) == CHOOSE k \in Boundary(text, offset) : TRUE
         IN  SubSeq(text, 1, At(start)) \o new \o SubSeq(text, At(end) + 1, Len(text))

\* SourceFile::apply_change: a change past the end is dropped, and counted all the same.
ApplyOffsets(file, start, end, new) ==
    [version |-> file.version + 1,
     text |-> IF start <= Size(file.text) /\ end <= Size(file.text)
              THEN Replaced(file.text, start, end, new) ELSE file.text]
\* InputManager::apply_change, without its storing of the text.
ApplyPositions(text, from, to, new) ==
    Replaced(text, position_to_offset(text, from[1], from[2]), position_to_offset(text, to[1], to[2]), new)

-----------------------------------------------------------------------------
(* The queries.                                                            *)

Split(line, token) ==
    FoldLeft(LAMBDA parts, t : IF t = token THEN Append(parts, <<>>)
                               ELSE [parts EXCEPT ![Len(parts)] = Append(@, t)], << <<>> >>, line)

\* The first token of a line is compared as a prefix: "important" imports too.
import_path(line) ==
    IF line # <<>> /\ Head(line) \in {"import", "important"} /\ Len(Split(line, "quote")) > 1
    THEN <<Split(line, "quote")[2]>> ELSE <<>>
\* A name is the tokens before the "(", of a method those after the receiver.
extract_function_name(line) ==
    LET rest == Tail(line)
        parts == Split(rest, ")")
    IN  CASE line \in {<<>>, <<"func">>} \/ Head(line) # "func" -> <<>>
          [] Head(rest) = "(" -> IF Len(parts) > 1 THEN <<Split(parts[2], "(")[1]>> ELSE <<>>
          [] OTHER -> <<Split(rest, "(")[1]>>

parse_file(lines) ==
    [imports |-> FoldLeft(LAMBDA all, l : all \o import_path(l), <<>>, lines),
     functions |-> FoldLeft(LAMBDA all, l : all \o extract_function_name(l), <<>>, lines)]

\* Upper: the tokens that begin with a capital.
file_symbols(lines, Upper) ==
    LET functions == parse_file(lines).functions
    IN  [all_symbols |-> functions,
         exports |-> SelectSeq(functions, LAMBDA name : name # <<>> /\ Head(name) \in Upper)]
infer_function_type(function) == [errors |-> <<>>]
type_check_file(lines) ==
    LET errors == FoldLeft(LAMBDA all, f : all \o infer_function_type(f).errors, <<>>, parse_file(lines).functions)
    IN  [success |-> errors = <<>>, errors |-> errors]
completions_at(lines, offset) == file_symbols(lines, {}).all_symbols
resolve_symbol_at(lines, offset) ==
    LET symbols == file_symbols(lines, {}).all_symbols IN IF symbols = <<>> THEN {} ELSE {Head(symbols)}
check_implements(typ, methods) == methods # <<>>

-----------------------------------------------------------------------------
(* The reference.                                                          *)

LineLength(text, line) == Cardinality({k \in 1..Len(text) : Newlines(text, k - 1) = line /\ text[k] # "n"})
\* The positions a text has.
Exists(text, pos) == pos[1] <= Newlines(text, Len(text)) /\ pos[2] <= LineLength(text, pos[1])

\* Positions that a text has and offsets between characters stand for each other, in
\* order; an edit between two of them replaces the characters from the first up to the
\* second, and panics when its end is before its start; every edit is the same by offsets;
\* and one by offsets past the end changes the version only.
EditsRight(text, from, to, new) ==
    LET Offset(pos) == position_to_offset(text, pos[1], pos[2])
        At(k) == offset_to_position(text, Bytes(text, k))
        Less(p, q) == p[1] < q[1] \/ (p[1] = q[1] /\ p[2] < q[2])
        edited == ApplyPositions(text, from, to, new)
        file == [text |-> text, version |-> 1]
    IN  /\ \A k \in 0..Len(text) : Exists(text, At(k)) /\ Offset(At(k)) = Bytes(text, k)
        /\ Exists(text, from) => offset_to_position(text, Offset(from)) = from
        /\ Exists(text, from) /\ Exists(text, to) =>
               /\ Less(from, to) <=> Offset(from) < Offset(to)
               /\ \E i, j \in 0..Len(text) :
                      /\ At(i) = from /\ At(j) = to
                      /\ edited = IF Less(to, from) THEN Panics
                                  ELSE SubSeq(text, 1, i) \o new \o SubSeq(text, j + 1, Len(text))
        /\ ApplyOffsets(file, Offset(from), Offset(to), new) = [text |-> edited, version |-> 2]
        /\ ApplyOffsets(file, 0, Size(text) + 1, new) = [text |-> text, version |-> 2]

\* A file has what its parts have, in their order, whatever is between; the exports are
\* the symbols that begin with a capital; the imports of a group are missed, a line that
\* imports declares no function; nothing is ever an error; and completion and resolution
\* do not look at the place.
QueriesRight(lines, more, Upper) ==
    LET whole == file_symbols(lines \o more, Upper)
        first == file_symbols(lines, Upper)
        second == file_symbols(more, Upper)
        group == << <<"import", "(">>, <<"quote", "fmt", "quote">>, <<")">> >>
    IN  /\ whole.all_symbols = first.all_symbols \o second.all_symbols
        /\ whole.exports = first.exports \o second.exports
        /\ parse_file(lines \o more).imports = parse_file(lines).imports \o parse_file(more).imports
        /\ parse_file(lines \o group \o more) = parse_file(lines \o more)
        /\ \A i \in DOMAIN lines : <<>> \in {import_path(lines[i]), extract_function_name(lines[i])}
        /\ type_check_file(lines \o more).success
        /\ completions_at(lines, 0) = completions_at(lines, 9)
        /\ resolve_symbol_at(lines \o more, 0) =
               IF first.all_symbols # <<>> THEN resolve_symbol_at(lines, 9) ELSE resolve_symbol_at(more, 9)
        /\ check_implements(lines, more) = (more # <<>>)
=============================================================================
