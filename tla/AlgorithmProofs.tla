-------------------------- MODULE AlgorithmProofs --------------------------
(***************************************************************************)
(* The laws of the algorithms in closed form, for every input.             *)
(***************************************************************************)
EXTENDS ClosedForms, Integers, Sequences, FiniteSets, FiniteSetTheorems, SequenceTheorems,
        WellFoundedInduction, TLC, TLAPS

\* What is below 2^32 fits 32 bits.
LEMMA Remainder == \A n \in Nat : n < U32 => n % U32 = n
  BY U32Type

\* The gradual guarantee, for any two types and any state of a file: what a stricter mode
\* of GradualChecker accepts a laxer one accepts.
THEOREM GradualGuarantee ==
    ASSUME NEW ty1, NEW ty2, NEW state
    PROVE  Gradual!ModesRight(ty1, ty2, state)
<1>1. \A m, n \in Gradual!GradualMode : Gradual!strictness(m) > Gradual!strictness(n) =>
           /\ Gradual!check(m, ty1, ty2, state).is_valid => Gradual!check(n, ty1, ty2, state).is_valid
           /\ Gradual!should_check_strictly(n, state) => Gradual!should_check_strictly(m, state)
           /\ Gradual!allows_untyped(m) => Gradual!allows_untyped(n)
  BY DEF Gradual!GradualMode, Gradual!strictness, Gradual!check, Gradual!Result, Gradual!Mismatch,
         Gradual!should_check_strictly, Gradual!allows_untyped
<1>2. \A m \in Gradual!GradualMode : Gradual!requires_annotations(m) = ~Gradual!allows_untyped(m)
  BY DEF Gradual!requires_annotations, Gradual!allows_untyped
<1>3. "Any" \notin {ty1, ty2} =>
           Gradual!check("Gradual", ty1, ty2, state).is_valid = Gradual!check("Static", ty1, ty2, state).is_valid
  BY DEF Gradual!check, Gradual!Result, Gradual!Mismatch
<1>4. Gradual!check("Gradual", ty1, ty2, state).warnings # <<>> <=> "Any" \in {ty1, ty2}
  BY DEF Gradual!check, Gradual!Result, Gradual!Mismatch
<1> QED
  BY <1>1, <1>2, <1>3, <1>4 DEF Gradual!ModesRight

-----------------------------------------------------------------------------
(* The checks between modules.                                             *)

\* An API is compatible with itself, compatibility is transitive, and what one direction
\* of CheckEngine::check_api_compatibility adds the other removes: for any lists of symbols.
THEOREM ApiCompatibility ==
    ASSUME NEW a, NEW b, NEW c
    PROVE  Semantic!ApisRight(a, b, c)
<1> DEFINE C(x, y) == Semantic!check_api_compatibility(x, y)
           Map(x) == Semantic!ApiMap(x)
<1>1. ASSUME NEW x, NEW y
      PROVE  /\ C(x, y).is_compatible <=>
                    \A n \in DOMAIN Map(x) : n \in DOMAIN Map(y) /\ Map(y)[n] = Map(x)[n]
             /\ C(x, y).additions = DOMAIN Map(y) \ DOMAIN Map(x)
             /\ C(x, y).removed = DOMAIN Map(x) \ DOMAIN Map(y)
             /\ C(x, y).changed = {n \in DOMAIN Map(x) \cap DOMAIN Map(y) : Map(x)[n] # Map(y)[n]}
  <2> HIDE DEF Map
  <2> DEFINE removed == DOMAIN Map(x) \ DOMAIN Map(y)
             changed == {n \in DOMAIN Map(x) \cap DOMAIN Map(y) : Map(x)[n] # Map(y)[n]}
             additions == DOMAIN Map(y) \ DOMAIN Map(x)
  <2>1. C(x, y) = [is_compatible |-> removed \cup changed = {}, removed |-> removed, changed |-> changed,
                   additions |-> additions]
    BY DEF Semantic!check_api_compatibility, Map
  <2>2. removed \cup changed = {} <=>
            \A n \in DOMAIN Map(x) : n \in DOMAIN Map(y) /\ Map(y)[n] = Map(x)[n]
    OBVIOUS
  <2> HIDE DEF removed, changed, additions, C
  <2>3. C(x, y).is_compatible <=> removed \cup changed = {}
    <3>1. PICK status : status = C(x, y)
      OBVIOUS
    <3>2. status.is_compatible = (removed \cup changed = {})
      BY <2>1, <3>1
    <3> QED
      BY <3>1, <3>2
  <2>4. C(x, y).additions = additions /\ C(x, y).removed = removed /\ C(x, y).changed = changed
    BY <2>1
  <2> QED
    BY <2>2, <2>3, <2>4, Zenon DEF removed, changed, additions
<1> HIDE DEF C, Map
<1>2. C(a, a).is_compatible /\ C(a, a).additions = {}
  BY <1>1
<1>3. C(a, b).is_compatible /\ C(b, c).is_compatible => C(a, c).is_compatible
  BY <1>1
<1>4. C(a, b).additions = C(b, a).removed /\ C(a, b).changed = C(b, a).changed
  <2>1. \A n : n \in C(a, b).changed <=> n \in C(b, a).changed
    BY <1>1
  <2> QED
    BY <1>1, <2>1
<1> QED
  BY <1>1, <1>2, <1>3, <1>4 DEF Semantic!ApisRight, Semantic!Has, C, Map

\* Two signatures agree exactly when no issue is found, and either side finds the same; of
\* types other than Any, what is assignable to an assignable type is assignable.
THEOREM SignatureAgreement ==
    ASSUME NEW s, NEW t, NEW types,
           s.params \in Seq(Int), t.params \in Seq(Int)
    PROVE  Semantic!SignaturesRight(s, t, types)
<1> DEFINE Issues(x, y) == Semantic!check_method_signature(x, y)
           Fits(from, to) == Semantic!check_type_compatibility(from, to) # "Incompatible"
<1>1. ASSUME NEW x, NEW y, NEW issue
      PROVE  issue \in Issues(x, y) <=>
                 \/ issue = <<"ParamCountMismatch">> /\ Len(x.params) # Len(y.params)
                 \/ issue = <<"ReturnTypeMismatch">> /\ x.return_type # y.return_type
                 \/ \E i \in DOMAIN x.params \cap DOMAIN y.params :
                        issue = <<"ParamTypeMismatch", i>> /\ x.params[i] # y.params[i]
  BY DEF Semantic!check_method_signature, Semantic!If
<1> HIDE DEF Issues
<1>2. Issues(s, t) = {} => s.params = t.params /\ s.return_type = t.return_type
  <2> SUFFICES ASSUME Issues(s, t) = {}
               PROVE  s.params = t.params /\ s.return_type = t.return_type
    OBVIOUS
  <2>1. Len(s.params) = Len(t.params) /\ s.return_type = t.return_type
    BY <1>1
  <2>2. \A i \in DOMAIN s.params \cap DOMAIN t.params : s.params[i] = t.params[i]
    BY <1>1
  <2> QED
    BY <2>1, <2>2
<1>3. s.params = t.params /\ s.return_type = t.return_type => Issues(s, t) = {}
  BY <1>1
<1>4. Issues(s, t) = Issues(t, s)
  <2>1. \A issue : issue \in Issues(s, t) <=> issue \in Issues(t, s)
    BY <1>1
  <2> QED
    BY <2>1
<1>5. ASSUME NEW x, NEW y
      PROVE  Fits(x, y) <=> \/ x = y
                            \/ x.is = "Int" /\ y.is = "Float"
                            \/ "Any" \in {x.is, y.is}
                            \/ /\ x.is = "Struct" /\ y.is = "Struct"
                               /\ \A name \in DOMAIN y.fields :
                                      name \in DOMAIN x.fields /\ x.fields[name] = y.fields[name]
  BY DEF Semantic!check_type_compatibility, Semantic!Has
<1> HIDE DEF Fits
<1>6. \A x, y : Fits(x, x) /\ (x.is = "Any" => Fits(x, y) /\ Fits(y, x))
  BY <1>5
<1>7. ASSUME NEW x, NEW y, NEW z, y.is # "Any", Fits(x, y), Fits(y, z)
      PROVE  Fits(x, z)
  BY <1>5, <1>7
<1> QED
  BY <1>2, <1>3, <1>4, <1>6, <1>7 DEF Semantic!SignaturesRight, Fits, Issues

\* A range of semantic/mod.rs holds exactly the positions between its ends; a reference
\* found at a position of semantic/queries.rs is there, and a rename edits it; and the
\* answers about other interfaces stay.
THEOREM PositionsAndRenames ==
    ASSUME NEW range, NEW pos \in Nat \X (0..(U32 - 6)), NEW file, NEW symbol,
           range.start \in Nat \X Nat, range.end \in Nat \X Nat
    PROVE  Semantic!PositionsRight(range, pos, file, symbol)
<1> DEFINE Before(p, q) == p[1] < q[1] \/ (p[1] = q[1] /\ p[2] < q[2])
<1>1. ~Before(range.end, range.start) =>
          (Semantic!contains(range, pos) <=> ~Before(pos, range.start) /\ ~Before(range.end, pos))
  BY DEF Semantic!contains
<1> DEFINE found == Semantic!find_references(file, pos)
           edits == Semantic!rename(file, pos).changes
<1>2. /\ DOMAIN found = {1} /\ found[1].path = file /\ found[1].range = Semantic!Word(pos)
      /\ DOMAIN edits = {file} /\ DOMAIN edits[file] = {1} /\ edits[file][1] = Semantic!Word(pos)
      /\ Semantic!rename(file, pos).affected_files = 1
  <2> DEFINE word == Semantic!Word(pos)
  <2>1. found = <<[path |-> file, range |-> word]>>
    BY DEF Semantic!find_references
  <2>2. Semantic!rename(file, pos) = [changes |-> [f \in {file} |-> <<word>>], affected_files |-> 1]
    BY DEF Semantic!rename
  <2> HIDE DEF word
  <2>3. DOMAIN found = {1} /\ found[1].path = file /\ found[1].range = word
    BY <2>1
  <2>4. edits = [f \in {file} |-> <<word>>] /\ Semantic!rename(file, pos).affected_files = 1
    BY <2>2
  <2>5. DOMAIN edits = {file} /\ DOMAIN edits[file] = {1} /\ edits[file][1] = word
    BY <2>4
  <2> QED
    BY <2>3, <2>4, <2>5 DEF word
<1>3. Semantic!contains(Semantic!Word(pos), pos)
  <2>1. pos[1] \in Nat /\ pos[2] \in Nat /\ pos[2] + 5 \in Nat /\ pos[2] + 5 < U32
    BY U32Type
  <2>2. Semantic!Word(pos) = [start |-> pos, end |-> <<pos[1], pos[2] + 5>>]
    BY <2>1, Remainder DEF Semantic!Word
  <2> QED
    BY <2>1, <2>2 DEF Semantic!contains
<1>4. Semantic!Cardinality({file}) = 1
  BY FS_Singleton DEF Semantic!Cardinality, Cardinality
<1>5. ASSUME NEW name
      PROVE  LET results == Semantic!check_interface_implementations(Semantic!NoMap, file, symbol)
                 after == Semantic!check_interface_implementations(results, file, name)
             IN  /\ after[<<file, symbol>>] = results[<<file, symbol>>]
                 /\ after[<<file, name>>].is_consistent
  <2> DEFINE first == [interface_name |-> symbol, issues |-> {}, is_consistent |-> TRUE]
             results == Semantic!check_interface_implementations(Semantic!NoMap, file, symbol)
             after == Semantic!check_interface_implementations(results, file, name)
  <2>1. results = [k \in {<<file, symbol>>} |-> first]
    BY DEF Semantic!check_interface_implementations, Semantic!Has, Semantic!Put, Semantic!NoMap
  <2>2. CASE name = symbol
    <3>1. after = results
      BY <2>1, <2>2 DEF Semantic!check_interface_implementations, Semantic!Has
    <3> QED
      BY <3>1, <2>1, <2>2
  <2>3. CASE name # symbol
    <3>1. <<file, name>> # <<file, symbol>>
      BY <2>3
    <3>2. after = Semantic!Put(results, <<file, name>>,
                               [interface_name |-> name, issues |-> {}, is_consistent |-> TRUE])
      BY <3>1, <2>1 DEF Semantic!check_interface_implementations, Semantic!Has
    <3> QED
      BY <3>1, <3>2, <2>1 DEF Semantic!Put
  <2> QED
    BY <2>2, <2>3
<1> QED
  <2>1. /\ \E i \in DOMAIN found : found[i].path = file /\ Semantic!contains(found[i].range, pos)
        /\ \A i \in DOMAIN found : \E j \in DOMAIN edits[found[i].path] :
               edits[found[i].path][j] = found[i].range
        /\ Semantic!rename(file, pos).affected_files = Semantic!Cardinality(DOMAIN edits)
    BY <1>2, <1>3, <1>4
  <2> QED
    BY <1>1, <2>1, <1>5 DEF Semantic!PositionsRight

-----------------------------------------------------------------------------
(* Versions, module roots and look-ups.                                    *)

\* The parts a version is compared by, and their order.
Shape(x) == \/ x = <<>>
            \/ \E m \in Nat : x = <<m>>
            \/ \E m, n \in Nat : x = <<m, n>>
Older(x, y) == \/ x = <<>> /\ y # <<>>
               \/ x # <<>> /\ y # <<>> /\ (x[1] < y[1] \/ (x[1] = y[1] /\ (
                      \/ Len(x) = 1 /\ Len(y) = 2
                      \/ Len(x) = 2 /\ Len(y) = 2 /\ x[2] < y[2])))

\* GoMod::version_gte takes at most two numbers of a version.
LEMMA PartsShape ==
    ASSUME NEW version \in Seq(Int)
    PROVE  Shape(Modules!Parts(version))
<1> DEFINE numbers == {i \in DOMAIN version : i <= 2 /\ version[i] >= 0}
<1>1. numbers \subseteq {1, 2} /\ \A i \in numbers : version[i] \in Nat
  OBVIOUS
<1>2. CASE numbers = {}
  BY <1>2 DEF Modules!Parts, Shape
<1>3. CASE numbers = {1, 2}
  <2>1. Modules!Parts(version) = <<version[1], version[2]>>
    BY <1>3 DEF Modules!Parts
  <2> QED
    BY <1>1, <1>3, <2>1 DEF Shape
<1>4. CASE numbers # {} /\ numbers # {1, 2}
  <2>1. PICK i \in numbers : i = CHOOSE j \in numbers : TRUE
    BY <1>4
  <2>2. Modules!Parts(version) = <<version[i]>>
    BY <1>4, <2>1 DEF Modules!Parts
  <2> QED
    BY <1>1, <2>1, <2>2 DEF Shape
<1> QED
  BY <1>2, <1>3, <1>4

\* The loop over the parts decides as the order of the parts does.
LEMMA GteIsNotOlder ==
    ASSUME NEW a \in Seq(Int), NEW b \in Seq(Int)
    PROVE  Modules!version_gte(a, b) <=> ~Older(Modules!Parts(a), Modules!Parts(b))
<1>1. PICK x, y : /\ x = Modules!Parts(a) /\ y = Modules!Parts(b)
                  /\ Shape(x) /\ Shape(y)
  BY PartsShape
<1> DEFINE differ == {i \in DOMAIN x : i \in DOMAIN y /\ x[i] # y[i]}
           first == CHOOSE i \in differ : \A j \in differ : i <= j
<1>2. Modules!version_gte(a, b) <=> IF differ = {} THEN Len(x) >= Len(y) ELSE x[first] > y[first]
  BY <1>1 DEF Modules!version_gte
<1>3. \A i \in differ : i \in {1, 2} /\ x[i] \in Nat /\ y[i] \in Nat
  BY <1>1 DEF Shape
<1>4. CASE 1 \in differ
  <2>1. first = 1
    BY <1>3, <1>4
  <2>2. x # <<>> /\ y # <<>> /\ x[1] # y[1]
    BY <1>4
  <2> HIDE DEF first
  <2> QED
    BY <1>1, <1>2, <1>3, <1>4, <2>1, <2>2 DEF Older
<1>5. CASE 1 \notin differ /\ 2 \in differ
  <2>1. first = 2
    BY <1>3, <1>5
  <2> HIDE DEF first
  <2>2. /\ Modules!version_gte(a, b) <=> x[2] > y[2]
        /\ x[2] \in Nat /\ y[2] \in Nat
        /\ 2 \in DOMAIN x /\ 2 \in DOMAIN y /\ x[2] # y[2]
    BY <1>2, <1>3, <1>5, <2>1
  <2>3. Len(x) = 2 /\ Len(y) = 2 /\ x # <<>> /\ y # <<>>
    BY <1>1, <2>2 DEF Shape
  <2>4. x[1] = y[1] /\ x[1] \in Nat
    BY <1>1, <1>5, <2>3 DEF Shape
  <2> QED
    BY <1>1, <2>2, <2>3, <2>4 DEF Older
<1>6. CASE differ = {}
  <2>1. Modules!version_gte(a, b) <=> Len(x) >= Len(y)
    BY <1>2, <1>6
  <2>2. \A i \in {1, 2} : i \in DOMAIN x /\ i \in DOMAIN y => x[i] = y[i]
    BY <1>6
  <2> HIDE DEF differ
  <2> QED
    BY <1>1, <2>1, <2>2 DEF Older, Shape
<1> QED
  BY <1>3, <1>4, <1>5, <1>6

\* The parts as two numbers, a missing one being zero: the order is the lexicographic one.
Major(x) == IF x = <<>> THEN 0 ELSE x[1] + 1
Minor(x) == IF Len(x) = 2 THEN x[2] + 1 ELSE 0
LEMMA OlderIsLexicographic ==
    ASSUME NEW x, NEW y, Shape(x), Shape(y)
    PROVE  /\ Major(x) \in Nat /\ Minor(x) \in Nat
           /\ Older(x, y) <=> Major(x) < Major(y) \/ (Major(x) = Major(y) /\ Minor(x) < Minor(y))
<1>1. ASSUME NEW z, Shape(z)
      PROVE  \/ z = <<>> /\ Len(z) = 0 /\ Major(z) = 0 /\ Minor(z) = 0
             \/ z # <<>> /\ Len(z) = 1 /\ z[1] \in Nat /\ Major(z) = z[1] + 1 /\ Minor(z) = 0
             \/ z # <<>> /\ Len(z) = 2 /\ z[1] \in Nat /\ z[2] \in Nat /\ Major(z) = z[1] + 1 /\ Minor(z) = z[2] + 1
  BY <1>1 DEF Shape, Major, Minor
<1> QED
  BY <1>1 DEF Older

\* The order of parts is total and transitive.
LEMMA OlderOrders ==
    ASSUME NEW x, NEW y, NEW z, Shape(x), Shape(y), Shape(z)
    PROVE  /\ ~(Older(x, y) /\ Older(y, x))
           /\ ~Older(x, y) /\ ~Older(y, z) => ~Older(x, z)
<1>1. \A v \in {x, y, z} : Major(v) \in Nat /\ Minor(v) \in Nat
  BY OlderIsLexicographic
<1>2. \A v, w \in {x, y, z} :
          Older(v, w) <=> Major(v) < Major(w) \/ (Major(v) = Major(w) /\ Minor(v) < Minor(w))
  BY OlderIsLexicographic
<1> QED
  BY <1>1, <1>2

\* A set of numbers has a least one.
LEMMA LeastElement ==
  ASSUME NEW T, T \subseteq Nat, T # {}
  PROVE  \E n \in T : \A m \in T : n <= m
<1>1. PICK R : R = OpToRel(<, Nat)
  OBVIOUS
<1>2. IsWellFoundedOn(R, Nat)
  BY <1>1, NatLessThanWellFounded
<1>3. PICK n \in T : \A m \in T : ~ (<<m, n>> \in R)
  BY <1>2, WFMin
<1>4. \A m \in T : (<<m, n>> \in R) <=> (m < n)
  BY <1>1 DEF OpToRel
<1>5. ASSUME NEW m \in T PROVE n <= m
  <2>1. ~ (m < n) /\ m \in Nat /\ n \in Nat
    BY <1>3, <1>4
  <2> QED
    BY <2>1
<1> QED
  BY <1>5

\* GoMod::find_module_root: an ancestor of a directory is a prefix of it, and each once.
LEMMA AncestorIsPrefix ==
    ASSUME NEW start \in Seq(STRING), NEW i \in DOMAIN Modules!Ancestors(start)
    PROVE  LET d == Modules!Ancestors(start)[i]
           IN  d \in Seq(STRING) /\ Modules!IsPrefix(d, start) /\ Len(d) = Len(start) + 1 - i
<1>1. i \in 1..(Len(start) + 1) /\ Modules!Ancestors(start)[i] = SubSeq(start, 1, Len(start) + 1 - i)
  BY DEF Modules!Ancestors
<1>2. PICK n \in 0..Len(start) : n = Len(start) + 1 - i
  BY <1>1
<1>3. PICK d \in Seq(STRING) : d = SubSeq(start, 1, n) /\ Len(d) = n
  <2>1. n \in Int /\ 1 \in Int /\ \A j \in 1..n : start[j] \in STRING
    BY <1>2
  <2>2. /\ SubSeq(start, 1, n) \in Seq(STRING)
        /\ Len(SubSeq(start, 1, n)) = IF 1 <= n THEN n - 1 + 1 ELSE 0
    BY <2>1, SubSeqProperties
  <2>3. Len(SubSeq(start, 1, n)) = n
    BY <1>2, <2>2
  <2> QED
    BY <2>2, <2>3
<1>4. SubSeq(d, 1, n) = d
  BY <1>3
<1>5. Modules!IsPrefix(d, start)
  BY <1>3, <1>4 DEF Modules!IsPrefix
<1> QED
  BY <1>1, <1>2, <1>3, <1>5

\* What a path starts with is one of its ancestors, at its depth.
LEMMA PrefixIsAncestor ==
    ASSUME NEW start \in Seq(STRING), NEW d \in Seq(STRING), Modules!IsPrefix(d, start)
    PROVE  LET i == Len(start) + 1 - Len(d)
           IN  i \in DOMAIN Modules!Ancestors(start) /\ Modules!Ancestors(start)[i] = d
<1>1. Len(d) \in Nat /\ Len(start) \in Nat /\ Len(d) <= Len(start) /\ d = SubSeq(start, 1, Len(d))
  BY DEF Modules!IsPrefix
<1> DEFINE i == Len(start) + 1 - Len(d)
<1>2. i \in 1..(Len(start) + 1) /\ Len(start) + 1 - i = Len(d)
  BY <1>1
<1> HIDE DEF i
<1>3. i \in DOMAIN Modules!Ancestors(start) /\ Modules!Ancestors(start)[i] = SubSeq(start, 1, Len(start) + 1 - i)
  BY <1>2 DEF Modules!Ancestors
<1> QED
  BY <1>1, <1>2, <1>3 DEF i

\* The module root is the closest directory with a go.mod at or above the start.
LEMMA RootIsClosest ==
    ASSUME NEW dirs \in SUBSET Seq(STRING), NEW start \in Seq(STRING)
    PROVE  LET root == Modules!find_module_root(dirs, start)
           IN  /\ (root = {}) <=> ~\E d \in dirs : Modules!IsPrefix(d, start)
               /\ \A r \in root : r \in dirs /\ Modules!IsPrefix(r, start)
                           /\ \A d \in dirs : Modules!IsPrefix(d, start) => Len(d) <= Len(r)
<1> DEFINE above == Modules!Ancestors(start)
           found == {i \in DOMAIN above : above[i] \in dirs}
           nearest == CHOOSE i \in found : \A j \in found : i <= j
<1>1. DOMAIN above \subseteq Nat
  BY DEF Modules!Ancestors
<1>2. \A i \in found : /\ i \in DOMAIN above /\ above[i] \in dirs
                       /\ Modules!IsPrefix(above[i], start) /\ Len(above[i]) = Len(start) + 1 - i
  BY AncestorIsPrefix
<1>3. ASSUME NEW d \in dirs, Modules!IsPrefix(d, start)
      PROVE  \E i \in found : above[i] = d /\ Len(d) = Len(start) + 1 - i
  <2>1. d \in Seq(STRING)
    OBVIOUS
  <2> DEFINE i == Len(start) + 1 - Len(d)
  <2>2. i \in DOMAIN above /\ above[i] = d
    BY <1>3, <2>1, PrefixIsAncestor
  <2>3. Len(d) \in Nat /\ Len(start) \in Nat
    BY <2>1
  <2>4. i \in found /\ Len(d) = Len(start) + 1 - i
    BY <2>2, <2>3
  <2> QED
    BY <2>2, <2>4
<1>4. Modules!find_module_root(dirs, start) = IF found = {} THEN {} ELSE {above[nearest]}
  BY DEF Modules!find_module_root
<1>5. CASE found = {}
  <2>1. Modules!find_module_root(dirs, start) = {} /\ ~\E d \in dirs : Modules!IsPrefix(d, start)
    BY <1>3, <1>4, <1>5
  <2> QED
    BY <2>1
<1>6. CASE found # {}
  <2>1. \E i \in found : \A j \in found : i <= j
    BY <1>1, <1>6, LeastElement
  <2>2. nearest \in found /\ \A j \in found : nearest <= j
    BY <2>1
  <2>3. PICK r : r = above[nearest] /\ Modules!find_module_root(dirs, start) = {r}
    BY <1>4, <1>6
  <2>4. PICK n \in Nat : n = nearest
    BY <1>1, <2>2
  <2> HIDE DEF nearest, found, above
  <2>5. r \in dirs /\ Modules!IsPrefix(r, start) /\ Len(r) = Len(start) + 1 - n
    BY <1>2, <2>2, <2>3, <2>4
  <2>6. ASSUME NEW d \in dirs, Modules!IsPrefix(d, start)
        PROVE  Len(d) <= Len(r)
    <3>1. PICK i \in found : Len(d) = Len(start) + 1 - i
      BY <1>3, <2>6
    <3>2. n <= i /\ i \in Nat
      BY <1>1, <1>2, <2>2, <2>4, <3>1
    <3> QED
      BY <2>5, <3>1, <3>2
  <2> QED
    BY <2>3, <2>5, <2>6
<1> QED
  BY <1>5, <1>6

\* Versions are totally ordered by GoMod::version_gte, whatever their parts are; a module
\* that accepts a Go version accepts a later one; the module root is the closest one; and
\* ModuleCache and CrossPackageIndex find what was added last under a key.
THEOREM VersionsAndRoots ==
    ASSUME NEW a \in Seq(Int), NEW b \in Seq(Int), NEW c \in Seq(Int),
           NEW dirs \in SUBSET Seq(STRING), NEW start \in Seq(STRING)
    PROVE  Modules!VersionsRight(a, b, c, dirs, start)
<1> DEFINE Gte(x, y) == Modules!version_gte(x, y)
           P(x) == Modules!Parts(x)
           required == [Modules!NewMod EXCEPT !.go = {b}]
<1>1. \A x, y \in {a, b, c} : Shape(P(x)) /\ (Gte(x, y) <=> ~Older(P(x), P(y)))
  BY PartsShape, GteIsNotOlder
<1>2. /\ Gte(a, b) \/ Gte(b, a)
      /\ Gte(a, b) /\ Gte(b, c) => Gte(a, c)
      /\ Gte(c, a) /\ Gte(a, b) => Gte(c, b)
  <2> HIDE DEF Gte, P
  <2>1. /\ ~(Older(P(a), P(b)) /\ Older(P(b), P(a)))
        /\ ~Older(P(a), P(b)) /\ ~Older(P(b), P(c)) => ~Older(P(a), P(c))
        /\ ~Older(P(c), P(a)) /\ ~Older(P(a), P(b)) => ~Older(P(c), P(b))
    BY <1>1, OlderOrders
  <2> QED
    BY <1>1, <2>1
<1>3. Gte(a, b) <=> ~Older(P(a), P(b))
  BY <1>1
<1>4. /\ Modules!satisfies_go_version(required, a) /\ Gte(c, a) => Modules!satisfies_go_version(required, c)
      /\ Modules!satisfies_go_version(Modules!NewMod, a)
  <2>1. required.go = {b} /\ Modules!NewMod.go = {}
    BY DEF Modules!NewMod
  <2> HIDE DEF required, Gte
  <2>2. ASSUME NEW v PROVE Modules!satisfies_go_version(required, v) <=> Gte(v, b)
    BY <2>1 DEF Modules!satisfies_go_version, Gte
  <2>3. Modules!satisfies_go_version(Modules!NewMod, a)
    BY <2>1 DEF Modules!satisfies_go_version
  <2> QED
    BY <1>2, <2>2, <2>3
<1>5. Modules!CacheGet(Modules!CacheAdd(Modules!CacheAdd(Modules!NoMap, "p", a, 1), "p", b, 2), "p", a)
          = {IF a = b THEN 2 ELSE 1}
  <2> DEFINE one == Modules!Put(Modules!NoMap, <<"p", a>>, 1)
             two == Modules!Put(one, <<"p", b>>, 2)
  <2>1. <<"p", a>> \in DOMAIN one /\ one[<<"p", a>>] = 1
    BY DEF Modules!Put
  <2>2. <<"p", a>> = <<"p", b>> <=> a = b
    OBVIOUS
  <2>3. <<"p", a>> \in DOMAIN two /\ two[<<"p", a>>] = IF a = b THEN 2 ELSE 1
    <3> HIDE DEF one
    <3> QED
      BY <2>1, <2>2 DEF Modules!Put
  <2> QED
    BY <2>3 DEF Modules!CacheGet, Modules!CacheAdd, Modules!Has
<1>6. Modules!goto_definition(Modules!register_symbol(Modules!register_symbol(Modules!NoMap, a, 1), b, 2), b) = {2}
  BY DEF Modules!goto_definition, Modules!register_symbol, Modules!Has, Modules!Put
<1> HIDE DEF Gte, P, required
<1> QED
  BY <1>2, <1>3, <1>4, <1>5, <1>6, RootIsClosest, Zenon
     DEF Modules!VersionsRight, Older, Gte, P, required

-----------------------------------------------------------------------------
(* Budgets.                                                                *)

\* Multiplying by a natural keeps the order.
LEMMA MulMonotone ==
    ASSUME NEW b \in Nat, NEW p \in Int, NEW q \in Int, p <= q
    PROVE  p * b <= q * b
  OBVIOUS

\* What the quotient of two naturals is.
LEMMA Quotient ==
    ASSUME NEW a \in Nat, NEW b \in Nat \ {0}
    PROVE  \E q \in Nat : q = a \div b /\ q * b <= a /\ a < (q + 1) * b
  OBVIOUS

\* A quotient is at most a number when the dividend is below the next multiple.
LEMMA DivAtMost ==
    ASSUME NEW a \in Nat, NEW b \in Nat \ {0}, NEW m \in Nat
    PROVE  (a \div b <= m) <=> a < (m + 1) * b
<1>1. PICK q \in Nat : q = a \div b /\ q * b <= a /\ a < (q + 1) * b
  BY Quotient
<1>2. CASE q <= m
  <2>1. (q + 1) * b <= (m + 1) * b
    BY <1>2, MulMonotone
  <2> QED
    BY <1>1, <1>2, <2>1
<1>3. CASE q > m
  <2>1. (m + 1) * b <= q * b
    BY <1>3, MulMonotone
  <2> QED
    BY <1>1, <1>3, <2>1
<1> QED
  BY <1>1, <1>2, <1>3

\* An average, of no calls too, is a number, and within a limit as the sum is.
LEMMA AverageAtMost ==
    ASSUME NEW stat \in Stats, NEW limit \in Nat
    PROVE  /\ Report!Divisor(stat) # 0 /\ Report!AverageTime(stat) \in Nat
           /\ (Report!AverageTime(stat) <= limit)
                  <=> stat.time < (limit + 1) * (IF stat.calls = 0 THEN 1 ELSE stat.calls)
<1>1. PICK calls \in Nat \ {0} : /\ calls = IF stat.calls = 0 THEN 1 ELSE stat.calls
                                 /\ calls = IF stat.calls > 1 THEN stat.calls ELSE 1
  BY DEF Stats
<1>0. calls < U32
  BY <1>1, U32Type DEF Stats
<1>2. PICK time \in Nat : time = stat.time
  BY DEF Stats
<1>3. Report!Divisor(stat) = calls /\ Report!AverageTime(stat) = time \div calls
  BY <1>0, <1>1, <1>2, Remainder DEF Report!AverageTime, Report!Divisor
<1>4. (time \div calls <= limit) <=> time < (limit + 1) * calls
  BY DivAtMost
<1>5. time \div calls \in Nat
  BY Quotient
<1> QED
  BY <1>1, <1>2, <1>3, <1>4, <1>5

\* What a status holds, measure by measure.
LEMMA StatusParts ==
    ASSUME NEW budget, NEW metrics
    PROVE  LET status == Report!check(budget, metrics)
               names == DOMAIN metrics.queries
               Average(name) == Report!AverageTime(metrics.queries[name])
           IN  /\ \A v : v \in status.violations <=>
                      \/ v = <<"MemoryExceeded">> /\ metrics.memory > budget.memory
                      \/ \E n \in names : v = <<"QueryTooSlow", n>> /\ Average(n) > budget.time
               /\ \A w : w \in status.warnings <=>
                      \/ w = <<"MemoryHigh">> /\ metrics.memory <= budget.memory
                                              /\ 5 * metrics.memory > 4 * budget.memory
                      \/ w = <<"LowCacheHitRate">> /\ metrics.hit_rate < 50 /\ metrics.total_queries > 100
                      \/ \E n \in names : /\ w = <<"QuerySlow", n>> /\ Average(n) <= budget.time
                                          /\ 5 * Average(n) > 4 * budget.time
<1> DEFINE names == DOMAIN metrics.queries
           Average(name) == Report!AverageTime(metrics.queries[name])
           Query(name) == Report!Over(Average(name), budget.time, <<"QueryTooSlow", name>>, <<"QuerySlow", name>>)
           memory == Report!Over(metrics.memory, budget.memory, <<"MemoryExceeded">>, <<"MemoryHigh">>)
           rate == IF metrics.hit_rate < 50 /\ metrics.total_queries > 100 THEN {<<"LowCacheHitRate">>} ELSE {}
           status == Report!check(budget, metrics)
<1>1. status = [violations |-> (UNION {Query(name).violations : name \in names}) \cup memory.violations,
                warnings |-> (UNION {Query(name).warnings : name \in names}) \cup memory.warnings \cup rate]
  BY DEF Report!check
<1>2. ASSUME NEW value, NEW limit, NEW violation, NEW warning
      PROVE  LET o == Report!Over(value, limit, violation, warning)
             IN  /\ \A v : v \in o.violations <=> v = violation /\ value > limit
                 /\ \A w : w \in o.warnings <=> w = warning /\ value <= limit /\ 5 * value > 4 * limit
  BY DEF Report!Over
<1>3. /\ \A v : v \in memory.violations <=> v = <<"MemoryExceeded">> /\ metrics.memory > budget.memory
      /\ \A w : w \in memory.warnings <=> w = <<"MemoryHigh">> /\ metrics.memory <= budget.memory
                                          /\ 5 * metrics.memory > 4 * budget.memory
  BY <1>2
<1>4. ASSUME NEW n \in names
      PROVE  /\ \A v : v \in Query(n).violations <=> v = <<"QueryTooSlow", n>> /\ Average(n) > budget.time
             /\ \A w : w \in Query(n).warnings <=> w = <<"QuerySlow", n>> /\ Average(n) <= budget.time
                                                   /\ 5 * Average(n) > 4 * budget.time
  BY <1>2
<1>5. \A w : w \in rate <=> w = <<"LowCacheHitRate">> /\ metrics.hit_rate < 50 /\ metrics.total_queries > 100
  OBVIOUS
<1> HIDE DEF Query, memory, rate, Average, names, status
<1>6. /\ status.violations = (UNION {Query(name).violations : name \in names}) \cup memory.violations
      /\ status.warnings = (UNION {Query(name).warnings : name \in names}) \cup memory.warnings \cup rate
  BY <1>1
<1>7. \A v : v \in status.violations <=>
          v \in memory.violations \/ \E n \in names : v \in Query(n).violations
  BY <1>6
<1>8. \A w : w \in status.warnings <=>
          w \in memory.warnings \/ w \in rate \/ \E n \in names : w \in Query(n).warnings
  BY <1>6
<1>9. \A v : v \in status.violations <=>
          \/ v = <<"MemoryExceeded">> /\ metrics.memory > budget.memory
          \/ \E n \in names : v = <<"QueryTooSlow", n>> /\ Average(n) > budget.time
  BY <1>3, <1>4, <1>7, Zenon
<1>10. \A w : w \in status.warnings <=>
          \/ w = <<"MemoryHigh">> /\ metrics.memory <= budget.memory /\ 5 * metrics.memory > 4 * budget.memory
          \/ w = <<"LowCacheHitRate">> /\ metrics.hit_rate < 50 /\ metrics.total_queries > 100
          \/ \E n \in names : /\ w = <<"QuerySlow", n>> /\ Average(n) <= budget.time
                              /\ 5 * Average(n) > 4 * budget.time
  BY <1>3, <1>4, <1>5, <1>8, Zenon
<1> QED
  BY <1>9, <1>10 DEF names, Average, status

\* A budget is kept exactly when memory and all averages are within their limits.
LEMMA OkIsWithin ==
    ASSUME NEW budget, NEW metrics
    PROVE  Report!is_ok(Report!check(budget, metrics)) <=>
               /\ ~(metrics.memory > budget.memory)
               /\ \A n \in DOMAIN metrics.queries : ~(Report!AverageTime(metrics.queries[n]) > budget.time)
<1>1. Report!is_ok(Report!check(budget, metrics)) <=>
          \A v : v \notin Report!check(budget, metrics).violations
  BY DEF Report!is_ok
<1> QED
  BY <1>1, StatusParts, Zenon

\* PerformanceBudget::check, for any limits and statistics: a budget is kept when no average
\* and not the memory is over its limit, nothing is both a violation and a warning, and
\* raising the limits or using less memory never breaks a budget that was kept.
THEOREM BudgetsKept ==
    ASSUME NEW budget \in Budgets, NEW metrics, Measured(metrics), NEW more \in Nat
    PROVE  Report!BudgetsRight(budget, metrics, more)
<1> DEFINE status == Report!check(budget, metrics)
           Raised == [budget EXCEPT !.time = @ + more, !.memory = @ + more]
           Less == [metrics EXCEPT !.memory = IF @ > more THEN @ - more ELSE 0]
           names == DOMAIN metrics.queries
           Average(n) == Report!AverageTime(metrics.queries[n])
           Within(n) == metrics.queries[n].time <
               (budget.time + 1) * (IF metrics.queries[n].calls = 0 THEN 1 ELSE metrics.queries[n].calls)
<1>1. /\ budget.time \in Nat /\ budget.memory \in Nat /\ metrics.memory \in Nat
      /\ metrics.hit_rate \in Nat /\ metrics.total_queries \in Nat
  BY DEF Budgets, Measured
<1>2. /\ Raised.time = budget.time + more /\ Raised.memory = budget.memory + more
      /\ Less.queries = metrics.queries
      /\ Less.memory = IF metrics.memory > more THEN metrics.memory - more ELSE 0
  BY DEF Budgets, Measured
<1>3. \A n \in names : Average(n) \in Nat /\ (Average(n) <= budget.time <=> Within(n))
  <2> SUFFICES ASSUME NEW n \in names
               PROVE  Average(n) \in Nat /\ (Average(n) <= budget.time <=> Within(n))
    OBVIOUS
  <2>1. PICK stat \in Stats : stat = metrics.queries[n]
    BY DEF Measured
  <2> QED
    BY <1>1, <2>1, AverageAtMost
<1>0. ~Report!Panics(metrics)
  <2> SUFFICES ASSUME NEW n \in names
               PROVE  Report!Divisor(metrics.queries[n]) # 0
    BY DEF Report!Panics
  <2>1. PICK stat \in Stats : stat = metrics.queries[n]
    BY DEF Measured
  <2> QED
    BY <1>1, <2>1, AverageAtMost
<1> HIDE DEF Raised, Less, Average, Within, names, status
<1>4. Report!is_ok(status) <=> metrics.memory <= budget.memory /\ \A n \in names : Average(n) <= budget.time
  BY <1>1, <1>3, OkIsWithin DEF status, names, Average
<1>5. Report!is_ok(Report!check(Raised, metrics)) <=>
          metrics.memory <= budget.memory + more /\ \A n \in names : Average(n) <= budget.time + more
  BY <1>1, <1>2, <1>3, OkIsWithin DEF names, Average
<1>6. Report!is_ok(Report!check(budget, Less)) <=>
          Less.memory <= budget.memory /\ \A n \in names : Average(n) <= budget.time
  <2>1. Less.memory \in Nat
    BY <1>1, <1>2
  <2> QED
    BY <1>1, <1>2, <1>3, <2>1, OkIsWithin DEF names, Average
<1>7. Report!is_ok(status) <=> metrics.memory <= budget.memory /\ \A n \in names : Within(n)
  BY <1>3, <1>4
<1>8. Report!is_ok(status) => Report!is_ok(Report!check(Raised, metrics)) /\ Report!is_ok(Report!check(budget, Less))
  <2> SUFFICES ASSUME Report!is_ok(status)
               PROVE  Report!is_ok(Report!check(Raised, metrics)) /\ Report!is_ok(Report!check(budget, Less))
    OBVIOUS
  <2>1. metrics.memory <= budget.memory + more /\ \A n \in names : Average(n) <= budget.time + more
    BY <1>1, <1>3, <1>4
  <2>2. Less.memory <= budget.memory
    BY <1>1, <1>2, <1>4
  <2> QED
    BY <1>4, <1>5, <1>6, <2>1, <2>2
<1>9. ~Report!has_warnings(status) /\ Report!is_ok(status) => \A n \in names : 5 * Average(n) <= 4 * budget.time
  <2> SUFFICES ASSUME ~Report!has_warnings(status), Report!is_ok(status), NEW n \in names
               PROVE  5 * Average(n) <= 4 * budget.time
    OBVIOUS
  <2>1. <<"QuerySlow", n>> \notin status.warnings
    BY DEF Report!has_warnings
  <2>2. ~(Average(n) <= budget.time /\ 5 * Average(n) > 4 * budget.time)
    BY <2>1, StatusParts, Zenon DEF status, names, Average
  <2> QED
    BY <1>1, <1>3, <1>4, <2>2
<1>10. \A n \in names : <<"QueryTooSlow", n>> \notin status.violations \/ <<"QuerySlow", n>> \notin status.warnings
  <2> SUFFICES ASSUME NEW n \in names, <<"QueryTooSlow", n>> \in status.violations,
                      <<"QuerySlow", n>> \in status.warnings
               PROVE  FALSE
    OBVIOUS
  <2>1. \/ <<"QueryTooSlow", n>> = <<"MemoryExceeded">>
        \/ \E m \in names : <<"QueryTooSlow", n>> = <<"QueryTooSlow", m>> /\ Average(m) > budget.time
    BY StatusParts, ZenonT(40) DEF status, names, Average
  <2>2. \/ <<"QuerySlow", n>> = <<"MemoryHigh">>
        \/ <<"QuerySlow", n>> = <<"LowCacheHitRate">>
        \/ \E m \in names : <<"QuerySlow", n>> = <<"QuerySlow", m>> /\ Average(m) <= budget.time
    BY StatusParts, ZenonT(40) DEF status, names, Average
  <2> QED
    BY <1>1, <1>3, <2>1, <2>2
<1>11. <<"MemoryExceeded">> \notin status.violations \/ <<"MemoryHigh">> \notin status.warnings
  <2> SUFFICES ASSUME <<"MemoryExceeded">> \in status.violations, <<"MemoryHigh">> \in status.warnings
               PROVE  FALSE
    OBVIOUS
  <2>1. \/ metrics.memory > budget.memory
        \/ \E n \in names : <<"MemoryExceeded">> = <<"QueryTooSlow", n>>
    BY StatusParts, ZenonT(40) DEF status, names, Average
  <2>2. \/ metrics.memory <= budget.memory
        \/ <<"MemoryHigh">> = <<"LowCacheHitRate">>
        \/ \E n \in names : <<"MemoryHigh">> = <<"QuerySlow", n>>
    BY StatusParts, ZenonT(40) DEF status, names, Average
  <2> QED
    BY <1>1, <2>1, <2>2
<1>12. metrics.total_queries <= 100 => <<"LowCacheHitRate">> \notin status.warnings
  <2> SUFFICES ASSUME <<"LowCacheHitRate">> \in status.warnings
               PROVE  metrics.total_queries > 100
    BY <1>1
  <2>1. \/ <<"LowCacheHitRate">> = <<"MemoryHigh">>
        \/ metrics.total_queries > 100
        \/ \E n \in names : <<"LowCacheHitRate">> = <<"QuerySlow", n>>
    BY StatusParts, ZenonT(40) DEF status, names, Average
  <2> QED
    BY <2>1
<1> QED
  BY <1>0, <1>7, <1>8, <1>9, <1>10, <1>11, <1>12, Zenon
     DEF Report!BudgetsRight, status, Raised, Less, names, Average, Within

-----------------------------------------------------------------------------
(* Annotations.                                                            *)

\* The cardinality the module of gradual typing counts with is the one of the library.
LEMMA SameCardinality == ASSUME NEW S PROVE Gradual!Cardinality(S) = Cardinality(S)
  BY DEF Gradual!Cardinality, Cardinality

\* The states of GradualChecker::analyze_annotations, by the counts it divides.
LEMMA CoverageStates ==
    ASSUME NEW a \in Nat, NEW u \in Nat
    PROVE  LET state == Gradual!State(Gradual!Coverage(a, u))
           IN  /\ state = "FullyAnnotated" <=> u = 0
               /\ state = "Unannotated" <=> u > 0 /\ 100 * a < a + u
               /\ state \in Gradual!AnnotationState
<1> DEFINE coverage == Gradual!Coverage(a, u)
<1>1. CASE a + u = 0
  <2>1. coverage = 100
    BY <1>1 DEF Gradual!Coverage
  <2> QED
    BY <1>1, <2>1 DEF Gradual!State, Gradual!AnnotationState
<1>2. CASE a + u # 0
  <2>1. PICK b \in Nat \ {0}, c \in Nat : b = a + u /\ c = a * 100
    BY <1>2
  <2>2. coverage = c \div b
    BY <1>2, <2>1 DEF Gradual!Coverage
  <2>3. PICK q \in Nat : q = coverage
    BY <2>2, Quotient
  <2>4. \A m \in Nat : q <= m <=> c < (m + 1) * b
    BY <2>2, <2>3, DivAtMost
  <2>5. /\ q <= 99 <=> a * 100 < 100 * (a + u)
        /\ q <= 100 <=> a * 100 < 101 * (a + u)
        /\ q <= 0 <=> a * 100 < a + u
    BY <2>1, <2>4
  <2>6. q = 100 <=> u = 0
    BY <1>2, <2>3, <2>5
  <2>7. q = 0 <=> 100 * a < a + u
    BY <2>3, <2>5
  <2>8. 100 * a < a + u => u > 0
    OBVIOUS
  <2> QED
    BY <2>3, <2>6, <2>7, <2>8 DEF Gradual!State, Gradual!AnnotationState
<1> QED
  BY <1>1, <1>2

\* Of finitely many names, those a file leaves without annotation decide whether it is
\* fully annotated.
LEMMA FullyAnnotated ==
    ASSUME NEW names, IsFiniteSet(names), NEW lines \in Seq(Gradual!Lines(names))
    PROVE  LET found == Gradual!TypeAnnotations(lines)
           IN  /\ found.state = "FullyAnnotated" <=> found.unannotated = {}
               /\ found.state \in Gradual!AnnotationState
<1> DEFINE all == Gradual!ToSet(lines)
           annotated == UNION {l.func : l \in {k \in all : k.mark # "none"}}
           unannotated == (UNION {l.func : l \in {k \in all : k.mark = "none"}})
                          \cup (UNION {l.var : l \in {k \in all : ~k.typed}})
           coverage == Gradual!Coverage(Cardinality(annotated), Cardinality(unannotated))
<1>1. /\ Gradual!TypeAnnotations(lines).unannotated = unannotated
      /\ Gradual!TypeAnnotations(lines).state = Gradual!State(coverage)
  <2>1. /\ Gradual!Cardinality(annotated) = Cardinality(annotated)
        /\ Gradual!Cardinality(unannotated) = Cardinality(unannotated)
    BY SameCardinality
  <2> QED
    BY <2>1 DEF Gradual!TypeAnnotations
<1>2. \A l \in all : l.func \subseteq names /\ l.var \subseteq names
  <2> SUFFICES ASSUME NEW l \in all
               PROVE  l.func \subseteq names /\ l.var \subseteq names
    OBVIOUS
  <2>1. l \in Gradual!Lines(names)
    BY DEF Gradual!ToSet
  <2> QED
    BY <2>1 DEF Gradual!Lines
<1>3. annotated \subseteq names /\ unannotated \subseteq names
  BY <1>2
<1> HIDE DEF annotated, unannotated
<1>4. /\ Cardinality(annotated) \in Nat /\ Cardinality(unannotated) \in Nat
      /\ Cardinality(unannotated) = 0 <=> unannotated = {}
  BY <1>3, FS_Subset, FS_CardinalityType, FS_EmptySet
<1>5. Gradual!State(coverage) = "FullyAnnotated" <=> unannotated = {}
  BY <1>4, CoverageStates
<1>6. Gradual!State(coverage) \in Gradual!AnnotationState
  BY <1>4, CoverageStates
<1> QED
  BY <1>1, <1>5, <1>6

\* MigrationTool::suggest_types suggests for what has no annotation, or one it overlooks.
LEMMA SuggestionsAreFor ==
    ASSUME NEW names, NEW lines \in Seq(Gradual!Lines(names)),
           NEW suggestion \in Gradual!suggest_types(lines)
    PROVE  \/ suggestion[1] \in Gradual!TypeAnnotations(lines).unannotated
           \/ \E l \in Gradual!ToSet(lines) : \/ l.typed /\ suggestion[1] \in l.var
                                              \/ l.mark = "colon" /\ suggestion[1] \in l.func
<1>1. PICK l \in Gradual!ToSet(lines) : suggestion \in Gradual!Suggested(l)
  BY DEF Gradual!suggest_types
<1>2. l \in Gradual!Lines(names)
  BY <1>1 DEF Gradual!ToSet
<1>3. /\ ~(l.func # {} /\ l.mark = "arrow")
      /\ suggestion[1] \in l.func \/ suggestion[1] \in l.var
  BY <1>1 DEF Gradual!Suggested
<1>4. Gradual!TypeAnnotations(lines).unannotated =
          (UNION {k.func : k \in {k \in Gradual!ToSet(lines) : k.mark = "none"}})
          \cup (UNION {k.var : k \in {k \in Gradual!ToSet(lines) : ~k.typed}})
  BY DEF Gradual!TypeAnnotations
<1>5. l.mark \in {"none", "colon", "arrow"} /\ l.typed \in BOOLEAN
  BY <1>2 DEF Gradual!Lines
<1> QED
  BY <1>3, <1>4, <1>5

\* MigrationTool::calculate_progress puts each file in one state, is complete exactly when
\* all are fully annotated, and reads zero when they are less than one in a hundred.
LEMMA Progress ==
    ASSUME NEW annotations, IsFiniteSet(DOMAIN annotations), DOMAIN annotations # {},
           \A f \in DOMAIN annotations : annotations[f].state \in Gradual!AnnotationState
    PROVE  LET progress == Gradual!calculate_progress(annotations)
           IN  /\ progress.untyped \in Nat /\ progress.total_files = Cardinality(DOMAIN annotations)
               /\ progress.total_files = progress.fully_typed + progress.partially_typed + progress.untyped
               /\ progress.fully_typed \in Nat /\ progress.partially_typed \in Nat
               /\ progress.twice_complete = 200
                      <=> \A f \in DOMAIN annotations : annotations[f].state = "FullyAnnotated"
               /\ progress.twice_complete = 0
                      <=> 100 * (2 * progress.fully_typed + progress.partially_typed) < progress.total_files
<1> DEFINE files == DOMAIN annotations
           In(state) == {f \in files : annotations[f].state = state}
           Count(state) == Cardinality(In(state))
           total == Cardinality(files)
           fully == Count("FullyAnnotated")
           partial == Count("PartiallyAnnotated")
           progress == Gradual!calculate_progress(annotations)
<1>1. progress = [total_files |-> total, fully_typed |-> fully, partially_typed |-> partial,
                  untyped |-> total - fully - partial,
                  twice_complete |-> IF total = 0 THEN 0 ELSE ((2 * fully + partial) * 100) \div total]
  <2>1. /\ Gradual!Cardinality(files) = Cardinality(files)
        /\ \A state : Gradual!Cardinality(In(state)) = Count(state)
    BY SameCardinality
  <2> QED
    BY <2>1 DEF Gradual!calculate_progress
<1>2. IsFiniteSet(In("FullyAnnotated")) /\ IsFiniteSet(In("PartiallyAnnotated"))
  BY FS_Subset
<1>3. total \in Nat \ {0} /\ fully \in Nat /\ partial \in Nat
  BY <1>2, FS_CardinalityType, FS_EmptySet
<1>4. fully + partial <= total
  <2>1. In("FullyAnnotated") \cap In("PartiallyAnnotated") = {}
    OBVIOUS
  <2>2. IsFiniteSet(In("FullyAnnotated") \cup In("PartiallyAnnotated"))
        /\ Cardinality(In("FullyAnnotated") \cup In("PartiallyAnnotated")) = fully + partial - Cardinality({})
    BY <1>2, <2>1, FS_Union
  <2>3. Cardinality(In("FullyAnnotated") \cup In("PartiallyAnnotated")) <= total
    BY FS_Subset
  <2> QED
    BY <1>3, <2>2, <2>3, FS_EmptySet
<1>5. fully = total <=> \A f \in files : annotations[f].state = "FullyAnnotated"
  <2>1. In("FullyAnnotated") \subseteq files
    OBVIOUS
  <2>2. fully = total <=> In("FullyAnnotated") = files
    BY <2>1, FS_Subset
  <2> QED
    BY <2>2
<1> HIDE DEF total, fully, partial, progress
<1>6. PICK n \in Nat \ {0}, f \in Nat, p \in Nat : n = total /\ f = fully /\ p = partial
  BY <1>3
<1>7. PICK c \in Nat : c = (2 * f + p) * 100
  OBVIOUS
<1>8. PICK q : q = c \div n
  OBVIOUS
<1>9. q \in Nat /\ \A m \in Nat : q <= m <=> c < (m + 1) * n
  BY <1>6, <1>7, <1>8, Quotient, DivAtMost
<1>10. /\ q <= 0 <=> c < n
       /\ q <= 199 <=> c < 200 * n
       /\ q <= 200 <=> c < 201 * n
  BY <1>9
<1>11. q = 0 <=> 100 * (2 * f + p) < n
  BY <1>7, <1>9, <1>10
<1>12. q = 200 <=> f = n
  BY <1>4, <1>6, <1>7, <1>9, <1>10
<1>13. progress.twice_complete = q /\ progress.untyped = n - f - p /\ progress.total_files = n
       /\ progress.fully_typed = f /\ progress.partially_typed = p
  BY <1>1, <1>6, <1>7, <1>8
<1> QED
  BY <1>4, <1>5, <1>6, <1>11, <1>12, <1>13 DEF progress, total

\* What is suggested is missing, a file is fully annotated when nothing is missing, and the
\* progress of a migration is complete when that holds of all (salsa_full/gradual.rs): for
\* any names, lines and counts.
THEOREM Annotations ==
    ASSUME NEW names, IsFiniteSet(names), NEW a \in Nat, NEW u \in Nat,
           NEW lines \in Seq(Gradual!Lines(names)), NEW again \in Seq(Gradual!Lines(names))
    PROVE  Gradual!AnnotationsRight(a, u, lines, again)
<1> DEFINE found == Gradual!TypeAnnotations(lines)
           other == Gradual!TypeAnnotations(again)
           one == Gradual!analyze_annotations(Gradual!NoMap, "one", lines)
           two == Gradual!analyze_annotations(one, "two", again)
           progress == Gradual!calculate_progress(two)
<1>1. /\ (Gradual!State(Gradual!Coverage(a, u)) = "FullyAnnotated") <=> u = 0
      /\ a = 0 /\ u > 0 => Gradual!State(Gradual!Coverage(a, u)) = "Unannotated"
  BY CoverageStates
<1>2. \A suggestion \in Gradual!suggest_types(lines) :
          \/ suggestion[1] \in found.unannotated
          \/ \E l \in Gradual!ToSet(lines) : \/ l.typed /\ suggestion[1] \in l.var
                                             \/ l.mark = "colon" /\ suggestion[1] \in l.func
  BY SuggestionsAreFor
<1>3. /\ found.state = "FullyAnnotated" <=> found.unannotated = {}
      /\ found.state \in Gradual!AnnotationState
      /\ other.state = "FullyAnnotated" <=> other.unannotated = {}
      /\ other.state \in Gradual!AnnotationState
  BY FullyAnnotated
<1> HIDE DEF found, other
<1>4. DOMAIN one = {"one"} /\ one["one"] = found
  BY DEF Gradual!analyze_annotations, Gradual!Put, Gradual!NoMap, found
<1> HIDE DEF one
<1>5. DOMAIN two = {"one", "two"} /\ two["one"] = found /\ two["two"] = other
  BY <1>4 DEF Gradual!analyze_annotations, Gradual!Put, other
<1>6. Gradual!analyze_annotations(two, "two", lines)["two"] = found
  BY DEF Gradual!analyze_annotations, Gradual!Put, found
<1> HIDE DEF two
<1>7. IsFiniteSet(DOMAIN two) /\ Cardinality(DOMAIN two) = 2
  <2>1. DOMAIN two = {"one"} \cup {"two"} /\ IsFiniteSet({"one"}) /\ Cardinality({"one"}) = 1
    BY <1>5, FS_Singleton
  <2>2. IsFiniteSet(DOMAIN two) /\ Cardinality(DOMAIN two) = IF "two" \in {"one"} THEN 1 ELSE 1 + 1
    BY <2>1, FS_AddElement
  <2> QED
    BY <2>2
<1>8. /\ progress.untyped \in Nat /\ progress.total_files = 2
      /\ progress.total_files = progress.fully_typed + progress.partially_typed + progress.untyped
      /\ progress.fully_typed \in Nat /\ progress.partially_typed \in Nat
      /\ progress.twice_complete = 200 <=> \A f \in DOMAIN two : two[f].state = "FullyAnnotated"
      /\ progress.twice_complete = 0
             <=> 100 * (2 * progress.fully_typed + progress.partially_typed) < progress.total_files
  BY <1>3, <1>5, <1>7, Progress, ZenonT(40)
<1>9. (progress.twice_complete = 200) <=> found.unannotated \cup two["two"].unannotated = {}
  BY <1>3, <1>5, <1>8
<1>10. (progress.twice_complete = 0) <=> progress.untyped = progress.total_files
  <2>1. PICK n, f, p, m : /\ n = progress.total_files /\ f = progress.fully_typed
                          /\ p = progress.partially_typed /\ m = progress.untyped
    OBVIOUS
  <2>2. n = 2 /\ f \in Nat /\ p \in Nat /\ m \in Nat /\ n = f + p + m
    BY <1>8, <2>1
  <2>3. 100 * (2 * f + p) < 2 <=> m = 2
    BY <2>2
  <2> QED
    BY <1>8, <2>1, <2>2, <2>3
<1>11. Gradual!calculate_progress(Gradual!NoMap).twice_complete = 0
  <2>1. Gradual!Cardinality(DOMAIN Gradual!NoMap) = 0
    BY FS_EmptySet, SameCardinality DEF Gradual!NoMap
  <2> QED
    BY <2>1 DEF Gradual!calculate_progress
<1> QED
  BY <1>1, <1>2, <1>5, <1>6, <1>8, <1>9, <1>10, <1>11
     DEF Gradual!AnnotationsRight, found, one, two

-----------------------------------------------------------------------------
(* Edits.                                                                  *)

Characters == {"c", "w", "n"}

\* Among the first k characters of a text, those that are ch are counted one by one.
LEMMA CountStep ==
    ASSUME NEW text \in Seq(Characters), NEW ch, NEW k \in 1..Len(text)
    PROVE  /\ Text!Count(text, 0, ch) = 0 /\ Text!Count(text, k, ch) \in Nat
           /\ Text!Count(text, k - 1, ch) \in Nat
           /\ Text!Count(text, k, ch) = Text!Count(text, k - 1, ch) + IF text[k] = ch THEN 1 ELSE 0
<1> DEFINE Set(n) == {i \in 1..n : text[i] = ch}
<1>1. \A n : Text!Count(text, n, ch) = Cardinality(Set(n))
  <2>1. \A S : Text!Cardinality(S) = Cardinality(S)
    BY DEF Text!Cardinality, Cardinality
  <2> QED
    BY <2>1 DEF Text!Count
<1>2. Len(text) \in Nat /\ k \in Nat /\ k - 1 \in Nat /\ k - 1 < k
  OBVIOUS
<1>3. Set(0) = {}
  OBVIOUS
<1>4. IsFiniteSet(Set(k - 1)) /\ IsFiniteSet(Set(k))
  <2>1. IsFiniteSet(1..(k - 1)) /\ IsFiniteSet(1..k)
    BY <1>2, FS_Interval
  <2>2. Set(k - 1) \subseteq 1..(k - 1) /\ Set(k) \subseteq 1..k
    OBVIOUS
  <2> QED
    BY <2>1, <2>2, FS_Subset
<1>5. k \notin Set(k - 1)
  BY <1>2
<1>6. Set(k) = IF text[k] = ch THEN Set(k - 1) \cup {k} ELSE Set(k - 1)
  <2>1. \A i : i \in 1..k <=> i \in 1..(k - 1) \/ i = k
    BY <1>2
  <2> QED
    BY <2>1
<1> HIDE DEF Set
<1>7. Cardinality(Set(k - 1) \cup {k}) = Cardinality(Set(k - 1)) + 1
  BY <1>4, <1>5, FS_AddElement
<1>8. Cardinality(Set(k - 1)) \in Nat /\ Cardinality(Set(k)) \in Nat
  BY <1>4, FS_CardinalityType
<1>9. Cardinality(Set(0)) = 0
  BY <1>3, FS_EmptySet
<1>10. CASE text[k] = ch
  <2>1. Cardinality(Set(k)) = Cardinality(Set(k - 1)) + 1
    BY <1>6, <1>7, <1>10
  <2> QED
    BY <1>1, <1>8, <1>9, <1>10, <2>1
<1>11. CASE text[k] # ch
  <2>1. Cardinality(Set(k)) = Cardinality(Set(k - 1))
    BY <1>6, <1>11
  <2> QED
    BY <1>1, <1>8, <1>9, <1>11, <2>1
<1> QED
  BY <1>10, <1>11

\* Counts are numbers.
LEMMA CountType ==
    ASSUME NEW text \in Seq(Characters), NEW ch, NEW k \in 0..Len(text)
    PROVE  Text!Count(text, k, ch) \in Nat
<1>1. CASE k \in 1..Len(text)
  BY <1>1, CountStep
<1>2. CASE k = 0
  <2>1. {i \in 1..0 : text[i] = ch} = {}
    OBVIOUS
  <2>2. Text!Cardinality({}) = 0
    BY FS_EmptySet DEF Text!Cardinality, Cardinality
  <2> QED
    BY <1>2, <2>1, <2>2 DEF Text!Count
<1> QED
  BY <1>1, <1>2

\* A count never falls, and stays as long as the character does not come.
LEMMA CountMonotone ==
    ASSUME NEW text \in Seq(Characters), NEW ch, NEW j \in 0..Len(text), NEW k \in j..Len(text)
    PROVE  /\ Text!Count(text, j, ch) <= Text!Count(text, k, ch)
           /\ Text!Count(text, j, ch) = Text!Count(text, k, ch) <=> \A i \in (j + 1)..k : text[i] # ch
<1> DEFINE C(n) == Text!Count(text, n, ch)
           Good(n) == C(j) <= C(n) /\ (C(j) = C(n) <=> \A i \in (j + 1)..n : text[i] # ch)
           Bad == {n \in j..Len(text) : ~Good(n)}
<1>0. Len(text) \in Nat /\ j \in Nat /\ k \in Nat
  OBVIOUS
<1>1. \A n \in 0..Len(text) : C(n) \in Nat
  BY CountType
<1>2. \A n \in 1..Len(text) : C(n) = C(n - 1) + IF text[n] = ch THEN 1 ELSE 0
  BY CountStep
<1> HIDE DEF C
<1> SUFFICES ASSUME ~Good(k)
             PROVE  FALSE
  BY DEF C
<1>3. Bad # {}
  OBVIOUS
<1>4. PICK n \in Bad : \A m \in Bad : n <= m
  <2>1. Bad \subseteq Nat
    BY <1>0
  <2> QED
    BY <1>3, <2>1, LeastElement
<1>5. n \in Nat /\ j <= n /\ n <= Len(text) /\ ~Good(n)
  BY <1>0, <1>4
<1>6. CASE n = j
  <2>1. Good(n)
    BY <1>0, <1>1, <1>6
  <2> QED
    BY <1>5, <2>1
<1>7. CASE n # j
  <2>1. n - 1 \in j..Len(text) /\ n - 1 < n /\ n \in 1..Len(text) /\ n - 1 \in 0..Len(text)
    BY <1>0, <1>5, <1>7
  <2>2. Good(n - 1)
    BY <1>4, <2>1
  <2>3. C(n) = C(n - 1) + IF text[n] = ch THEN 1 ELSE 0
    BY <1>2, <2>1
  <2>4. \A i : i \in (j + 1)..n <=> i \in (j + 1)..(n - 1) \/ i = n
    BY <1>0, <1>5, <1>7, <2>1
  <2>5. (\A i \in (j + 1)..n : text[i] # ch) <=> (\A i \in (j + 1)..(n - 1) : text[i] # ch) /\ text[n] # ch
    BY <2>4
  <2>6. C(j) \in Nat /\ C(n - 1) \in Nat /\ C(n) \in Nat
    BY <1>0, <1>1, <1>5, <2>1
  <2>7. CASE text[n] = ch
    <3>1. C(n) = C(n - 1) + 1 /\ C(j) <= C(n - 1)
      BY <2>2, <2>3, <2>7
    <3>2. C(j) <= C(n) /\ C(j) # C(n)
      BY <2>6, <3>1
    <3> QED
      BY <1>5, <2>5, <2>7, <3>2
  <2>8. CASE text[n] # ch
    <3>1. C(n) = C(n - 1)
      BY <2>3, <2>6, <2>8
    <3> QED
      BY <1>5, <2>2, <2>5, <2>8, <3>1
  <2> QED
    BY <2>7, <2>8
<1> QED
  BY <1>6, <1>7

\* More characters take more bytes.
LEMMA BytesIncrease ==
    ASSUME NEW text \in Seq(Characters), NEW j \in 0..Len(text), NEW k \in 0..Len(text)
    PROVE  /\ Text!Bytes(text, j) \in Nat
           /\ Text!Bytes(text, j) < Text!Bytes(text, k) <=> j < k
           /\ Text!Bytes(text, j) = Text!Bytes(text, k) <=> j = k
<1> DEFINE C(n) == Text!Count(text, n, "w")
<1>0. Len(text) \in Nat /\ j \in Nat /\ k \in Nat
  OBVIOUS
<1>1. C(j) \in Nat /\ C(k) \in Nat
  BY CountType
<1>2. Text!Bytes(text, j) = j + C(j) /\ Text!Bytes(text, k) = k + C(k)
  BY DEF Text!Bytes
<1>3. j <= k => C(j) <= C(k)
  <2>1. j <= k => k \in j..Len(text)
    BY <1>0
  <2> QED
    BY <2>1, CountMonotone
<1>4. k <= j => C(k) <= C(j)
  <2>1. k <= j => j \in k..Len(text)
    BY <1>0
  <2> QED
    BY <2>1, CountMonotone
<1> HIDE DEF C
<1> QED
  BY <1>0, <1>1, <1>2, <1>3, <1>4

\* A set of natural numbers up to a bound has a greatest element.
LEMMA GreatestElement ==
    ASSUME NEW bound \in Nat, NEW S \in SUBSET (0..bound), S # {}
    PROVE  \E n \in S : \A m \in S : m <= n
<1> DEFINE T == {n \in Nat : bound - n \in S}
<1>1. PICK m \in S : TRUE
  OBVIOUS
<1>2. m \in Nat /\ m <= bound /\ bound - m \in Nat /\ bound - (bound - m) = m
  OBVIOUS
<1>3. T # {} /\ T \subseteq Nat
  BY <1>1, <1>2
<1>4. PICK n \in T : \A k \in T : n <= k
  BY <1>3, LeastElement
<1>5. bound - n \in S
  BY <1>4
<1>6. \A k \in S : k <= bound - n
  <2> SUFFICES ASSUME NEW k \in S
               PROVE  k <= bound - n
    OBVIOUS
  <2>1. k \in Nat /\ k <= bound /\ bound - k \in Nat /\ bound - (bound - k) = k
    OBVIOUS
  <2>2. bound - k \in T
    BY <2>1
  <2>3. n <= bound - k /\ n \in Nat
    BY <1>4, <2>2
  <2> QED
    BY <2>1, <2>3
<1> QED
  BY <1>5, <1>6

\* The places in a text that have so many newlines before them are those from a first to
\* a last one, the first being that of the text or one after a newline.
LineAt(text, line, s, e) ==
    /\ s \in 0..Len(text) /\ e \in 0..Len(text) /\ s <= e
    /\ \A k \in 0..Len(text) : Text!Newlines(text, k) = line <=> s <= k /\ k <= e
    /\ s # 0 => text[s] = "n"

\* Each line up to the last one is somewhere.
LEMMA LineIsSomewhere ==
    ASSUME NEW text \in Seq(Characters), NEW line \in Nat,
           line <= Text!Newlines(text, Len(text))
    PROVE  \E s, e : LineAt(text, line, s, e)
<1> DEFINE N(n) == Text!Newlines(text, n)
           Past == {k \in 0..Len(text) : line <= N(k)}
           Here == {k \in 0..Len(text) : N(k) = line}
<1>0. Len(text) \in Nat
  OBVIOUS
<1>1. /\ \A n \in 0..Len(text) : N(n) \in Nat
      /\ \A n \in 1..Len(text) : N(n) = N(n - 1) + IF text[n] = "n" THEN 1 ELSE 0
      /\ \A j \in 0..Len(text) : \A k \in j..Len(text) : N(j) <= N(k)
  BY CountType, CountStep, CountMonotone DEF Text!Newlines
<1>2. N(0) = 0
  <2>1. {i \in 1..0 : text[i] = "n"} = {}
    OBVIOUS
  <2>2. Text!Cardinality({}) = 0
    BY FS_EmptySet DEF Text!Cardinality, Cardinality
  <2> QED
    BY <2>1, <2>2 DEF Text!Newlines, Text!Count
<1>3. line <= N(Len(text))
  OBVIOUS
<1> HIDE DEF N
<1>4. PICK s \in Past : \A k \in Past : s <= k
  <2>1. Past # {} /\ Past \subseteq Nat
    BY <1>0, <1>3
  <2> QED
    BY <2>1, LeastElement
<1>5. s \in Nat /\ s <= Len(text) /\ line <= N(s)
  BY <1>0, <1>4
<1>6. N(s) = line /\ (s # 0 => text[s] = "n")
  <2>1. CASE s = 0
    BY <1>2, <1>5, <2>1
  <2>2. CASE s # 0
    <3>1. s \in 1..Len(text) /\ s - 1 \in 0..Len(text) /\ s - 1 < s
      BY <1>0, <1>5, <2>2
    <3>2. s - 1 \notin Past
      BY <1>4, <1>5, <3>1
    <3>3. N(s - 1) \in Nat /\ N(s - 1) < line
      BY <1>1, <3>1, <3>2
    <3>4. N(s) = N(s - 1) + IF text[s] = "n" THEN 1 ELSE 0
      BY <1>1, <3>1
    <3> QED
      BY <1>5, <3>3, <3>4
  <2> QED
    BY <2>1, <2>2
<1>7. PICK e \in Here : \A k \in Here : k <= e
  <2>1. s \in Here /\ Here \subseteq 0..Len(text)
    BY <1>0, <1>5, <1>6
  <2> QED
    BY <1>0, <2>1, GreatestElement
<1>8. e \in Nat /\ e <= Len(text) /\ N(e) = line /\ s <= e
  <2>1. s \in Here
    BY <1>0, <1>5, <1>6
  <2> QED
    BY <1>0, <1>7, <2>1
<1>9. ASSUME NEW k \in 0..Len(text)
      PROVE  N(k) = line <=> s <= k /\ k <= e
  <2>1. N(k) = line => s <= k /\ k <= e
    BY <1>4, <1>7
  <2>2. s <= k /\ k <= e => N(s) <= N(k) /\ N(k) <= N(e)
    BY <1>0, <1>1, <1>5, <1>8
  <2> QED
    BY <1>1, <1>5, <1>6, <1>8, <2>1, <2>2
<1>10. LineAt(text, line, s, e)
  BY <1>0, <1>5, <1>6, <1>8, <1>9 DEF LineAt, N
<1> QED
  BY <1>10

\* SourceFile::offset_to_position counts lines and columns from the first place of a line.
LEMMA PositionOf ==
    ASSUME NEW text \in Seq(Characters), NEW line, NEW s, NEW e, LineAt(text, line, s, e),
           NEW k \in s..e
    PROVE  Text!offset_to_position(text, Text!Bytes(text, k)) = <<line, k - s>>
<1> DEFINE before == Text!Before(text, Text!Bytes(text, k))
           Lines == {i \in before : text[i] = "n"}
           Columns == {i \in before : \A j \in before : j >= i => text[j] # "n"}
<1>0. /\ Len(text) \in Nat /\ s \in Nat /\ e \in Nat /\ e <= Len(text) /\ k \in Nat /\ s <= k /\ k <= e
      /\ k \in 0..Len(text)
  BY DEF LineAt
<1>1. before = 1..k
  <2>1. ASSUME NEW i \in 1..Len(text)
        PROVE  Text!Bytes(text, i - 1) < Text!Bytes(text, k) <=> i <= k
    <3>1. i - 1 \in 0..Len(text) /\ (i - 1 < k <=> i <= k)
      BY <1>0
    <3> QED
      BY <1>0, <3>1, BytesIncrease
  <2>2. \A i : i \in before <=> i \in 1..Len(text) /\ i <= k
    BY <2>1 DEF Text!Before
  <2> HIDE DEF before
  <2>3. \A i : i \in before <=> i \in 1..k
    BY <1>0, <2>2
  <2> QED
    BY <2>3
<1>2. Text!Newlines(text, k) = line /\ Text!Newlines(text, s) = line
  BY <1>0 DEF LineAt
<1>3. Text!Cardinality(Lines) = line
  BY <1>1, <1>2 DEF Text!Newlines, Text!Count
<1>4. \A i \in (s + 1)..k : text[i] # "n"
  <2>1. s \in 0..Len(text) /\ k \in s..Len(text)
    BY <1>0
  <2> QED
    BY <1>2, <2>1, CountMonotone DEF Text!Newlines
<1>5. s # 0 => text[s] = "n"
  BY DEF LineAt
<1> HIDE DEF before
<1>6. \A i : i \in Columns <=> i \in (s + 1)..k
  <2>1. ASSUME NEW i \in Columns
        PROVE  i \in (s + 1)..k
    <3>1. i \in Nat /\ 1 <= i /\ i <= k
      BY <1>0, <1>1
    <3>2. s \in before /\ s >= i => text[s] # "n"
      OBVIOUS
    <3>3. i <= s => s \in before
      BY <1>0, <1>1, <3>1
    <3> QED
      BY <1>0, <1>5, <3>1, <3>2, <3>3
  <2>2. ASSUME NEW i \in (s + 1)..k
        PROVE  i \in Columns
    <3>1. i \in before
      BY <1>0, <1>1
    <3>2. \A j \in before : j >= i => j \in (s + 1)..k
      BY <1>0, <1>1
    <3> QED
      BY <1>4, <3>1, <3>2
  <2> QED
    BY <2>1, <2>2
<1>7. Columns = (s + 1)..k
  BY <1>6
<1>8. Cardinality((s + 1)..k) = k - s
  <2>1. s + 1 \in Int /\ k \in Int
    BY <1>0
  <2>2. Cardinality((s + 1)..k) = IF s + 1 > k THEN 0 ELSE k - (s + 1) + 1
    BY <2>1, FS_Interval
  <2> QED
    BY <1>0, <2>2
<1>9. Text!Cardinality(Columns) = k - s
  <2>1. Text!Cardinality((s + 1)..k) = Cardinality((s + 1)..k)
    BY DEF Text!Cardinality, Cardinality
  <2> QED
    BY <1>7, <1>8, <2>1
<1> QED
  BY <1>3, <1>9 DEF Text!offset_to_position, before

\* The length of a line is what lies between its first place and its last.
LEMMA LengthOf ==
    ASSUME NEW text \in Seq(Characters), NEW line, NEW s, NEW e, LineAt(text, line, s, e)
    PROVE  Text!LineLength(text, line) = e - s
<1> DEFINE Set == {k \in 1..Len(text) : Text!Newlines(text, k - 1) = line /\ text[k] # "n"}
<1>0. Len(text) \in Nat /\ s \in Nat /\ e \in Nat /\ e <= Len(text) /\ s <= e
  BY DEF LineAt
<1>1. ASSUME NEW k \in 1..Len(text)
      PROVE  k \in Set <=> k \in (s + 1)..e
  <2>1. k \in Nat /\ k \in 0..Len(text) /\ k - 1 \in 0..Len(text)
    BY <1>0
  <2>2. /\ Text!Newlines(text, k - 1) \in Nat
        /\ Text!Newlines(text, k) = Text!Newlines(text, k - 1) + IF text[k] = "n" THEN 1 ELSE 0
    BY CountStep DEF Text!Newlines
  <2>3. k \in Set <=> Text!Newlines(text, k - 1) = line /\ Text!Newlines(text, k) = line
    BY <2>2
  <2>4. /\ Text!Newlines(text, k - 1) = line <=> s <= k - 1 /\ k - 1 <= e
        /\ Text!Newlines(text, k) = line <=> s <= k /\ k <= e
    BY <2>1 DEF LineAt
  <2> QED
    BY <1>0, <2>1, <2>3, <2>4
<1>2. Set = (s + 1)..e
  <2>1. \A k : k \in (s + 1)..e => k \in 1..Len(text)
    BY <1>0
  <2>2. \A k : k \in Set => k \in 1..Len(text)
    OBVIOUS
  <2>3. \A k : k \in Set <=> k \in (s + 1)..e
    BY <1>1, <2>1, <2>2
  <2> QED
    BY <2>3
<1>3. Cardinality((s + 1)..e) = e - s
  <2>1. s + 1 \in Int /\ e \in Int
    BY <1>0
  <2>2. Cardinality((s + 1)..e) = IF s + 1 > e THEN 0 ELSE e - (s + 1) + 1
    BY <2>1, FS_Interval
  <2> QED
    BY <1>0, <2>2
<1>4. Text!Cardinality((s + 1)..e) = Cardinality((s + 1)..e)
  BY DEF Text!Cardinality, Cardinality
<1> QED
  BY <1>2, <1>3, <1>4 DEF Text!LineLength

\* A column of a line is counted on from its first place, up to the end of the text.
LEMMA OffsetOf ==
    ASSUME NEW text \in Seq(Characters), NEW line, NEW s, NEW e, LineAt(text, line, s, e),
           NEW col \in Nat, s + col <= Len(text)
    PROVE  Text!position_to_offset(text, line, col) = Text!Bytes(text, s + col)
<1> DEFINE starts == {k \in 0..(Len(text) - 1) : Text!Newlines(text, k) = line}
<1>0. Len(text) \in Nat /\ s \in Nat /\ e \in Nat /\ e <= Len(text) /\ s <= e
  BY DEF LineAt
<1>1. \A k : k \in starts <=> k \in 0..(Len(text) - 1) /\ s <= k /\ k <= e
  <2>1. \A k \in 0..(Len(text) - 1) : k \in 0..Len(text)
    BY <1>0
  <2> QED
    BY <2>1 DEF LineAt
<1>2. CASE s = Len(text)
  <2>1. starts = {}
    BY <1>0, <1>1, <1>2
  <2>2. s + col = Len(text)
    BY <1>0, <1>2
  <2> QED
    BY <2>1, <2>2 DEF Text!position_to_offset, Text!Size
<1>3. CASE s # Len(text)
  <2> HIDE DEF starts
  <2>1. s \in starts /\ \A k \in starts : s <= k
    <3>1. s \in 0..(Len(text) - 1)
      BY <1>0, <1>3
    <3> QED
      BY <1>0, <1>1, <3>1
  <2>2. \A k \in starts : k \in Nat
    BY <1>0, <1>1
  <2>3. s = CHOOSE k \in starts : \A j \in starts : k <= j
    <3>1. PICK t : t = CHOOSE k \in starts : \A j \in starts : k <= j
      OBVIOUS
    <3>2. t \in starts /\ \A j \in starts : t <= j
      BY <2>1, <3>1
    <3>3. t <= s /\ s <= t /\ t \in Nat
      BY <2>1, <2>2, <3>2
    <3> QED
      BY <1>0, <3>1, <3>3
  <2>4. starts # {}
    BY <2>1
  <2> QED
    BY <2>3, <2>4 DEF Text!position_to_offset, starts
<1> QED
  BY <1>2, <1>3

\* Whatever the position, its offset is that of a place in the text.
LEMMA OffsetIsAPlace ==
    ASSUME NEW text \in Seq(Characters), NEW line \in Nat, NEW col \in Nat
    PROVE  \E k \in 0..Len(text) : Text!position_to_offset(text, line, col) = Text!Bytes(text, k)
<1> DEFINE starts == {k \in 0..(Len(text) - 1) : Text!Newlines(text, k) = line}
           start == CHOOSE k \in starts : \A j \in starts : k <= j
<1>0. Len(text) \in Nat /\ Len(text) \in 0..Len(text)
  OBVIOUS
<1>1. CASE starts = {}
  BY <1>0, <1>1 DEF Text!position_to_offset, Text!Size
<1>2. CASE starts # {}
  <2>1. starts \subseteq Nat /\ starts \subseteq 0..Len(text)
    BY <1>0
  <2>2. start \in starts
    BY <1>2, <2>1, LeastElement
  <2> HIDE DEF start
  <2>3. (IF start + col <= Len(text) THEN start + col ELSE Len(text)) \in 0..Len(text)
    BY <1>0, <2>1, <2>2
  <2>4. Text!position_to_offset(text, line, col) =
            Text!Bytes(text, IF start + col <= Len(text) THEN start + col ELSE Len(text))
    BY <1>2 DEF Text!position_to_offset, start
  <2> QED
    BY <2>3, <2>4
<1> QED
  BY <1>1, <1>2

\* Replacing between two places of a text replaces the characters between them.
LEMMA ReplacedBetween ==
    ASSUME NEW text \in Seq(Characters), NEW i \in 0..Len(text), NEW j \in 0..Len(text), NEW new
    PROVE  Text!Replaced(text, Text!Bytes(text, i), Text!Bytes(text, j), new) =
               IF j < i THEN Text!Panics ELSE SubSeq(text, 1, i) \o new \o SubSeq(text, j + 1, Len(text))
<1>1. \A k \in 0..Len(text) : Text!Boundary(text, Text!Bytes(text, k)) = {k}
  <2> SUFFICES ASSUME NEW k \in 0..Len(text)
               PROVE  Text!Boundary(text, Text!Bytes(text, k)) = {k}
    OBVIOUS
  <2>1. \A n \in 0..Len(text) : Text!Bytes(text, n) = Text!Bytes(text, k) <=> n = k
    BY BytesIncrease
  <2> QED
    BY <2>1 DEF Text!Boundary
<1>2. Text!Boundary(text, Text!Bytes(text, i)) = {i} /\ Text!Boundary(text, Text!Bytes(text, j)) = {j}
  BY <1>1
<1>3. Text!Bytes(text, i) > Text!Bytes(text, j) <=> j < i
  BY BytesIncrease
<1>4. {} \notin {{i}, {j}} /\ (CHOOSE k \in {i} : TRUE) = i /\ (CHOOSE k \in {j} : TRUE) = j
  OBVIOUS
<1> QED
  BY <1>2, <1>3, <1>4 DEF Text!Replaced

\* Positions and offsets of any text stand for each other, in order; an edit between two
\* positions replaces the characters from the first up to the second, and panics when its
\* end is before its start; and it is the same by offsets: position_to_offset and
\* apply_change of salsa/inputs.rs, offset_to_position and apply_change of
\* salsa_full/inputs.rs.
THEOREM Edits ==
    ASSUME NEW text \in Seq(Characters), NEW new \in Seq(Characters),
           NEW from \in Nat \X Nat, NEW to \in Nat \X Nat
    PROVE  Text!EditsRight(text, from, to, new)
<1> DEFINE Offset(pos) == Text!position_to_offset(text, pos[1], pos[2])
           At(k) == Text!offset_to_position(text, Text!Bytes(text, k))
           Less(p, q) == p[1] < q[1] \/ (p[1] = q[1] /\ p[2] < q[2])
           edited == Text!ApplyPositions(text, from, to, new)
           file == [text |-> text, version |-> 1]
           Existing(pos) == Text!Exists(text, pos)
           Spot(pos, k) == /\ k \in 0..Len(text) /\ At(k) = pos /\ Offset(pos) = Text!Bytes(text, k)
                           /\ pos[1] = Text!Newlines(text, k)
                           /\ \E s, e : LineAt(text, pos[1], s, e) /\ k = s + pos[2]
<1>0. Len(text) \in Nat /\ Len(text) \in 0..Len(text)
  OBVIOUS
<1>1. ASSUME NEW k \in 0..Len(text)
      PROVE  Existing(At(k)) /\ Offset(At(k)) = Text!Bytes(text, k)
  <2> DEFINE line == Text!Newlines(text, k)
  <2>1. line \in Nat /\ line <= Text!Newlines(text, Len(text))
    <3>1. Len(text) \in k..Len(text)
      BY <1>0
    <3> QED
      BY <3>1, CountType, CountMonotone DEF Text!Newlines
  <2>2. PICK s, e : LineAt(text, line, s, e)
    BY <2>1, LineIsSomewhere
  <2>3. s \in Nat /\ e \in Nat /\ k \in s..e /\ e <= Len(text) /\ k - s \in Nat /\ k - s <= e - s /\ s + (k - s) = k
    BY <2>2 DEF LineAt
  <2>4. At(k) = <<line, k - s>>
    BY <2>2, <2>3, PositionOf
  <2>5. Text!LineLength(text, line) = e - s
    BY <2>2, LengthOf
  <2> HIDE DEF line
  <2>6. Text!position_to_offset(text, line, k - s) = Text!Bytes(text, s + (k - s))
    <3>1. PICK c : c = k - s
      OBVIOUS
    <3>2. c \in Nat
      BY <1>0, <2>3, <3>1
    <3>3. s + c <= Len(text)
      BY <1>0, <2>3, <3>1
    <3>4. Text!position_to_offset(text, line, c) = Text!Bytes(text, s + c)
      BY <2>2, <3>2, <3>3, OffsetOf
    <3> QED
      BY <3>1, <3>4
  <2> QED
    BY <2>1, <2>3, <2>4, <2>5, <2>6 DEF Text!Exists
<1>2. ASSUME NEW pos \in Nat \X Nat, Existing(pos)
      PROVE  \E k : Spot(pos, k)
  <2>1. pos[1] \in Nat /\ pos[2] \in Nat /\ pos = <<pos[1], pos[2]>> /\ pos[1] <= Text!Newlines(text, Len(text))
    BY <1>2 DEF Text!Exists
  <2>2. PICK s, e : LineAt(text, pos[1], s, e)
    BY <2>1, LineIsSomewhere
  <2>3. pos[2] <= e - s
    BY <1>2, <2>2, LengthOf DEF Text!Exists
  <2>4. PICK k : k = s + pos[2]
    OBVIOUS
  <2>5. s \in Nat /\ e \in Nat /\ e <= Len(text) /\ k \in s..e /\ k - s = pos[2] /\ s + pos[2] <= Len(text)
        /\ k \in 0..Len(text)
    <3>1. s \in Nat /\ e \in Nat /\ s <= e /\ e <= Len(text)
      BY <2>2 DEF LineAt
    <3> QED
      BY <1>0, <2>1, <2>3, <2>4, <3>1
  <2>6. At(k) = <<pos[1], k - s>>
    BY <2>2, <2>5, PositionOf
  <2>7. Offset(pos) = Text!Bytes(text, s + pos[2])
    BY <2>1, <2>2, <2>5, OffsetOf
  <2>8. pos[1] = Text!Newlines(text, k)
    BY <2>2, <2>5 DEF LineAt
  <2> HIDE DEF At, Offset
  <2>9. Spot(pos, k)
    BY <2>1, <2>2, <2>4, <2>5, <2>6, <2>7, <2>8
  <2> QED
    BY <2>9
<1>3. ASSUME NEW p \in Nat \X Nat, NEW q \in Nat \X Nat, NEW i, NEW j, Spot(p, i), Spot(q, j)
      PROVE  /\ Less(p, q) <=> i < j
             /\ Less(p, q) <=> Offset(p) < Offset(q)
  <2>1. i \in 0..Len(text) /\ j \in 0..Len(text) /\ i \in Nat /\ j \in Nat
    BY <1>0, <1>3
  <2>2. p[1] \in Nat /\ p[2] \in Nat /\ q[1] \in Nat /\ q[2] \in Nat
    OBVIOUS
  <2>3. (i <= j => p[1] <= q[1]) /\ (j <= i => q[1] <= p[1])
    <3>1. (i <= j => j \in i..Len(text)) /\ (j <= i => i \in j..Len(text))
      BY <2>1
    <3>2. p[1] = Text!Count(text, i, "n") /\ q[1] = Text!Count(text, j, "n")
      BY <1>3 DEF Text!Newlines
    <3> QED
      BY <2>1, <3>1, <3>2, CountMonotone
  <2>4. p[1] = q[1] => (i < j <=> p[2] < q[2])
    <3>1. PICK s, e : LineAt(text, p[1], s, e) /\ i = s + p[2]
      BY <1>3
    <3>2. PICK t, f : LineAt(text, q[1], t, f) /\ j = t + q[2]
      BY <1>3
    <3>3. s \in Nat /\ t \in Nat /\ s \in 0..Len(text) /\ t \in 0..Len(text) /\ e \in Nat /\ f \in Nat
      BY <3>1, <3>2 DEF LineAt
    <3>4. p[1] = q[1] => t <= s /\ s <= t
      <4>1. s <= e /\ t <= f
        BY <3>1, <3>2 DEF LineAt
      <4>2. Text!Newlines(text, s) = p[1] /\ Text!Newlines(text, t) = q[1]
        BY <3>1, <3>2, <3>3, <4>1 DEF LineAt
      <4> QED
        BY <3>1, <3>2, <3>3, <4>2 DEF LineAt
    <3>5. p[1] = q[1] => s = t
      BY <3>3, <3>4
    <3>6. PICK b, d : b = p[2] /\ d = q[2]
      OBVIOUS
    <3>7. i = s + b /\ j = t + d /\ b \in Nat /\ d \in Nat
      BY <2>2, <3>1, <3>2, <3>6
    <3>8. s = t => (i < j <=> b < d)
      BY <3>3, <3>7
    <3> QED
      BY <3>5, <3>6, <3>8
  <2>5. Less(p, q) <=> i < j
    <3>1. PICK a, b, c, d : p[1] = a /\ p[2] = b /\ q[1] = c /\ q[2] = d
      OBVIOUS
    <3>2. Less(p, q) <=> (a < c \/ (a = c /\ b < d))
      BY <3>1
    <3>3. (a < c \/ (a = c /\ b < d)) <=> i < j
      BY <2>1, <2>2, <2>3, <2>4, <3>1
    <3> QED
      BY <3>2, <3>3
  <2>6. Offset(p) < Offset(q) <=> i < j
    BY <1>3, <2>1, BytesIncrease
  <2> QED
    BY <2>5, <2>6
<1>4. PICK m, n : /\ m \in 0..Len(text) /\ Offset(from) = Text!Bytes(text, m)
                  /\ n \in 0..Len(text) /\ Offset(to) = Text!Bytes(text, n)
  <2>1. from[1] \in Nat /\ from[2] \in Nat /\ to[1] \in Nat /\ to[2] \in Nat
    OBVIOUS
  <2>2. PICK m \in 0..Len(text) : Offset(from) = Text!Bytes(text, m)
    BY <2>1, OffsetIsAPlace
  <2>3. PICK n \in 0..Len(text) : Offset(to) = Text!Bytes(text, n)
    BY <2>1, OffsetIsAPlace
  <2> HIDE DEF Offset
  <2> QED
    BY <2>2, <2>3
<1>5. edited = Text!Replaced(text, Offset(from), Offset(to), new)
  BY DEF Text!ApplyPositions
<1>6. \A k \in 0..Len(text) : Text!Bytes(text, k) \in Nat /\ Text!Bytes(text, k) <= Text!Size(text)
  <2> SUFFICES ASSUME NEW k \in 0..Len(text)
               PROVE  Text!Bytes(text, k) \in Nat /\ Text!Bytes(text, k) <= Text!Size(text)
    OBVIOUS
  <2>1. Text!Size(text) = Text!Bytes(text, Len(text)) /\ (Len(text) < k => FALSE)
    BY <1>0 DEF Text!Size
  <2>2. Text!Bytes(text, Len(text)) < Text!Bytes(text, k) <=> Len(text) < k
    BY <1>0, BytesIncrease
  <2>3. Text!Bytes(text, k) \in Nat /\ Text!Bytes(text, Len(text)) \in Nat
    BY <1>0, BytesIncrease
  <2> QED
    BY <2>1, <2>2, <2>3
<1>7. Text!ApplyOffsets(file, Offset(from), Offset(to), new) = [text |-> edited, version |-> 2]
  <2>1. Offset(from) <= Text!Size(text) /\ Offset(to) <= Text!Size(text)
    BY <1>4, <1>6
  <2> HIDE DEF Offset, edited
  <2> QED
    BY <1>5, <2>1 DEF Text!ApplyOffsets
<1>8. Text!ApplyOffsets(file, 0, Text!Size(text) + 1, new) = [text |-> text, version |-> 2]
  <2>1. Text!Size(text) \in Nat /\ ~(Text!Size(text) + 1 <= Text!Size(text))
    BY <1>0, <1>6 DEF Text!Size
  <2> QED
    BY <2>1 DEF Text!ApplyOffsets
<1>9. Existing(from) => Text!offset_to_position(text, Offset(from)) = from
  <2> SUFFICES ASSUME Existing(from)
               PROVE  Text!offset_to_position(text, Offset(from)) = from
    OBVIOUS
  <2>1. PICK k : Spot(from, k)
    BY <1>2
  <2> QED
    BY <2>1
<1>10. ASSUME Existing(from), Existing(to)
       PROVE  /\ Less(from, to) <=> Offset(from) < Offset(to)
              /\ \E i, j \in 0..Len(text) :
                     /\ At(i) = from /\ At(j) = to
                     /\ edited = IF Less(to, from) THEN Text!Panics
                                 ELSE SubSeq(text, 1, i) \o new \o SubSeq(text, j + 1, Len(text))
  <2>1. PICK i, j : Spot(from, i) /\ Spot(to, j)
    BY <1>2, <1>10
  <2>2. /\ Less(from, to) <=> Offset(from) < Offset(to)
        /\ Less(to, from) <=> j < i
    BY <1>3, <2>1
  <2>3. edited = IF j < i THEN Text!Panics ELSE SubSeq(text, 1, i) \o new \o SubSeq(text, j + 1, Len(text))
    <3>1. Offset(from) = Text!Bytes(text, i) /\ Offset(to) = Text!Bytes(text, j)
          /\ i \in 0..Len(text) /\ j \in 0..Len(text)
      BY <2>1
    <3> HIDE DEF edited, Offset, Spot, Existing, At, Less
    <3>2. edited = Text!Replaced(text, Text!Bytes(text, i), Text!Bytes(text, j), new)
      BY <1>5, <3>1
    <3>3. Text!Replaced(text, Text!Bytes(text, i), Text!Bytes(text, j), new) =
              IF j < i THEN Text!Panics ELSE SubSeq(text, 1, i) \o new \o SubSeq(text, j + 1, Len(text))
      BY <3>1, ReplacedBetween
    <3> QED
      BY <3>2, <3>3
  <2>4. i \in 0..Len(text) /\ j \in 0..Len(text) /\ At(i) = from /\ At(j) = to
    BY <2>1
  <2> HIDE DEF At, edited, Offset, Less, Spot
  <2> QED
    BY <2>2, <2>3, <2>4
<1> QED
  BY <1>1, <1>7, <1>8, <1>9, <1>10 DEF Text!EditsRight

-----------------------------------------------------------------------------
(* Errors.                                                                 *)

\* What a hard error becomes: a missing field alone blocks still.
LEMMA Softened ==
    ASSUME NEW error \in Report!ValidationError
    PROVE  /\ Report!soften(error) \in Report!SoftErrors
           /\ Report!is_blocking(Report!soften(error)) <=> error = "UndefinedField"
  BY DEF Report!soften, Report!is_blocking, Report!SoftErrors, Report!Severities, Report!ValidationError

\* The severities in their order: what blocks is from "Error" on.
LEMMA SeverityOrder ==
    /\ \A severity \in Report!Severities : Report!severity_order(severity) \in 0..3
    /\ Report!severity_order("Hint") = 0 /\ Report!severity_order("Error") = 2
    /\ \A soft \in Report!SoftErrors :
           Report!is_blocking(soft) <=> Report!severity_order(soft.severity) >= 2
<1>1. \A severity \in Report!Severities :
          /\ Report!severity_order(severity) \in 0..3
          /\ severity \in {"Error", "Fatal"} <=> Report!severity_order(severity) >= 2
  BY DEF Report!Severities, Report!severity_order
<1>2. Report!severity_order("Hint") = 0 /\ Report!severity_order("Error") = 2
  BY DEF Report!severity_order
<1>3. \A soft \in Report!SoftErrors : soft.severity \in Report!Severities
  BY DEF Report!SoftErrors
<1> QED
  BY <1>1, <1>2, <1>3 DEF Report!is_blocking

\* Soft errors have a severity.
LEMMA SoftSeverity ==
    ASSUME NEW soft \in Seq(Report!SoftErrors), NEW i \in 1..Len(soft)
    PROVE  soft[i].severity \in Report!Severities
<1>1. PICK s \in Report!SoftErrors : s = soft[i]
  OBVIOUS
<1> QED
  BY <1>1 DEF Report!SoftErrors

\* A collection with one of its parts replaced.
LEMMA Replaced ==
    ASSUME NEW hard, NEW soft, NEW c, c = [errors |-> hard, soft_errors |-> soft], NEW new
    PROVE  /\ [c EXCEPT !.errors = new] = [errors |-> new, soft_errors |-> soft]
           /\ [c EXCEPT !.soft_errors = new] = [errors |-> hard, soft_errors |-> new]
  OBVIOUS

\* Softening a collection keeps the count, the order and the soft errors that were there.
LEMMA SoftenedAll ==
    ASSUME NEW hard \in Seq(Report!ValidationError), NEW soft \in Seq(Report!SoftErrors)
    PROVE  LET softened == Report!SoftenAll([errors |-> hard, soft_errors |-> soft])
           IN  /\ softened \in Seq(Report!SoftErrors)
               /\ Len(softened) = Len(hard) + Len(soft)
               /\ \A i \in 1..Len(hard) : softened[i] = Report!soften(hard[i])
               /\ \A i \in 1..Len(soft) : softened[Len(hard) + i] = soft[i]
               /\ \A i \in 1..Len(softened) : i > Len(hard) => /\ i - Len(hard) \in 1..Len(soft)
                                                               /\ softened[i] = soft[i - Len(hard)]
<1> DEFINE first == [i \in DOMAIN hard |-> Report!soften(hard[i])]
<1>1. first \in Seq(Report!SoftErrors) /\ Len(first) = Len(hard)
      /\ \A i \in 1..Len(hard) : first[i] = Report!soften(hard[i])
  <2>1. \A i \in 1..Len(hard) : Report!soften(hard[i]) \in Report!SoftErrors
    BY Softened
  <2> QED
    BY <2>1
<1>2. Report!SoftenAll([errors |-> hard, soft_errors |-> soft]) = first \o soft
  BY DEF Report!SoftenAll
<1> HIDE DEF first
<1>3. /\ first \o soft \in Seq(Report!SoftErrors) /\ Len(first \o soft) = Len(first) + Len(soft)
      /\ \A i \in 1..(Len(first) + Len(soft)) :
             (first \o soft)[i] = IF i <= Len(first) THEN first[i] ELSE soft[i - Len(first)]
  BY <1>1, ConcatProperties, Zenon
<1>4. Len(hard) \in Nat /\ Len(soft) \in Nat
  OBVIOUS
<1>5. PICK s, h, n : s = first \o soft /\ h = Len(hard) /\ n = Len(soft)
  OBVIOUS
<1>6. /\ s \in Seq(Report!SoftErrors) /\ Len(s) = h + n
      /\ \A i \in 1..(h + n) : s[i] = IF i <= h THEN first[i] ELSE soft[i - h]
  BY <1>1, <1>3, <1>5
<1>7. /\ \A i \in 1..h : s[i] = first[i]
      /\ \A i \in 1..n : s[h + i] = soft[i]
      /\ \A i \in 1..(h + n) : i > h => i - h \in 1..n /\ s[i] = soft[i - h]
  <2>1. h \in Nat /\ n \in Nat
    BY <1>4, <1>5
  <2>2. ASSUME NEW i \in 1..h
        PROVE  s[i] = first[i]
    BY <1>6, <2>1
  <2>3. ASSUME NEW i \in 1..n
        PROVE  s[h + i] = soft[i]
    <3>1. PICK k : k = h + i
      OBVIOUS
    <3>2. k \in 1..(h + n) /\ ~(k <= h) /\ k - h = i
      BY <2>1, <3>1
    <3>3. s[k] = soft[k - h]
      BY <1>6, <3>2
    <3> QED
      BY <3>1, <3>2, <3>3
  <2>4. ASSUME NEW i \in 1..(h + n), i > h
        PROVE  i - h \in 1..n /\ s[i] = soft[i - h]
    BY <1>6, <2>1, <2>4
  <2> QED
    BY <2>2, <2>3, <2>4
<1> QED
  BY <1>1, <1>2, <1>5, <1>6, <1>7

\* Softening one more hard error, or its softened form before the soft ones, is the same.
LEMMA SoftenedOneMore ==
    ASSUME NEW hard \in Seq(Report!ValidationError), NEW soft \in Seq(Report!SoftErrors),
           NEW error \in Report!ValidationError
    PROVE  Report!SoftenAll([errors |-> Append(hard, error), soft_errors |-> soft]) =
               Report!SoftenAll([errors |-> hard, soft_errors |-> <<Report!soften(error)>> \o soft])
<1> DEFINE more == Append(hard, error)
           one == <<Report!soften(error)>>
           rest == one \o soft
           left == Report!SoftenAll([errors |-> more, soft_errors |-> soft])
           right == Report!SoftenAll([errors |-> hard, soft_errors |-> rest])
<1>1. more \in Seq(Report!ValidationError) /\ Len(more) = Len(hard) + 1 /\ Len(hard) \in Nat /\ Len(soft) \in Nat
      /\ (\A i \in 1..Len(hard) : more[i] = hard[i]) /\ more[Len(hard) + 1] = error
  OBVIOUS
<1>2. one \in Seq(Report!SoftErrors) /\ Len(one) = 1 /\ one[1] = Report!soften(error)
  BY Softened
<1>3. rest \in Seq(Report!SoftErrors) /\ Len(rest) = 1 + Len(soft)
      /\ \A i \in 1..(1 + Len(soft)) : rest[i] = IF i <= 1 THEN one[i] ELSE soft[i - 1]
  BY <1>2, ConcatProperties
<1> HIDE DEF more, one, rest
<1>4. left \in Seq(Report!SoftErrors) /\ Len(left) = (Len(hard) + 1) + Len(soft)
      /\ (\A i \in 1..(Len(hard) + 1) : left[i] = Report!soften(more[i]))
      /\ \A i \in 1..Len(soft) : left[(Len(hard) + 1) + i] = soft[i]
  <2>1. left \in Seq(Report!SoftErrors) /\ Len(left) = Len(more) + Len(soft)
        /\ (\A i \in 1..Len(more) : left[i] = Report!soften(more[i]))
        /\ \A i \in 1..Len(soft) : left[Len(more) + i] = soft[i]
    BY <1>1, SoftenedAll, Zenon
  <2> HIDE DEF left
  <2> QED
    BY <1>1, <2>1
<1>5. right \in Seq(Report!SoftErrors) /\ Len(right) = Len(hard) + (1 + Len(soft))
      /\ (\A i \in 1..Len(hard) : right[i] = Report!soften(hard[i]))
      /\ \A i \in 1..(1 + Len(soft)) : right[Len(hard) + i] = rest[i]
  BY <1>3, SoftenedAll
<1> HIDE DEF left, right
<1>6. Len(left) = Len(right)
  BY <1>1, <1>4, <1>5
<1>7. ASSUME NEW i \in 1..Len(left)
      PROVE  left[i] = right[i]
  <2>1. CASE i <= Len(hard)
    BY <1>1, <1>4, <1>5, <2>1
  <2>2. CASE i = Len(hard) + 1
    <3>1. left[i] = Report!soften(error)
      BY <1>1, <1>4, <2>2
    <3>2. right[Len(hard) + 1] = rest[1] /\ rest[1] = one[1]
      BY <1>1, <1>3, <1>5
    <3> QED
      BY <1>2, <2>2, <3>1, <3>2
  <2>3. CASE i > Len(hard) + 1
    <3>1. PICK k \in 1..Len(soft) : i = Len(hard) + 1 + k
      <4>1. i - Len(hard) - 1 \in 1..Len(soft) /\ i = Len(hard) + 1 + (i - Len(hard) - 1)
        BY <1>1, <1>4, <2>3
      <4> QED
        BY <4>1
    <3>2. left[i] = soft[k]
      BY <1>4, <3>1
    <3>3. right[Len(hard) + (1 + k)] = rest[1 + k] /\ rest[1 + k] = soft[k]
      <4>1. 1 + k \in 1..(1 + Len(soft)) /\ ~(1 + k <= 1) /\ (1 + k) - 1 = k
        BY <1>1
      <4> QED
        BY <1>3, <1>5, <4>1
    <3>4. i = Len(hard) + (1 + k)
      BY <1>1, <3>1
    <3> QED
      BY <3>2, <3>3, <3>4
  <2> QED
    BY <1>1, <2>1, <2>2, <2>3
<1>8. left = right
  BY <1>4, <1>5, <1>6, <1>7, SeqEqual
<1> QED
  BY <1>8 DEF left, right, more, one, rest

\* Collections of errors, for any hard and soft ones: softening keeps every error, in order,
\* and is done once; of the hard ones a missing field alone goes on blocking; an error added
\* counts once, and at once; a filter shows no more at a higher threshold; and a diagnostic
\* points at its error and helps with what can be repaired: ErrorCollection and SoftError
\* of validate/error.rs, type_error_to_diagnostic of salsa_full/diagnostics.rs.
THEOREM ErrorsKept ==
    ASSUME NEW hard \in Seq(Report!ValidationError), NEW soft \in Seq(Report!SoftErrors), NEW span
    PROVE  Report!ReportsRight(hard, soft, span)
<1> DEFINE filled == [errors |-> hard, soft_errors |-> soft]
           softened == Report!SoftenAll(filled)
           again == [Report!NewCollection EXCEPT !.soft_errors = softened]
           Blocks(s) == \E i \in DOMAIN s : Report!is_blocking(s[i])
<1>0. Len(hard) \in Nat /\ Len(soft) \in Nat /\ DOMAIN soft = 1..Len(soft) /\ DOMAIN hard = 1..Len(hard)
  OBVIOUS
<1>1. /\ softened \in Seq(Report!SoftErrors) /\ Len(softened) = Len(hard) + Len(soft)
      /\ DOMAIN softened = 1..(Len(hard) + Len(soft))
      /\ \A i \in 1..Len(hard) : softened[i] = Report!soften(hard[i])
      /\ \A i \in 1..Len(soft) : softened[Len(hard) + i] = soft[i]
      /\ \A i \in 1..Len(softened) : i > Len(hard) => /\ i - Len(hard) \in 1..Len(soft)
                                                      /\ softened[i] = soft[i - Len(hard)]
  <2>1. /\ softened \in Seq(Report!SoftErrors) /\ Len(softened) = Len(hard) + Len(soft)
        /\ \A i \in 1..Len(hard) : softened[i] = Report!soften(hard[i])
        /\ \A i \in 1..Len(soft) : softened[Len(hard) + i] = soft[i]
        /\ \A i \in 1..Len(softened) : i > Len(hard) => /\ i - Len(hard) \in 1..Len(soft)
                                                        /\ softened[i] = soft[i - Len(hard)]
    BY SoftenedAll, Zenon
  <2> HIDE DEF softened
  <2>2. DOMAIN softened = 1..Len(softened)
    BY <2>1
  <2> QED
    BY <2>1, <2>2, Zenon
<1> HIDE DEF softened
<1>2. again = [errors |-> <<>>, soft_errors |-> softened]
  BY DEF Report!NewCollection
<1> HIDE DEF again
<1>3. /\ \A c \in {filled, again} : Report!has_errors(c) <=> c.errors # <<>> \/ Blocks(c.soft_errors)
      /\ ~Report!has_errors(Report!NewCollection) /\ Report!Length(Report!NewCollection) = 0
  BY DEF Report!has_errors, Report!NewCollection, Report!Length
<1>4. \A error \in Report!ValidationError :
          LET added == Report!add_error(filled, error)
          IN  /\ Report!has_errors(added) /\ Report!Length(added) = Report!Length(filled) + 1
              /\ Report!SoftenAll(added) =
                     Report!SoftenAll([filled EXCEPT !.soft_errors = <<Report!soften(error)>> \o @])
  <2> SUFFICES ASSUME NEW error \in Report!ValidationError
               PROVE  LET added == Report!add_error(filled, error)
                      IN  /\ Report!has_errors(added) /\ Report!Length(added) = Report!Length(filled) + 1
                          /\ Report!SoftenAll(added) =
                                 Report!SoftenAll([filled EXCEPT !.soft_errors = <<Report!soften(error)>> \o @])
    OBVIOUS
  <2>0. filled = [errors |-> hard, soft_errors |-> soft] /\ filled.errors = hard /\ filled.soft_errors = soft
    OBVIOUS
  <2> HIDE DEF filled
  <2>1. Report!add_error(filled, error) = [errors |-> Append(hard, error), soft_errors |-> soft]
    <3>1. Report!add_error(filled, error) = [filled EXCEPT !.errors = Append(hard, error)]
      BY <2>0 DEF Report!add_error
    <3> QED
      BY <2>0, <3>1, Replaced, Zenon
  <2>2. [filled EXCEPT !.soft_errors = <<Report!soften(error)>> \o @] =
            [errors |-> hard, soft_errors |-> <<Report!soften(error)>> \o soft]
    <3>1. PICK new : new = <<Report!soften(error)>> \o soft
      OBVIOUS
    <3>2. [filled EXCEPT !.soft_errors = <<Report!soften(error)>> \o @] = [filled EXCEPT !.soft_errors = new]
      BY <2>0, <3>1
    <3>3. filled = [errors |-> hard, soft_errors |-> soft]
      BY <2>0
    <3>4. [filled EXCEPT !.soft_errors = new] = [errors |-> hard, soft_errors |-> new]
      BY <3>3, Replaced, SMT
    <3> QED
      BY <3>1, <3>2, <3>4
  <2>3. Append(hard, error) # <<>> /\ Len(Append(hard, error)) = Len(hard) + 1
    OBVIOUS
  <2>4. Report!has_errors([errors |-> Append(hard, error), soft_errors |-> soft])
    BY <2>3 DEF Report!has_errors
  <2>5. Report!Length([errors |-> Append(hard, error), soft_errors |-> soft]) = Report!Length(filled) + 1
    BY <1>0, <2>0, <2>3 DEF Report!Length
  <2> QED
    <3>1. Report!SoftenAll(Report!add_error(filled, error)) =
              Report!SoftenAll([filled EXCEPT !.soft_errors = <<Report!soften(error)>> \o @])
      BY <2>1, <2>2, SoftenedOneMore, ZenonT(40)
    <3>2. Report!has_errors(Report!add_error(filled, error))
          /\ Report!Length(Report!add_error(filled, error)) = Report!Length(filled) + 1
      BY <2>1, <2>4, <2>5
    <3> QED
      BY <3>1, <3>2, Zenon
<1>5. \A severity \in Report!Severities :
          LET added == Report!add_soft_error(filled, Report!with_severity(Report!NewSoft, severity))
          IN  /\ Report!has_errors(added) <=> \/ Report!has_errors(filled)
                                              \/ Report!severity_order(severity) >= Report!severity_order("Error")
              /\ Report!Length(added) = Report!Length(filled) + 1
  <2> SUFFICES ASSUME NEW severity \in Report!Severities
               PROVE  LET added == Report!add_soft_error(filled, Report!with_severity(Report!NewSoft, severity))
                      IN  /\ Report!has_errors(added) <=>
                                 \/ Report!has_errors(filled)
                                 \/ Report!severity_order(severity) >= Report!severity_order("Error")
                          /\ Report!Length(added) = Report!Length(filled) + 1
    OBVIOUS
  <2>1. PICK new : new = Report!with_severity(Report!NewSoft, severity)
    OBVIOUS
  <2>2. new \in Report!SoftErrors /\ new.severity = severity
    BY <2>1 DEF Report!with_severity, Report!NewSoft, Report!SoftErrors
  <2>3. PICK more : more = Append(soft, new)
    OBVIOUS
  <2>4. DOMAIN more = 1..(Len(soft) + 1) /\ Len(more) = Len(soft) + 1 /\ more[Len(soft) + 1] = new
        /\ \A i \in 1..Len(soft) : more[i] = soft[i]
    BY <2>2, <2>3
  <2>5. Blocks(more) <=> Blocks(soft) \/ Report!is_blocking(new)
    <3>1. 1..(Len(soft) + 1) = 1..Len(soft) \cup {Len(soft) + 1}
      BY <1>0
    <3> QED
      BY <1>0, <2>4, <3>1
  <2>6. Report!add_soft_error(filled, new) = [errors |-> hard, soft_errors |-> more]
    <3>1. PICK c : c = filled
      OBVIOUS
    <3>2. Report!add_soft_error(c, new) = [c EXCEPT !.soft_errors = more]
      BY <2>3, <3>1 DEF Report!add_soft_error
    <3> QED
      BY <3>1, <3>2, Replaced, Zenon
  <2>7. Report!is_blocking(new) <=> Report!severity_order(severity) >= Report!severity_order("Error")
    BY <2>2, SeverityOrder
  <2>8. Report!Length([errors |-> hard, soft_errors |-> more]) = Report!Length(filled) + 1
    BY <1>0, <2>4 DEF Report!Length
  <2>9. Report!has_errors([errors |-> hard, soft_errors |-> more]) <=> hard # <<>> \/ Blocks(more)
    BY DEF Report!has_errors
  <2>10. Report!has_errors(filled) <=> hard # <<>> \/ Blocks(soft)
    BY <1>3
  <2> HIDE DEF Blocks
  <2> QED
    BY <2>1, <2>5, <2>6, <2>7, <2>8, <2>9, <2>10
<1>6. /\ Len(softened) = Report!Length(filled) /\ Report!SoftenAll(again) = softened
      /\ \A i \in DOMAIN soft : softened[Len(hard) + i] = soft[i]
  <2>1. Len(softened) = Report!Length(filled)
    BY <1>1 DEF Report!Length
  <2>2. Report!SoftenAll(again) = [i \in DOMAIN <<>> |-> Report!soften(<<>>[i])] \o softened
    BY <1>2 DEF Report!SoftenAll
  <2>3. [i \in DOMAIN <<>> |-> Report!soften(<<>>[i])] = <<>>
    OBVIOUS
  <2>4. <<>> \o softened = softened
    BY <1>1, ConcatEmptySeq
  <2> QED
    BY <1>0, <1>1, <2>1, <2>2, <2>3, <2>4
<1>7. Blocks(softened) <=> Blocks(soft) \/ \E i \in DOMAIN hard : hard[i] = "UndefinedField"
  <2>1. \A i \in 1..Len(hard) : Report!is_blocking(softened[i]) <=> hard[i] = "UndefinedField"
    <3> SUFFICES ASSUME NEW i \in 1..Len(hard)
                 PROVE  Report!is_blocking(softened[i]) <=> hard[i] = "UndefinedField"
      OBVIOUS
    <3>1. hard[i] \in Report!ValidationError
      OBVIOUS
    <3> QED
      BY <1>1, <3>1, Softened
  <2>2. ASSUME Blocks(softened)
        PROVE  Blocks(soft) \/ \E i \in DOMAIN hard : hard[i] = "UndefinedField"
    <3>1. PICK i \in 1..(Len(hard) + Len(soft)) : Report!is_blocking(softened[i])
      BY <1>1, <2>2
    <3>2. CASE i <= Len(hard)
      BY <1>0, <2>1, <3>1, <3>2
    <3>3. CASE i > Len(hard)
      BY <1>0, <1>1, <3>1, <3>3
    <3> QED
      BY <1>0, <3>2, <3>3
  <2>3. ASSUME Blocks(soft)
        PROVE  Blocks(softened)
    <3>1. PICK i \in 1..Len(soft) : Report!is_blocking(soft[i])
      BY <1>0, <2>3
    <3>2. Len(hard) + i \in DOMAIN softened
      BY <1>0, <1>1
    <3> QED
      BY <1>1, <3>1, <3>2
  <2>4. ASSUME NEW i \in DOMAIN hard, hard[i] = "UndefinedField"
        PROVE  Blocks(softened)
    <3>1. i \in 1..Len(hard) /\ i \in DOMAIN softened
      BY <1>0, <1>1
    <3> QED
      BY <2>1, <2>4, <3>1
  <2> HIDE DEF Blocks
  <2> QED
    BY <2>2, <2>3, <2>4
<1>8. /\ Report!has_errors(again) <=> Blocks(softened)
      /\ Report!has_errors(filled) <=> hard # <<>> \/ Blocks(soft)
      /\ Report!has_errors([filled EXCEPT !.errors = <<>>]) <=> Blocks(soft)
  BY <1>2 DEF Report!has_errors
<1>9. (\E i \in DOMAIN hard : hard[i] = "UndefinedField") => hard # <<>>
  BY <1>0
<1>10. \A min, higher \in Report!Severities : Report!severity_order(min) <= Report!severity_order(higher) =>
           Report!filter_by_severity(filled, higher) \subseteq Report!filter_by_severity(filled, min)
  <2> SUFFICES ASSUME NEW min \in Report!Severities, NEW higher \in Report!Severities,
                      Report!severity_order(min) <= Report!severity_order(higher),
                      NEW i \in DOMAIN soft,
                      Report!severity_order(soft[i].severity) >= Report!severity_order(higher)
               PROVE  Report!severity_order(soft[i].severity) >= Report!severity_order(min)
    BY DEF Report!filter_by_severity
  <2>1. soft[i].severity \in Report!Severities
    BY <1>0, SoftSeverity
  <2> QED
    BY <2>1, SeverityOrder
<1>11. Report!filter_by_severity(again, "Error") = {i \in DOMAIN softened : Report!is_blocking(softened[i])}
  <2>1. \A i \in DOMAIN softened :
            Report!is_blocking(softened[i]) <=> Report!severity_order(softened[i].severity) >= 2
    <3> SUFFICES ASSUME NEW i \in DOMAIN softened
                 PROVE  Report!is_blocking(softened[i]) <=> Report!severity_order(softened[i].severity) >= 2
      OBVIOUS
    <3>1. softened[i] \in Report!SoftErrors
      BY <1>1
    <3> QED
      BY <3>1, SeverityOrder
  <2>2. Report!filter_by_severity(again, "Error") =
            {i \in DOMAIN softened : Report!severity_order(softened[i].severity) >= 2}
    BY <1>2, SeverityOrder DEF Report!filter_by_severity
  <2> QED
    BY <2>1, <2>2
<1>12. Report!filter_by_severity(filled, "Hint") = DOMAIN soft
  <2>1. \A i \in DOMAIN soft : Report!severity_order(soft[i].severity) >= 0
    <3> SUFFICES ASSUME NEW i \in DOMAIN soft
                 PROVE  Report!severity_order(soft[i].severity) >= 0
      OBVIOUS
    <3>1. soft[i].severity \in Report!Severities
      BY <1>0, SoftSeverity
    <3> QED
      BY <3>1, SeverityOrder
  <2>2. Report!filter_by_severity(filled, "Hint") =
            {i \in DOMAIN soft : Report!severity_order(soft[i].severity) >= 0}
    BY SeverityOrder DEF Report!filter_by_severity
  <2> QED
    BY <2>1, <2>2
<1>13. \A type \in Report!ErrorType :
           LET d == Report!type_error_to_diagnostic([type |-> {type}, span |-> span], "f")
           IN  /\ \A i \in DOMAIN d.labels : d.labels[i].location = d.location
               /\ Len(d.labels) = 1 /\ d.location.span = span
               /\ d.help # {} =>
                      Report!soften(IF type = "WrongArity" THEN "ArityMismatch" ELSE type).suggestion # {}
  <2> SUFFICES ASSUME NEW type \in Report!ErrorType
               PROVE  LET d == Report!type_error_to_diagnostic([type |-> {type}, span |-> span], "f")
                      IN  /\ \A i \in DOMAIN d.labels : d.labels[i].location = d.location
                          /\ Len(d.labels) = 1 /\ d.location.span = span
                          /\ d.help # {} =>
                                 Report!soften(IF type = "WrongArity" THEN "ArityMismatch" ELSE type).suggestion # {}
    OBVIOUS
  <2>1. PICK location : location = [file |-> "f", span |-> span]
    OBVIOUS
  <2>2. PICK label : label = [location |-> location, color |-> "Red"]
    OBVIOUS
  <2>3. Report!type_error_to_diagnostic([type |-> {type}, span |-> span], "f") =
            [severity |-> "Error", location |-> location, labels |-> <<label>>, notes |-> <<>>,
             help |-> {type} \cap {"TypeMismatch", "WrongArity"}]
    BY <2>1, <2>2 DEF Report!type_error_to_diagnostic
  <2>4. Len(<<label>>) = 1 /\ \A i \in DOMAIN <<label>> : <<label>>[i].location = location
    BY <2>2
  <2>5. location.span = span
    BY <2>1
  <2>6. type \in {"TypeMismatch", "WrongArity"} =>
            Report!soften(IF type = "WrongArity" THEN "ArityMismatch" ELSE type).suggestion # {}
    BY DEF Report!soften
  <2>7. PICK d : d = Report!type_error_to_diagnostic([type |-> {type}, span |-> span], "f")
    OBVIOUS
  <2>8. /\ d.location = location /\ d.labels = <<label>>
        /\ d.help # {} => type \in {"TypeMismatch", "WrongArity"}
    <3>1. PICK labels, notes, help : /\ labels = <<label>> /\ notes = <<>>
                                     /\ help = {type} \cap {"TypeMismatch", "WrongArity"}
      OBVIOUS
    <3>2. d = [severity |-> "Error", location |-> location, labels |-> labels, notes |-> notes, help |-> help]
      BY <2>3, <2>7, <3>1, Zenon
    <3>3. d.location = location /\ d.labels = labels /\ d.help = help
      BY <3>2
    <3> QED
      BY <3>1, <3>3
  <2> QED
    BY <2>4, <2>5, <2>6, <2>7, <2>8, Zenon
<1> HIDE DEF Blocks
<1>14. /\ Report!has_errors(again) <=> \/ Report!has_errors([filled EXCEPT !.errors = <<>>])
                                       \/ \E i \in DOMAIN hard : hard[i] = "UndefinedField"
       /\ Report!has_errors(again) => Report!has_errors(filled)
  BY <1>7, <1>8, <1>9
<1>15. filled.soft_errors = soft
  OBVIOUS
<1> HIDE DEF filled
<1> QED
  BY <1>3, <1>4, <1>5, <1>6, <1>10, <1>11, <1>12, <1>13, <1>14, Zenon
     DEF Report!ReportsRight, filled, softened, again

-----------------------------------------------------------------------------
(* Inference from names.                                                   *)

\* A number is at most a quotient when its product is at most the dividend.
LEMMA DivAtLeast ==
    ASSUME NEW a \in Nat, NEW b \in Nat \ {0}, NEW m \in Int, m * b <= a
    PROVE  m <= a \div b
<1>1. PICK q \in Nat : q = a \div b /\ q * b <= a /\ a < (q + 1) * b
  BY Quotient
<1>2. CASE q < m
  <2>1. (q + 1) * b <= m * b
    BY <1>2, MulMonotone
  <2> QED
    BY <1>1, <2>1
<1>3. CASE m <= q
  BY <1>1, <1>3
<1> QED
  BY <1>2, <1>3

\* More known and less unknown is no less covered; all is covered when nothing is unknown.
LEMMA CoverageOrder ==
    ASSUME NEW k \in Nat, NEW u \in Nat, NEW more \in Nat, NEW less \in Nat, k <= more, less <= u
    PROVE  Gradual!Coverage(k, u) <= Gradual!Coverage(more, less)
<1>1. CASE k + u = 0
  <2>1. Gradual!Coverage(k, u) = 100 /\ less = 0
    BY <1>1 DEF Gradual!Coverage
  <2>2. CASE more = 0
    BY <2>1, <2>2 DEF Gradual!Coverage
  <2>3. CASE more # 0
    <3>1. PICK b \in Nat \ {0} : b = more
      BY <2>3
    <3>2. PICK c \in Nat : c = b * 100
      OBVIOUS
    <3>3. 100 <= c \div b
      <4>1. 100 * b <= c
        BY <3>2
      <4> QED
        BY <4>1, DivAtLeast
    <3>4. Gradual!Coverage(more, less) = c \div b
      BY <2>1, <3>1, <3>2 DEF Gradual!Coverage
    <3> QED
      BY <2>1, <3>3, <3>4
  <2> QED
    BY <2>2, <2>3
<1>2. CASE k + u # 0
  <2>1. PICK b \in Nat \ {0}, c \in Nat : b = k + u /\ c = k * 100
    BY <1>2
  <2>2. PICK q \in Nat : q = c \div b /\ q * b <= c /\ c < (q + 1) * b
    BY Quotient
  <2>3. Gradual!Coverage(k, u) = q
    BY <1>2, <2>1, <2>2 DEF Gradual!Coverage
  <2>4. q <= 100
    <3>1. c < (100 + 1) * b
      BY <2>1
    <3> QED
      BY <2>2, <3>1, DivAtMost
  <2>5. CASE more + less = 0
    <3>1. Gradual!Coverage(more, less) = 100
      BY <2>5 DEF Gradual!Coverage
    <3> QED
      BY <2>3, <2>4, <3>1
  <2>6. CASE more + less # 0
    <3>1. PICK d \in Nat \ {0}, n \in Nat : d = more + less /\ n = more * 100
      BY <2>6
    <3>2. q * d <= n
      <4>1. q * u <= (100 - q) * k
        <5>1. q * b = q * k + q * u
          BY <2>1
        <5>2. (100 - q) * k = 100 * k - q * k
          BY <2>2
        <5> QED
          BY <2>1, <2>2, <5>1, <5>2
      <4>2. q * less <= q * u
        <5>1. less * q <= u * q
          BY MulMonotone
        <5> QED
          BY <5>1
      <4>3. (100 - q) * k <= (100 - q) * more
        <5>1. 100 - q \in Nat
          BY <2>4
        <5>2. k * (100 - q) <= more * (100 - q)
          BY <5>1, MulMonotone
        <5> QED
          BY <5>1, <5>2
      <4>4. (100 - q) * more = 100 * more - q * more /\ q * d = q * more + q * less
        BY <3>1
      <4> QED
        BY <3>1, <4>1, <4>2, <4>3, <4>4
    <3>3. Gradual!Coverage(more, less) = n \div d
      BY <2>6, <3>1 DEF Gradual!Coverage
    <3> QED
      BY <2>3, <3>2, <3>3, DivAtLeast
  <2> QED
    BY <2>5, <2>6
<1> QED
  BY <1>1, <1>2

\* An inference is complete when nothing is unknown, and no less complete when more is known
\* and less unknown.
LEMMA Completeness ==
    ASSUME NEW q, IsFiniteSet(DOMAIN q.known_types), IsFiniteSet(q.unknowns)
    PROVE  /\ Gradual!completeness(q) = 100 <=> q.unknowns = {}
           /\ \A r : /\ IsFiniteSet(DOMAIN r.known_types) /\ DOMAIN q.known_types \subseteq DOMAIN r.known_types
                     /\ r.unknowns \subseteq q.unknowns
                     => Gradual!completeness(q) <= Gradual!completeness(r)
<1>1. PICK k \in Nat, u \in Nat : k = Cardinality(DOMAIN q.known_types) /\ u = Cardinality(q.unknowns)
  BY FS_CardinalityType
<1>2. Gradual!completeness(q) = Gradual!Coverage(k, u)
  BY <1>1, SameCardinality DEF Gradual!completeness
<1>3. Gradual!completeness(q) = 100 <=> q.unknowns = {}
  <2>1. Gradual!State(Gradual!Coverage(k, u)) = "FullyAnnotated" <=> Gradual!Coverage(k, u) = 100
    BY DEF Gradual!State
  <2>2. u = 0 <=> q.unknowns = {}
    BY <1>1, FS_EmptySet
  <2> QED
    BY <1>2, <2>1, <2>2, CoverageStates
<1>4. ASSUME NEW r, IsFiniteSet(DOMAIN r.known_types), DOMAIN q.known_types \subseteq DOMAIN r.known_types,
             r.unknowns \subseteq q.unknowns
      PROVE  Gradual!completeness(q) <= Gradual!completeness(r)
  <2>1. IsFiniteSet(r.unknowns) /\ Cardinality(r.unknowns) <= u
    BY <1>1, <1>4, FS_Subset
  <2>2. k <= Cardinality(DOMAIN r.known_types)
    BY <1>1, <1>4, FS_Subset
  <2>3. PICK more \in Nat, less \in Nat :
            more = Cardinality(DOMAIN r.known_types) /\ less = Cardinality(r.unknowns)
    BY <1>4, <2>1, FS_CardinalityType
  <2>4. Gradual!completeness(r) = Gradual!Coverage(more, less)
    BY <2>3, SameCardinality DEF Gradual!completeness
  <2> QED
    BY <1>2, <2>1, <2>2, <2>3, <2>4, CoverageOrder
<1> QED
  BY <1>3, <1>4

\* What infer_unknowns gives: a type for each unknown name that says one.
LEMMA Guessing ==
    ASSUME NEW q
    PROVE  LET r == Gradual!infer_unknowns(q)
               J == {n \in q.unknowns : Gradual!infer_from_name(n) # {}}
           IN  /\ r = [known_types |-> r.known_types, unknowns |-> r.unknowns]
               /\ r.known_types = [n \in DOMAIN r.known_types |-> r.known_types[n]]
               /\ r.unknowns = q.unknowns \ J /\ DOMAIN r.known_types = DOMAIN q.known_types \cup J
               /\ \A n \in DOMAIN q.known_types : n \notin J => r.known_types[n] = q.known_types[n]
<1> DEFINE r == Gradual!infer_unknowns(q)
           J == {n \in q.unknowns : Gradual!infer_from_name(n) # {}}
           F == [n \in DOMAIN q.known_types \cup J |->
                    IF n \in J THEN CHOOSE t \in Gradual!infer_from_name(n) : TRUE ELSE q.known_types[n]]
<1>1. r = [known_types |-> F, unknowns |-> q.unknowns \ J]
  BY Zenon DEF Gradual!infer_unknowns
<1> HIDE DEF J
<1>2. /\ DOMAIN F = DOMAIN q.known_types \cup J /\ F = [n \in DOMAIN F |-> F[n]]
      /\ \A n \in DOMAIN q.known_types : n \notin J => F[n] = q.known_types[n]
  OBVIOUS
<1> HIDE DEF F, r
<1>3. r.known_types = F /\ r.unknowns = q.unknowns \ J
  BY <1>1
<1> QED
  BY <1>1, <1>2, <1>3, Zenon DEF r, J

\* Inference from names, of any names and types: no name is both known and unknown after a
\* call; a given type stays until another is given, and a name marked unknown is not
\* forgotten; inferring is done once and changes no known type; and only a new unknown name
\* makes it less complete: PartialInference of salsa_full/on_demand.rs.
THEOREM InferenceKept ==
    ASSUME NEW names, IsFiniteSet(names), NEW p, Gradual!Inference(p, names), NEW name, NEW typ
    PROVE  Gradual!PartialInferenceRight(p, name, typ)
<1>1. PICK T, U : T = p.known_types /\ U = p.unknowns
  OBVIOUS
<1>2. /\ p = [known_types |-> T, unknowns |-> U] /\ T = [n \in DOMAIN T |-> T[n]]
      /\ DOMAIN T \cap U = {} /\ IsFiniteSet(DOMAIN T) /\ IsFiniteSet(U)
  <2>1. p = [known_types |-> [n \in DOMAIN p.known_types |-> p.known_types[n]], unknowns |-> p.unknowns]
    BY Zenon DEF Gradual!Inference
  <2>2. p.known_types = [n \in DOMAIN p.known_types |-> p.known_types[n]]
    <3>1. PICK f, v : f = [n \in DOMAIN p.known_types |-> p.known_types[n]] /\ v = p.unknowns
      OBVIOUS
    <3>2. p = [known_types |-> f, unknowns |-> v]
      BY <2>1, <3>1, Zenon
    <3>3. p.known_types = f
      BY <3>2
    <3> QED
      BY <3>1, <3>3, Zenon
  <2>3. p = [known_types |-> T, unknowns |-> U] /\ T = [n \in DOMAIN T |-> T[n]]
    BY <1>1, <2>1, <2>2, Zenon
  <2>4. DOMAIN T \cup U \subseteq names /\ DOMAIN T \cap U = {}
    BY <1>1, Zenon DEF Gradual!Inference
  <2>5. DOMAIN T \subseteq names /\ U \subseteq names
    BY <2>4
  <2>6. IsFiniteSet(DOMAIN T) /\ IsFiniteSet(U)
    BY <2>5, FS_Subset
  <2> QED
    BY <2>3, <2>4, <2>6, Zenon
<1> DEFINE I == {n \in p.unknowns : Gradual!infer_from_name(n) # {}}
           Given == [n \in DOMAIN T \cup {name} |-> IF n = name THEN typ ELSE T[n]]
           Unknown == IF name \in DOMAIN T THEN U ELSE U \cup {name}
           known == Gradual!add_known(p, name, typ)
           unknown == Gradual!add_unknown(p, name)
           inferred == Gradual!infer_unknowns(p)
           All(q) == DOMAIN q.known_types \cup q.unknowns
<1>3. known = [known_types |-> Given, unknowns |-> U \ {name}]
  BY <1>1, Zenon DEF Gradual!add_known, Gradual!Put
<1>4. unknown = [known_types |-> T, unknowns |-> Unknown]
  <2>1. unknown = IF name \in DOMAIN T THEN p ELSE [p EXCEPT !.unknowns = @ \cup {name}]
    BY <1>1, Zenon DEF Gradual!add_unknown, Gradual!Has
  <2>2. [p EXCEPT !.unknowns = @ \cup {name}] = [known_types |-> T, unknowns |-> U \cup {name}]
    BY <1>1, <1>2
  <2> HIDE DEF unknown
  <2> QED
    BY <1>2, <2>1, <2>2
<1>5. /\ inferred = [known_types |-> inferred.known_types, unknowns |-> inferred.unknowns]
      /\ inferred.known_types = [n \in DOMAIN inferred.known_types |-> inferred.known_types[n]]
      /\ inferred.unknowns = p.unknowns \ I /\ DOMAIN inferred.known_types = DOMAIN p.known_types \cup I
      /\ \A n \in DOMAIN p.known_types : n \notin I => inferred.known_types[n] = p.known_types[n]
  BY Guessing, Zenon
<1>6. I \subseteq U
  BY <1>1
<1>7. /\ DOMAIN Given = DOMAIN T \cup {name} /\ Given[name] = typ
      /\ \A n \in DOMAIN T : n # name => Given[n] = T[n]
  OBVIOUS
<1>8. /\ DOMAIN inferred.known_types = DOMAIN T \cup I /\ inferred.unknowns = U \ I
      /\ \A n \in DOMAIN T : inferred.known_types[n] = T[n]
  <2>1. \A n \in DOMAIN T : n \notin I
    BY <1>2, <1>6
  <2> HIDE DEF inferred, I
  <2> QED
    BY <1>1, <1>5, <2>1
<1>9. Gradual!infer_unknowns(inferred) = inferred
  <2>1. PICK twice : twice = Gradual!infer_unknowns(inferred)
    OBVIOUS
  <2>2. {n \in inferred.unknowns : Gradual!infer_from_name(n) # {}} = {}
    <3> SUFFICES ASSUME NEW n \in inferred.unknowns, Gradual!infer_from_name(n) # {}
                 PROVE  FALSE
      OBVIOUS
    <3>1. n \in p.unknowns /\ n \notin I
      BY <1>5
    <3> QED
      BY <3>1
  <2> HIDE DEF inferred, I
  <2>3. PICK J : J = {n \in inferred.unknowns : Gradual!infer_from_name(n) # {}}
    OBVIOUS
  <2>4. /\ twice = [known_types |-> twice.known_types, unknowns |-> twice.unknowns]
        /\ twice.known_types = [n \in DOMAIN twice.known_types |-> twice.known_types[n]]
        /\ twice.unknowns = inferred.unknowns \ J /\ DOMAIN twice.known_types = DOMAIN inferred.known_types \cup J
        /\ \A n \in DOMAIN inferred.known_types : n \notin J => twice.known_types[n] = inferred.known_types[n]
    BY <2>1, <2>3, Guessing, Zenon
  <2>5. PICK f, g : f = twice.known_types /\ g = inferred.known_types
    OBVIOUS
  <2>6. DOMAIN f = DOMAIN g /\ \A n \in DOMAIN g : f[n] = g[n]
    BY <2>2, <2>3, <2>4, <2>5
  <2>7. f = [n \in DOMAIN f |-> f[n]] /\ g = [n \in DOMAIN g |-> g[n]]
    BY <1>5, <2>4, <2>5, Zenon
  <2>8. f = g
    BY <2>6, <2>7
  <2>9. twice.unknowns = inferred.unknowns
    BY <2>2, <2>3, <2>4
  <2> QED
    BY <1>5, <2>1, <2>4, <2>5, <2>8, <2>9, Zenon
<1> HIDE DEF I, Given, inferred
<1>10. /\ known.known_types = Given /\ known.unknowns = U \ {name}
       /\ unknown.known_types = T /\ unknown.unknowns = Unknown
  <2> HIDE DEF known, unknown, Unknown
  <2> QED
    BY <1>3, <1>4
<1>11. DOMAIN Gradual!NewInference.known_types = {} /\ Gradual!NewInference.unknowns = {}
  BY DEF Gradual!NewInference, Gradual!NoMap
<1> HIDE DEF known, unknown
<1>12. /\ All(known) = All(p) \cup {name} /\ All(unknown) = All(p) \cup {name} /\ All(inferred) = All(p)
       /\ \A q \in {Gradual!NewInference, known, unknown, inferred} : DOMAIN q.known_types \cap q.unknowns = {}
  <2>1. /\ All(known) = All(p) \cup {name} /\ DOMAIN known.known_types \cap known.unknowns = {}
    BY <1>1, <1>2, <1>7, <1>10
  <2>2. All(unknown) = All(p) \cup {name} /\ DOMAIN unknown.known_types \cap unknown.unknowns = {}
    BY <1>1, <1>2, <1>10
  <2>3. All(inferred) = All(p) /\ DOMAIN inferred.known_types \cap inferred.unknowns = {}
    BY <1>1, <1>2, <1>6, <1>8
  <2>4. DOMAIN Gradual!NewInference.known_types \cap Gradual!NewInference.unknowns = {}
    BY <1>11
  <2> HIDE DEF All
  <2> QED
    BY <2>1, <2>2, <2>3, <2>4
<1>13. \A q \in {Gradual!NewInference, known, unknown, inferred} :
           IsFiniteSet(DOMAIN q.known_types) /\ IsFiniteSet(q.unknowns)
  <2>1. /\ IsFiniteSet(DOMAIN T \cup {name}) /\ IsFiniteSet(U \cup {name})
        /\ IsFiniteSet(U \ {name}) /\ IsFiniteSet(U \ I) /\ IsFiniteSet(I)
    <3>1. U \ {name} \subseteq U /\ U \ I \subseteq U
      OBVIOUS
    <3> QED
      BY <1>2, <1>6, <3>1, FS_AddElement, FS_Subset
  <2>2. IsFiniteSet(DOMAIN T \cup I)
    BY <1>2, <2>1, FS_Union
  <2>3. IsFiniteSet({})
    BY FS_EmptySet
  <2>4. IsFiniteSet(DOMAIN known.known_types) /\ IsFiniteSet(known.unknowns)
    BY <1>7, <1>10, <1>2, <2>1
  <2>5. IsFiniteSet(DOMAIN unknown.known_types) /\ IsFiniteSet(unknown.unknowns)
    BY <1>10, <1>2, <2>1
  <2>6. IsFiniteSet(DOMAIN inferred.known_types) /\ IsFiniteSet(inferred.unknowns)
    BY <1>8, <2>1, <2>2
  <2>7. IsFiniteSet(DOMAIN Gradual!NewInference.known_types) /\ IsFiniteSet(Gradual!NewInference.unknowns)
    BY <1>11, <2>3
  <2> QED
    BY <2>4, <2>5, <2>6, <2>7, Zenon
<1>14. \A q \in {Gradual!NewInference, known, unknown, inferred} :
           Gradual!completeness(q) = 100 <=> q.unknowns = {}
  BY <1>13, Completeness
<1>15. Gradual!completeness(known) >= Gradual!completeness(p)
       /\ Gradual!completeness(inferred) >= Gradual!completeness(p)
  <2>1. DOMAIN p.known_types \subseteq DOMAIN known.known_types /\ known.unknowns \subseteq p.unknowns
        /\ DOMAIN p.known_types \subseteq DOMAIN inferred.known_types /\ inferred.unknowns \subseteq p.unknowns
    BY <1>1, <1>7, <1>8, <1>10
  <2>2. IsFiniteSet(DOMAIN p.known_types) /\ IsFiniteSet(p.unknowns)
    BY <1>1, <1>2
  <2>3. Gradual!completeness(p) <= Gradual!completeness(known)
        /\ Gradual!completeness(p) <= Gradual!completeness(inferred)
    BY <1>13, <2>1, <2>2, Completeness
  <2> QED
    BY <2>3
<1>16. Gradual!completeness(unknown) >= Gradual!completeness(p) \/ name \notin All(p)
  <2>1. ASSUME name \in All(p)
        PROVE  Gradual!completeness(unknown) >= Gradual!completeness(p)
    <3>1. DOMAIN p.known_types \subseteq DOMAIN unknown.known_types /\ unknown.unknowns \subseteq p.unknowns
      BY <1>1, <1>10, <2>1
    <3>2. IsFiniteSet(DOMAIN p.known_types) /\ IsFiniteSet(p.unknowns)
      BY <1>1, <1>2
    <3>3. Gradual!completeness(p) <= Gradual!completeness(unknown)
      BY <1>13, <3>1, <3>2, Completeness
    <3> QED
      BY <3>3
  <2> QED
    BY <2>1
<1>17. /\ known.known_types[name] = typ
       /\ \A n \in DOMAIN p.known_types :
              /\ n \in DOMAIN unknown.known_types /\ unknown.known_types[n] = p.known_types[n]
              /\ n \in DOMAIN inferred.known_types /\ inferred.known_types[n] = p.known_types[n]
              /\ n # name => n \in DOMAIN known.known_types /\ known.known_types[n] = p.known_types[n]
  BY <1>1, <1>7, <1>8, <1>10
<1> QED
  BY <1>9, <1>12, <1>14, <1>15, <1>16, <1>17, ZenonT(40)
     DEF Gradual!PartialInferenceRight, known, unknown, inferred, All

-----------------------------------------------------------------------------
(* The specification.                                                      *)

Asked == \E a \in DOMAIN Questions : question \in {a} \X Questions[a]

\* A question that was asked is answered rightly.
LEMMA AskedIsRight == Asked => ClosedAnswersRight
<1> SUFFICES ASSUME Asked, answered
             PROVE  ClosedAnswersRight
  BY DEF ClosedAnswersRight
<1> DEFINE algorithm == question[1]
           q == question[2]
<1>1. algorithm \in DOMAIN Questions /\ q \in Questions[algorithm]
  BY DEF Asked
<1>2. algorithm \in ClosedAlgorithms => Typed(algorithm, q)
  BY <1>1, QuestionsTyped
<1> HIDE DEF algorithm, q
<1>3. CASE algorithm = "apis"
  <2>1. Semantic!ApisRight(q.old, q.new, q.newer)
    BY ApiCompatibility
  <2> QED
    BY <1>3, <2>1 DEF ClosedAnswersRight, algorithm, q
<1>4. CASE algorithm = "signatures"
  <2>1. q.expected.params \in Seq(Int) /\ q.actual.params \in Seq(Int)
    BY <1>2, <1>4 DEF ClosedAlgorithms, Typed
  <2>2. Semantic!SignaturesRight(q.expected, q.actual, q.types)
    BY <2>1, SignatureAgreement
  <2> QED
    BY <1>4, <2>2 DEF ClosedAnswersRight, algorithm, q
<1>5. CASE algorithm = "positions"
  <2>1. q.pos \in Nat \X (0..(U32 - 6)) /\ q.range.start \in Nat \X Nat /\ q.range.end \in Nat \X Nat
    BY <1>2, <1>5 DEF ClosedAlgorithms, Typed
  <2>2. Semantic!PositionsRight(q.range, q.pos, "f", "S")
    BY <2>1, PositionsAndRenames
  <2> QED
    BY <1>5, <2>2 DEF ClosedAnswersRight, algorithm, q
<1>6. CASE algorithm = "annotations"
  <2>1. /\ q.annotated \in Nat /\ q.unannotated \in Nat
        /\ q.lines \in Seq(Gradual!Lines(Identifiers)) /\ q.again \in Seq(Gradual!Lines(Identifiers))
    BY <1>2, <1>6 DEF ClosedAlgorithms, Typed
  <2>2. Gradual!AnnotationsRight(q.annotated, q.unannotated, q.lines, q.again)
    BY <2>1, IdentifiersFinite, Annotations
  <2> QED
    BY <1>6, <2>2 DEF ClosedAnswersRight, algorithm, q
<1>7. CASE algorithm = "modes"
  <2>1. Gradual!ModesRight(q.left, q.right, q.state)
    BY GradualGuarantee
  <2> QED
    BY <1>7, <2>1 DEF ClosedAnswersRight, algorithm, q
<1>8. CASE algorithm = "versions"
  <2>1. /\ q.a \in Seq(Int) /\ q.b \in Seq(Int) /\ q.c \in Seq(Int)
        /\ q.dirs \in SUBSET Seq(STRING) /\ q.start \in Seq(STRING)
    BY <1>2, <1>8 DEF ClosedAlgorithms, Typed
  <2>2. Modules!VersionsRight(q.a, q.b, q.c, q.dirs, q.start)
    BY <2>1, VersionsAndRoots
  <2> QED
    BY <1>8, <2>2 DEF ClosedAnswersRight, algorithm, q
<1>9. CASE algorithm = "budgets"
  <2>1. q.budget \in Budgets /\ Measured(q.metrics) /\ q.more \in Nat
    BY <1>2, <1>9 DEF ClosedAlgorithms, Typed
  <2>2. Report!BudgetsRight(q.budget, q.metrics, q.more)
    BY <2>1, BudgetsKept
  <2> QED
    BY <1>9, <2>2 DEF ClosedAnswersRight, algorithm, q
<1>10. CASE algorithm = "partial_inference"
  <2>1. Gradual!Inference(q.p, Identifiers)
    BY <1>2, <1>10 DEF ClosedAlgorithms, Typed
  <2>2. Gradual!PartialInferenceRight(q.p, q.name, q.typ)
    BY <2>1, IdentifiersFinite, InferenceKept
  <2> QED
    BY <1>10, <2>2 DEF ClosedAnswersRight, algorithm, q
<1>11. CASE algorithm = "edits"
  <2>1. /\ q.text \in Seq(Characters) /\ q.new \in Seq(Characters)
        /\ q.from \in Nat \X Nat /\ q.to \in Nat \X Nat
    BY <1>2, <1>11 DEF ClosedAlgorithms, Typed, Characters
  <2>2. Text!EditsRight(q.text, q.from, q.to, q.new)
    BY <2>1, Edits
  <2> QED
    BY <1>11, <2>2 DEF ClosedAnswersRight, algorithm, q
<1>12. CASE algorithm = "reports"
  <2>1. q.hard \in Seq(Report!ValidationError) /\ q.soft \in Seq(Report!SoftErrors)
    BY <1>2, <1>12 DEF ClosedAlgorithms, Typed
  <2>2. Report!ReportsRight(q.hard, q.soft, 1)
    BY <2>1, ErrorsKept
  <2> QED
    BY <1>12, <2>2 DEF ClosedAnswersRight, algorithm, q
<1>13. CASE algorithm \notin ClosedAlgorithms
  BY <1>13 DEF ClosedAnswersRight, ClosedAlgorithms, algorithm, q
<1> QED
  BY <1>3, <1>4, <1>5, <1>6, <1>7, <1>8, <1>9, <1>10, <1>11, <1>12, <1>13 DEF ClosedAlgorithms

\* Every algorithm in closed form answers every input of its type rightly: API changes,
\* signatures, positions and renames (semantic/), annotations, migration, modes and
\* guesses from names (salsa_full/), versions, module roots and look-ups (core/), edits
\* (salsa/inputs.rs, salsa_full/inputs.rs), collected errors and diagnostics
\* (validate/error.rs) and budgets (salsa_full/metrics.rs).
THEOREM ClosedAnswers == ClosedSpec => []ClosedAnswersRight
<1>1. QuestionInit => Asked
  BY DEF QuestionInit, Asked
<1>2. Asked /\ [Answer(DOMAIN Questions)]_questionVars => Asked'
  BY DEF Asked, Answer, questionVars
<1> QED
  BY <1>1, <1>2, AskedIsRight, PTL DEF ClosedSpec
=============================================================================
