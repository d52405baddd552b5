----------------------------- MODULE JsonValue ------------------------------
(***************************************************************************)
(* Json::Value (jsoncpp.cpp) as a container: the calls that change one,    *)
(* made in any order on any node of a document, and those that look at it. *)
(*                                                                         *)
(* An array is, as in the code, a map from indices to Values that need not *)
(* have an entry below its highest index; json.h speaks of a sequence.     *)
(* Observe gives that sequence: what operator[] const returns up to size().*)
(***************************************************************************)
EXTENDS JsonText, FiniteSetsExt

CONSTANTS Indices,  \* those that calls name
          Names,
          Scalars,  \* Values that are assigned
          MaxCalls

ASSUME ValueAssumption == Indices \subseteq Nat /\ MaxCalls \in Nat

VARIABLES root,
          calls     \* how many have been made

valueVars == <<root, calls>>

\* The comments a program sets.
SomeComments == {<<<<"/*", "c">>>>, <<<<"//", "c">>>>}

KeysOf(v) == DOMAIN Payload(v)
Empty == [k \in {} |-> NullValue]
Put(v, k, w) == SwapPayload(v, Type(v), [x \in KeysOf(v) \cup {k} |-> IF x = k THEN w ELSE Payload(v)[x]])
Only(v, keys) == SwapPayload(v, Type(v), [x \in KeysOf(v) \cap keys |-> Payload(v)[x]])

\* size(): of an array the highest index + 1
Size(v) == CASE Type(v) = "array"  -> IF KeysOf(v) = {} THEN 0 ELSE Max(KeysOf(v)) + 1
             [] Type(v) = "object" -> Cardinality(KeysOf(v))
             [] OTHER -> 0

\* What a call leaves, whether it throws, and what it returns or puts in *removed.
Done(v) == [value |-> v, threw |-> FALSE, found |-> FALSE, out |-> NullValue]
Thrown(v) == [Done(v) EXCEPT !.threw = TRUE]
Found(v, w) == [Done(v) EXCEPT !.found = TRUE, !.out = w]

May(v, type) == Type(v) \in {"null", type}

\* *this = Value(type): with the payload of a null go its comments
Become(v, type) == IF Type(v) = "null" THEN Node(type, Empty) ELSE v

\* operator[] and resolveReference
Reference(v, type, key) ==
  LET c == Become(v, type)
  IN IF ~May(v, type) THEN Thrown(v)
     ELSE IF key \in KeysOf(c) THEN Done(c) ELSE Done(Put(c, key, NullValue))

Appended(v, w) ==
  LET r == Reference(v, "array", Size(v)) IN IF r.threw THEN r ELSE Done(Put(r.value, Size(v), w))

Cleared(v) == IF Type(v) = "null" THEN Done(v)
              ELSE IF IsContainer(v) THEN Done(Only(v, {})) ELSE Thrown(v)

\* resize(): an array with no entry at newSize - 1 is shorter than that when it is cut, and
\* the assertion behind it throws
Resized(v, newSize) ==
  LET c == Become(v, "array")
      cut == Only(c, 0 .. newSize - 1)
  IN IF ~May(v, "array") THEN Thrown(v)
     ELSE IF newSize = 0 THEN Cleared(c)
     ELSE IF newSize > Size(c) THEN Reference(c, "array", newSize - 1)
     ELSE IF Size(cut) = newSize THEN Done(cut) ELSE Thrown(cut)

\* removeMember, with the name and its length, and with a char*, to which the one with a
\* string passes c_str()
MemberRemoved(v, name) ==
  IF Type(v) # "object" \/ name \notin KeysOf(v) THEN Done(v)
  ELSE Found(Only(v, KeysOf(v) \ {name}), Payload(v)[name])
MemberDropped(v, name) ==
  CASE Type(v) = "null"   -> Done(v)
    [] Type(v) = "object" -> Done(Only(v, KeysOf(v) \ {CStr(name)}))
    [] OTHER -> Thrown(v)

\* Mutant: a hole is no entry to move, and what was below it stays.
BugShiftedHoles(v, index) ==
  [i \in (KeysOf(v) \cup {k - 1 : k \in KeysOf(v) \cap index + 1 .. Size(v)}) \cap 0 .. Size(v) - 2 |->
     IF i < index \/ i + 1 \notin KeysOf(v) THEN Payload(v)[i] ELSE Payload(v)[i + 1]]

\* removeIndex: what is above moves down, through operator[], which makes entries of holes
ShiftedFrom(v, index) ==
  [i \in (KeysOf(v) \cap 0 .. index - 1) \cup index .. Size(v) - 2 |->
     IF i < index THEN Payload(v)[i] ELSE IF i + 1 \in KeysOf(v) THEN Payload(v)[i + 1] ELSE NullValue]

IndexRemoved(v, index) ==
  IF Type(v) # "array" \/ index \notin KeysOf(v) THEN Done(v)
  ELSE Found(SwapPayload(v, "array", ShiftedFrom(v, index)), Payload(v)[index])

(***************************************************************************)
(* The nodes of a document, and the calls on them.                         *)
(***************************************************************************)
RECURSIVE PathsOf(_), NodeAt(_, _), Replace(_, _, _)
PathsOf(v) ==
  {<<>>} \cup IF IsContainer(v) THEN UNION {{<<k>> \o p : p \in PathsOf(Payload(v)[k])} : k \in KeysOf(v)} ELSE {}
NodeAt(v, path) == IF path = <<>> THEN v ELSE NodeAt(Payload(v)[Head(path)], Tail(path))
Replace(v, path, w) ==
  IF path = <<>> THEN w ELSE Put(v, Head(path), Replace(Payload(v)[Head(path)], Tail(path), w))

\* A call on a node; the bound is on how deep the document gets.
MaxDepth == 2
On(path, result) == root' = Replace(root, path, result.value) /\ calls' = calls + 1

Subscript(path) == /\ Len(path) < MaxDepth
                   /\ \E i \in Indices : On(path, Reference(NodeAt(root, path), "array", i))
Member(path) == /\ Len(path) < MaxDepth
                /\ \E n \in Names : On(path, Reference(NodeAt(root, path), "object", n))
AssignTo(path) == \E w \in Scalars : On(path, Done(w))
AppendTo(path) == /\ Len(path) < MaxDepth
                  /\ \E w \in Scalars : On(path, Appended(NodeAt(root, path), w))
Resize(path) == \E n \in Indices : On(path, Resized(NodeAt(root, path), n))
Clear(path) == On(path, Cleared(NodeAt(root, path)))
RemoveMember(path) == \E n \in Names : \/ On(path, MemberRemoved(NodeAt(root, path), n))
                                       \/ On(path, MemberDropped(NodeAt(root, path), n))
RemoveIndex(path) == \E i \in Indices : On(path, IndexRemoved(NodeAt(root, path), i))
Comment(path) == \E p \in Placements, c \in SomeComments : On(path, Done(SetComment(NodeAt(root, path), c, p)))

\* swap() of two nodes neither of which is in the other
SwapNodes(p, q) ==
  /\ ~IsPrefix(p, q) /\ ~IsPrefix(q, p)
  /\ root' = Replace(Replace(root, p, NodeAt(root, q)), q, NodeAt(root, p))
  /\ calls' = calls + 1

ValueInit == root = NullValue /\ calls = 0

ValueNext ==
  /\ calls < MaxCalls
  /\ \E path \in PathsOf(root) :
       \/ Subscript(path) \/ Member(path) \/ AssignTo(path) \/ AppendTo(path) \/ Resize(path) \/ Clear(path)
       \/ RemoveMember(path) \/ RemoveIndex(path) \/ Comment(path)
       \/ \E q \in PathsOf(root) : SwapNodes(path, q)

(***************************************************************************)
(* operator< and operator==.  Maps are compared by their sizes, and then   *)
(* entry by entry in the order of the keys.                                *)
(***************************************************************************)
TypeOrder == <<"null", "number", "string", "false", "true", "array", "object">>
PayloadOrder == <<"", "1", "2", "a", "x">>
Rank(order, x) == SelectInSeq(order, LAMBDA y : y = x)

InOrder(v) == IF Type(v) = "array" THEN SelectSeq([i \in 1 .. Size(v) |-> i - 1], LAMBDA i : i \in KeysOf(v))
                                   ELSE SelectSeq(NameOrder, LAMBDA n : n \in KeysOf(v))

\* Mutant: names are compared up to their first NUL.
BugKeyBeforeCut(v, k, l) ==
  IF Type(v) = "array" THEN k < l ELSE Rank(NameOrder, CStr(k)) < Rank(NameOrder, CStr(l))

\* by index, or by name: memcmp, and then the length
KeyBefore(v, k, l) == IF Type(v) = "array" THEN k < l ELSE Rank(NameOrder, k) < Rank(NameOrder, l)

RECURSIVE Same(_, _), Before(_, _)
Same(v, w) ==
  /\ Type(v) = Type(w)
  /\ IF IsContainer(v) THEN KeysOf(v) = KeysOf(w) /\ \A k \in KeysOf(v) : Same(Payload(v)[k], Payload(w)[k])
                       ELSE Payload(v) = Payload(w)

Before(v, w) ==
  IF Type(v) # Type(w) THEN Rank(TypeOrder, Type(v)) < Rank(TypeOrder, Type(w))
  ELSE IF ~IsContainer(v) THEN Rank(PayloadOrder, Payload(v)) < Rank(PayloadOrder, Payload(w))
  ELSE LET vs == InOrder(v)
           ws == InOrder(w)
       IN IF Len(vs) # Len(ws) THEN Len(vs) < Len(ws)
          ELSE \E n \in DOMAIN vs :
                 /\ \A m \in 1 .. n - 1 : vs[m] = ws[m] /\ Same(Payload(v)[vs[m]], Payload(w)[ws[m]])
                 /\ \/ KeyBefore(v, vs[n], ws[n])
                    \/ vs[n] = ws[n] /\ Before(Payload(v)[vs[n]], Payload(w)[ws[n]])

(***************************************************************************)
(* Json::Path.  A path is of <<type, key>>: "[1]" or ".a".                 *)
(***************************************************************************)
\* PathArgument keeps a name up to its first NUL.
PathArgument(arg) == IF arg[1] = "array" THEN arg ELSE <<arg[1], CStr(arg[2])>>
Arguments(args) == [k \in DOMAIN args |-> PathArgument(args[k])]

RECURSIVE MakePath(_, _), ResolvePath(_, _, _)
MakePath(v, path) ==
  IF path = <<>> THEN Done(v)
  ELSE LET r == Reference(v, path[1][1], path[1][2])
           m == MakePath(Payload(r.value)[path[1][2]], Tail(path))
       IN IF r.threw THEN r ELSE [m EXCEPT !.value = Put(r.value, path[1][2], m.value)]

\* makePath: the arguments in a text, of which a piece is a mark, a digit or a name, and of
\* those given for its "%".  Behind the digits of an index one piece is skipped, whatever it
\* is, and a "]" is never missed; a name ends at "[", at "." or, as strchr finds that as
\* well, at a NUL: there empty names are made without end.
Numerals == <<"0", "1", "2", "3", "4", "5", "6", "7", "8", "9">>
MarkAt(text, i) == IF i \in DOMAIN text THEN text[i] ELSE "end"
IsNumeral(x) == \E k \in DOMAIN Numerals : Numerals[k] = x
Nul == "\\0"
Endless == <<"object", <<>>, "for ever">>
TakesArg(in, type) == in # <<>> /\ in[1][1] = type

RECURSIVE ArgsFrom(_, _, _)
ArgsFrom(text, i, in) ==
  LET mark == MarkAt(text, i)
      InArg(type, next) == IF TakesArg(in, type) THEN <<in[1]>> \o ArgsFrom(text, next, Tail(in))
                                                 ELSE ArgsFrom(text, next, in)
      digits == Min({k \in i + 1 .. Len(text) + 1 : ~IsNumeral(MarkAt(text, k))})
      index == FoldLeft(LAMBDA n, x : 10 * n + SelectInSeq(Numerals, LAMBDA y : y = x) - 1, 0, SubSeq(text, i + 1, digits - 1))
      name == Min({k \in i + 1 .. Len(text) + 1 : MarkAt(text, k) \in {"[", ".", Nul, "end"}})
  IN CASE i > Len(text) -> <<>>
       [] mark = "[" /\ MarkAt(text, i + 1) = "%" -> InArg("array", i + 2)
       [] mark = "[" /\ MarkAt(text, i + 1) # "%" -> <<<<"array", index>>>> \o ArgsFrom(text, digits + 1, in)
       [] mark = "%" -> InArg("object", i + 1)
       [] mark \in {".", "]"} -> ArgsFrom(text, i + 1, in)
       [] mark = Nul -> <<Endless>>
       [] OTHER -> <<<<"object", SubSeq(text, i, name - 1)>>>> \o ArgsFrom(text, name, in)

\* A hole of an array is null, and what is looked for below it is not there; but a member
\* that is not there is not null.
HasKey(v, type, key) == Type(v) = type /\ IF type = "array" THEN key < Size(v) ELSE key \in KeysOf(v)
Constant(v, key) == IF key \in KeysOf(v) THEN Payload(v)[key] ELSE NullValue

ResolvePath(v, path, default) ==
  IF path = <<>> THEN v
  ELSE IF ~HasKey(v, path[1][1], path[1][2]) THEN default
  ELSE ResolvePath(Constant(v, path[1][2]), Tail(path), default)

-----------------------------------------------------------------------------
RECURSIVE Observe(_)
Observe(v) ==
  CASE Type(v) = "array"  -> SwapPayload(v, "array", [i \in 1 .. Size(v) |-> Observe(Constant(v, i - 1))])
    [] Type(v) = "object" -> SwapPayload(v, "object", [n \in KeysOf(v) |-> Observe(Payload(v)[n])])
    [] OTHER -> v

Elements(v) == IF Type(v) = "array" THEN Payload(Observe(v)) ELSE <<>>
Enlarged(s, n) == [i \in 1 .. Max({n, Len(s)}) |-> IF i <= Len(s) THEN s[i] ELSE NullValue]

\* What each call does to an array is what it would do to a sequence: an entry that was
\* never made counts as a null there, also where others are moved over it (json.h:882-927
\* and 1011-1017 of jsoncpp.cpp:3408-3440, 3643, 3707-3729).  Except that an entry that was
\* never made cannot be removed, that cutting behind it throws, when all is cut that was to
\* be, and that it goes with the last one when that is removed.
ArraysAreSequences(v) ==
  LET s == Elements(v)
  IN /\ \A w \in Scalars : LET r == Appended(v, w) IN ~r.threw => Elements(r.value) = Append(s, w)
     /\ \A n \in Indices :
          /\ LET r == Reference(v, "array", n) IN ~r.threw => Elements(r.value) = Enlarged(s, n + 1)
          /\ LET r == Resized(v, n)
             IN IF r.threw
                  THEN \/ ~May(v, "array") /\ r.value = v
                       \/ n - 1 \notin KeysOf(v) /\ n < Len(s) /\ IsStrictPrefix(Elements(r.value), SubSeq(s, 1, n))
                  ELSE Elements(r.value) = SubSeq(Enlarged(s, n), 1, n)
          /\ LET r == IndexRemoved(v, n)
                 rest == RemoveAt(s, n + 1)
             IN IF r.found
                  THEN /\ Observe(r.out) = s[n + 1]
                       /\ \/ Elements(r.value) = rest
                          \/ n = Len(s) - 1 /\ n - 1 \notin KeysOf(v) /\ IsStrictPrefix(Elements(r.value), rest)
                  ELSE r.value = v /\ (n < Len(s) => n \notin KeysOf(v))

\* A member is removed with its Value and no other is; with a char* that holds for a name
\* that has no NUL (3665-3705).
MembersAreApart(v) ==
  Type(v) = "object" =>
    \A n \in Names :
      /\ LET r == MemberRemoved(v, n)
         IN /\ r.found = (n \in KeysOf(v))
            /\ r.found => Put(r.value, n, r.out) = v /\ n \notin KeysOf(r.value)
      /\ n = CStr(n) => MemberDropped(v, n).value = MemberRemoved(v, n).value

CallsAsPromised ==
  \A path \in PathsOf(root) : ArraysAreSequences(NodeAt(root, path)) /\ MembersAreApart(NodeAt(root, path))

\* The Values of a document are in one order, whatever their types, and equal only if they
\* are of one place in it (2972-3091).  A path that make() has made resolves to what it made,
\* making it again changes nothing, and what resolved before resolves to the same; where that
\* is depends on a name only up to its first NUL, so that what has a longer one is not
\* found, and something else made or found for it (4010-4160).
PathArgs == LET args == ({"array"} \X Indices) \cup ({"object"} \X Names)
            IN {<<a>> : a \in args} \cup {<<a, b>> : a \in args, b \in args}

\* How a program writes a path, with a "%" for what it gives.
RECURSIVE NumeralsOf(_)
NumeralsOf(n) == (IF n < 10 THEN <<>> ELSE NumeralsOf(n \div 10)) \o <<Numerals[(n % 10) + 1]>>
WrittenArg(a, given, first) ==
  CASE a[1] = "array"  -> <<"[">> \o (IF given THEN <<"%">> ELSE NumeralsOf(a[2])) \o <<"]">>
    [] a[1] = "object" -> (IF first THEN <<>> ELSE <<".">>) \o (IF given THEN <<"%">> ELSE a[2])

\* A path that is written with [i] for an index and a name behind a dot, or at its start, is
\* read as these arguments, and as what is given in their order for [%] and % where those
\* stand (4034-4092).  Except that a name that is given counts up to its first NUL, and that
\* the reading does not end behind one that is written.
UpToNul(name) == SubSeq(name, 1, Min({k \in DOMAIN name : name[k] = Nul} \cup {Len(name) + 1}) - 1)
KeptOf(arg) == IF arg[1] = "array" THEN arg ELSE <<arg[1], UpToNul(arg[2])>>
HasNul(arg) == KeptOf(arg) # arg

PathsRead(args, given) ==
  LET text == FlattenSeq([k \in DOMAIN args |-> WrittenArg(args[k], given[k], k = 1)])
      places == SelectSeq([k \in DOMAIN args |-> k], LAMBDA k : given[k])
      fatal == {k \in DOMAIN args : HasNul(args[k]) /\ ~given[k]}
      kept == [k \in 1 .. IF fatal = {} THEN Len(args) ELSE Min(fatal) |-> KeptOf(args[k])]
  IN ArgsFrom(text, 1, [n \in DOMAIN places |-> KeptOf(args[places[n]])]) =
       IF fatal = {} THEN kept ELSE Append(kept, Endless)

ComparesAndResolves ==
  /\ \A p, q \in PathsOf(root) :
       LET v == NodeAt(root, p)
           w == NodeAt(root, q)
       IN /\ Cardinality({o \in {<<1, Before(v, w)>>, <<2, Before(w, v)>>, <<3, Same(v, w)>>} : o[2]}) = 1
          /\ \A r \in PathsOf(root) :
               LET x == NodeAt(root, r) IN ~Before(v, w) /\ ~Before(w, x) => ~Before(v, x)
  /\ \A args \in PathArgs :
       LET path == Arguments(args)
           m == MakePath(root, path)
           missing == <<"missing", "", NoComments>>
           before == ResolvePath(root, path, missing)
           after == ResolvePath(m.value, path, missing)
       IN IF m.threw THEN before = missing
          ELSE /\ args = path => after = NodeAt(m.value, [i \in DOMAIN args |-> args[i][2]])
               /\ MakePath(m.value, path).value = m.value
               /\ before \in {missing, after}
=============================================================================
