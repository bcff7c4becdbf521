----------------------------- MODULE JsonFields -----------------------------
(***************************************************************************)
(* include/json_head.hpp and include/entities/TelegramEntities.hpp: how    *)
(* the fields of a JSON document are checked, how they reach the members   *)
(* of an entity, and how members become fields again.                      *)
(*                                                                         *)
(* A JSON value is a record with its kind.  A fields_map, the members of   *)
(* an entity and the contents of a JSON object are functions from names;   *)
(* a member that nothing has set is not in the domain.  A table of fields  *)
(* gives each name the kind that is asked for.                             *)
(***************************************************************************)
EXTENDS Integers, Sequences, FiniteSets, SequencesExt

CONSTANTS
  SignBit    \* bound: the least number that is no int64, 2 ^ 63 in the code

ASSUME SignBitAssumption == SignBit \in Nat \ {0}

-----------------------------------------------------------------------------
\* What the parser of the library makes of a number: int64 if it fits.
Integer(n) ==
  [kind |-> IF n < SignBit THEN "int64" ELSE "uint64", num |-> n]

Double(n) == [kind |-> "double", num |-> n]
Text(t)   == [kind |-> "string", text |-> t]
Bool(b)   == [kind |-> "bool", bool |-> b]
Array(s)  == [kind |-> "array", items |-> s]
Object(f) == [kind |-> "object", at |-> f]
Null      == [kind |-> "null"]

\* Not a JSON value: std::nullopt.
None == [kind |-> "none"]

Integral == {"int64", "uint64"}

\* What an object has under a name.
Field(v, name) ==
  IF v.kind = "object" /\ name \in DOMAIN v.at THEN v.at[name] ELSE None

\* find_pointer of the library.  A pointer is the sequence of its names; one
\* that does not begin with a slash is empty here, and an error.
Find(v, pointer) ==
  LET found[i \in 0 .. Len(pointer)] ==
        IF i = 0 THEN v ELSE Field(found[i - 1], pointer[i])
  IN  IF pointer = <<>> THEN None ELSE found[Len(pointer)]

\* A table of fields: RFP, MAKE_OP, PAIR and the pairs of pointer and kind.
Fields(kind, names) == [n \in names |-> kind]

\* f laid over g (as @@ of TLC, which the provers do not know).
f ++ g ==
  [n \in DOMAIN f \cup DOMAIN g |-> IF n \in DOMAIN f THEN f[n] ELSE g[n]]

-----------------------------------------------------------------------------
(***************************************************************************)
(* From a document to members                                              *)
(***************************************************************************)
\* checkInt and checkUInt compare the kind of the value with itself, not with
\* what was asked for: an integer passes for any kind.
CheckPointerValidation(v, pointer, kind) ==
  LET found == Find(v, pointer)
  IN  IF found.kind \in Integral \cup {kind} THEN found ELSE None

\* mapped_pointers_validation: the fields that pass, each under the last name
\* of its pointer.  `under` is what the pointers of the table begin with.
MappedPointersValidation(v, under, table) ==
  LET passed(n) == CheckPointerValidation(v, Append(under, n), table[n])
  IN  [n \in {n \in DOMAIN table : passed(n) # None} |-> passed(n)]

\* Either kind of integer gives a uint64_t: a negative number wraps around.
ValueToType(kind, v) ==
  CASE kind \in Integral /\ v.kind \in Integral ->
         [kind |-> "uint64", num |-> v.num % (2 * SignBit)]
    [] kind \notin Integral /\ v.kind = kind -> v
    [] OTHER -> None

\* field_from_map: a member that is missing or of another kind stays as it is.
FieldFromMap(map, table) ==
  LET taken(n) == ValueToType(table[n], map[n])
  IN  [n \in {n \in DOMAIN table \cap DOMAIN map : taken(n) # None} |-> taken(n)]

\* The tail of every requested_fields: all of them or std::nullopt, which is
\* no map at all.
AllOf(count, map) == IF Cardinality(DOMAIN map) = count THEN {map} ELSE {}

\* container_move into an object or a map: what is there already stays.
ContainerMove(from, to) == to ++ from

\* TelegramEntities::verify_fields: the optional fields are laid over the
\* requested ones, which must be complete.
VerifyFields(entity, v) ==
  LET requested == MappedPointersValidation(v, entity.under, entity.requested)
      optional  == MappedPointersValidation(v, entity.under, entity.optional)
  IN  {optional ++ map : map \in AllOf(entity.req_fields, requested)}

-----------------------------------------------------------------------------
(***************************************************************************)
(* From members to a document                                              *)
(***************************************************************************)
\* parse_ObjPairs_as_obj and parse_OptPairs_as_obj: a pair is written if its
\* member has a value.  `names` gives each key the member it is written from.
\* A requested member that nothing has set is written with whatever it holds,
\* and left out here.
ParsePairs(names, members) ==
  LET present == {k \in DOMAIN names : names[k] \in DOMAIN members}
  IN  [k \in present |-> members[names[k]]]

\* PAIR and MAKE_OP with a member of the same name.
Same(names) == [n \in names |-> n]
=============================================================================
