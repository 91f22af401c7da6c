----------------------------- MODULE FieldLayouts -----------------------------
(***************************************************************************)
(* The layouts of the values and objects of types (engine/field_layout.cpp)*)
(* and the resolution of references to their fields (resolution.cpp).      *)
(*                                                                         *)
(* A layout is the result of one pass over the fields with an accumulator, *)
(* the layouts of the fields' own types nested in it.  A size or an offset *)
(* that is not known is a value of its own, as nullopt is in the code.     *)
(***************************************************************************)
EXTENDS Integers, FiniteSets, Sequences, SequencesExt

CONSTANTS
  Types,         \* the terms, without type variables substituted away
  Describe       \* what a term is: kind, whether it is a reference, parts, names, super, num

Word == 8
MaxAlign == 16
ObjectHeaderSize == 8
Unknown == -1

Kind(t) == Describe[t].kind
IsReference(t) == Describe[t].reference

IsRecord(t) ==
  \/ Kind(t) \in {"UNIT", "TUPLE", "PACKED_TUPLE", "UNION_ENUM", "VARRAY"}
  \/ Kind(t) \in {"TYPE", "OPTION", "AOT_TYPE"} /\ ~IsReference(t)

PrimitiveSize ==
  [VOID |-> 0, UNIT |-> 0, I8 |-> 1, BOOLEAN |-> 1, I16 |-> 2, I32 |-> 4, I64 |-> 8, C_POINTER |-> 8]

AlignUp(size, alignment) == ((size + alignment - 1) \div alignment) * alignment
AlignUpKnown(size, alignment) == IF size = Unknown THEN Unknown ELSE AlignUp(size, alignment)
PlusKnown(a, b) == IF Unknown \in {a, b} THEN Unknown ELSE a + b

--------------------------------------------------------------------------------
(* SizeAlignmentAccumulator *)

Larger(a, b) == IF a > b THEN a ELSE b
NoFields == [size |-> 0, alignment |-> 1, fields |-> <<>>, built |-> TRUE]
NotBuilt == [size |-> Unknown, alignment |-> MaxAlign, fields |-> <<>>, built |-> FALSE]

\* A field of unknown size makes the size unknown, and its own offset is still known.
AddField(acc, type, name, size, alignment) ==
  LET offset == AlignUpKnown(acc.size, alignment)
  IN [acc EXCEPT
        !.size = PlusKnown(offset, size),
        !.alignment = Larger(alignment, IF size = Unknown THEN MaxAlign ELSE acc.alignment),
        !.fields = Append(acc.fields, [type |-> type, name |-> name, offset |-> offset])]

Reference == [NoFields EXCEPT !.size = Word, !.alignment = Word]

\* After the last field: values of several fields are rounded up to their alignment.
Closed(type, acc) ==
  IF ~acc.built THEN NotBuilt
  ELSE CASE type.kind = "PACKED_TUPLE" -> [acc EXCEPT !.alignment = 1]
         [] type.kind \in {"TYPE", "TUPLE"} \/ (type.kind = "OPTION" /\ ~type.reference) ->
              [acc EXCEPT !.size = AlignUpKnown(acc.size, acc.alignment)]
         [] OTHER -> acc

\* The elements of an array of values, and the cases of a tightly packed enum.
Repeated(elem, num) ==
  LET step == AlignUpKnown(elem.size, elem.alignment)
  IN [NoFields EXCEPT !.size = IF step = Unknown THEN Unknown ELSE step * num,
                      !.alignment = elem.alignment]
Overlaid(sizes) == IF Unknown \in sizes THEN NotBuilt ELSE [NoFields EXCEPT !.size = Max(sizes \cup {0})]

--------------------------------------------------------------------------------
(* GetLayout: of a value, or of the object behind a reference.  The cache only *)
(* saves work: a layout depends on its term alone.                             *)

BuildLayout[t \in Types] ==
  LET type == Describe[t]
      packed == type.kind = "PACKED_TUPLE"
      valueOf(p) == IF IsReference(p) THEN Reference ELSE BuildLayout[p]
      parts == [i \in DOMAIN type.parts |-> [value |-> valueOf(type.parts[i]), index |-> i]]
      base == CASE ~type.reference \/ type.kind # "TYPE" -> NoFields
                [] type.super \in Types -> BuildLayout[type.super]
                [] OTHER -> [NoFields EXCEPT !.alignment = Word]
      add(acc, part) == AddField(acc, type.parts[part.index], type.names[part.index],
                                 part.value.size, IF packed THEN 1 ELSE part.value.alignment)
  IN CASE type.kind \in DOMAIN PrimitiveSize ->
            [NoFields EXCEPT !.size = PrimitiveSize[type.kind],
                             !.alignment = Larger(PrimitiveSize[type.kind], 1)]
       [] type.kind = "AOT_TYPE" ->
            [NoFields EXCEPT !.size = type.info.size, !.alignment = type.info.alignment]
       [] type.kind = "VARRAY" -> Repeated(parts[1].value, type.num)
       [] type.kind = "UNION_ENUM" -> Overlaid({parts[i].value.size : i \in DOMAIN parts})
       [] type.kind \in {"TYPE", "TUPLE", "PACKED_TUPLE", "OPTION", "PRIMITIVE_ENUM"} ->
            IF type.super = "UNDEFINED" THEN NotBuilt ELSE Closed(type, FoldLeft(add, base, parts))
       [] OTHER -> NotBuilt

\* Each built once.
Layout == [t \in Types |-> BuildLayout[t]]

GetFlatSize(t) == IF IsReference(t) THEN Word ELSE Layout[t].size
GetFlatAlignment(t) == IF IsReference(t) THEN Word ELSE Layout[t].alignment
GetAlignedFlatSize(t) == AlignUpKnown(GetFlatSize(t), GetFlatAlignment(t))

ElementAt(disp, i, step) == disp + i * step

\* Where a value holds references; a field without an offset ends the search.
RefOffsets[t \in Types] ==
  LET type == Describe[t]
      At(p, disps) ==
        UNION {{disp + offset : offset \in IF IsReference(p) THEN {0} ELSE RefOffsets[p]} : disp \in disps}
      Steps(step) == IF step = Unknown THEN {} ELSE {ElementAt(0, i, step) : i \in 0..type.num - 1}
      Reached(fields) == {i \in DOMAIN fields : \A j \in 1..i : fields[j].offset # Unknown}
      OfFields(fields) == UNION {At(fields[i].type, {fields[i].offset}) : i \in Reached(fields)}
  IN CASE type.kind = "VARRAY" -> At(type.parts[1], Steps(GetAlignedFlatSize(type.parts[1])))
       [] type.kind = "AOT_TYPE" -> type.info.references
       [] type.kind \in {"TUPLE", "PACKED_TUPLE", "OPTION", "TYPE"} -> OfFields(Layout[t].fields)
       [] OTHER -> {}

FillRefOffsets == [t \in Types |-> RefOffsets[t]]

--------------------------------------------------------------------------------
(* References to instance fields *)

\* The first field of a layout with the name and the type.
NamedField(fields, name, type) ==
  LET found == {i \in DOMAIN fields : fields[i].name = name /\ fields[i].type = type}
  IN IF found = {} THEN Unknown ELSE fields[CHOOSE i \in found : \A j \in found : i <= j].offset

\* ResolveSingleFieldRef: in an object a field lies behind the header.
ResolveSingle(t, name, type) ==
  PlusKnown(NamedField(Layout[t].fields, name, type), IF IsReference(t) THEN ObjectHeaderSize ELSE 0)

\* ResolveIndexedElement: an element of a tuple or of an array of values.
ElementOfVArray(i, num, step) == IF i > num \/ step = Unknown THEN Unknown ELSE (i - 1) * step
ResolveIndexed(t, i) ==
  IF Kind(t) = "VARRAY"
  THEN ElementOfVArray(i, Describe[t].num, GetAlignedFlatSize(Describe[t].parts[1]))
  ELSE Layout[t].fields[i].offset

\* What one step of a path names: a field by its name and type, or by its index.
FieldAt(t, i) == Layout[t].fields[i]
PartOf(t, i) == IF Kind(t) = "VARRAY" THEN Describe[t].parts[1] ELSE FieldAt(t, i).type
ResolveField(t, i) ==
  IF Kind(t) = "TYPE"
  THEN LET Named(f) == ResolveSingle(t, f.name, f.type) IN Named(FieldAt(t, i))
  ELSE ResolveIndexed(t, i)

\* ResolveMultiFieldRef: the fields of fields, their offsets added up.
NextField(at, i) ==
  [type |-> PartOf(at.type, i), offset |-> PlusKnown(at.offset, ResolveField(at.type, i))]
ResolveMulti(t, path) == FoldLeft(NextField, [type |-> t, offset |-> 0], path)

\* The types along a path.
TypeAt(t, path) == FoldLeft(PartOf, t, path)

\* An array whose elements have no known size has no field at all, not one without an
\* offset, and each field on a path is unwrapped before offsets are added up.
IsResolved(t, path) ==
  \A n \in DOMAIN path :
    LET array == TypeAt(t, SubSeq(path, 1, n - 1))
    IN Kind(array) = "VARRAY" => GetAlignedFlatSize(Describe[array].parts[1]) # Unknown
================================================================================
