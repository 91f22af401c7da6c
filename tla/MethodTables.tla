----------------------------- MODULE MethodTables ------------------------------
(***************************************************************************)
(* The building of method tables (engine/method_table.cpp).  A table is an *)
(* array of entries and ranges of it: one for each class of the hierarchy, *)
(* one for each interface that is inherited, in the order in which the     *)
(* super, the interfaces and the extensions are met.                       *)
(***************************************************************************)
EXTENDS Hierarchies

EmptyTable == [built |-> TRUE, entries |-> <<>>, classes |-> <<>>, interfaces |-> <<>>]
NotBuilt == [EmptyTable EXCEPT !.built = FALSE]

Entry(method, context) == [method |-> method, context |-> context]
EntryRef(e) == Ref(e.method, e.context)
SubTable(type, start, end) == [type |-> type, start |-> start, end |-> end]

--------------------------------------------------------------------------------
(* Lookups.  Positions start at 0, as in the code: entry i of a table is      *)
(* entries[i + 1].                                                            *)

SubTables(table) == table.classes \o table.interfaces
EntriesOf(st) == st.start..st.end - 1
Compare(table, ref, i) == EntryRef(table.entries[i + 1]) = ref

\* The ranges are disjoint: every entry that a range shows, once.
ResolveAll(table, ref) ==
  {i \in 0..Len(table.entries) - 1 :
     /\ \E n \in DOMAIN SubTables(table) : i \in EntriesOf(SubTables(table)[n])
     /\ Compare(table, ref, i)}

Unresolved == [methodNum |-> -1, subTableNum |-> -1]
First(table, ref, subtables) ==
  LET at(n) == {i \in EntriesOf(subtables[n]) : Compare(table, ref, i)}
      found == {n \in DOMAIN subtables : at(n) # {}}
  IN IF found = {} THEN Unresolved
     ELSE [methodNum |-> Min(at(Min(found))) - subtables[Min(found)].start, subTableNum |-> Min(found) - 1]
Resolve(table, ref) == First(table, ref, SubTables(table))
EntryAt(table, found) ==
  table.entries[SubTables(table)[found.subTableNum + 1].start + found.methodNum + 1]

--------------------------------------------------------------------------------
(* MethodTableBuilder *)

Shifted(ranges, n) == [i \in DOMAIN ranges |-> SubTable(ranges[i].type, ranges[i].start + n, ranges[i].end + n)]

\* Mutant: the ranges of the interface keep their places.
AddInterfaceUnshifted(b, interface, table) ==
  IF interface \in b.seen THEN b
  ELSE IF ~table.built THEN [b EXCEPT !.built = FALSE]
  ELSE [b EXCEPT !.entries = @ \o table.entries,
                 !.interfaces = @ \o table.interfaces,
                 !.seen = @ \cup {interface}]

AddInterface(b, interface, table) ==
  IF interface \in b.seen THEN b
  ELSE IF ~table.built THEN [b EXCEPT !.built = FALSE]
  ELSE [b EXCEPT !.entries = @ \o table.entries,
                 !.interfaces = @ \o Shifted(table.interfaces, Len(b.entries)),
                 !.seen = @ \cup {interface}]

\* Overridden methods are patched wherever they are; a new one is appended.
Patched(b, entry, rows) ==
  [b EXCEPT !.entries = IF rows = {} THEN Append(@, entry)
                        ELSE [i \in DOMAIN @ |-> IF i - 1 \in rows THEN entry ELSE @[i]]]
AddMethod(b, entry) == Patched(b, entry, ResolveAll(b, EntryRef(entry)))

\* What BuildTable does, in its order: the interfaces, the extensions of each
\* file, the type's own methods.
InterfaceSteps(interfaces, owner) ==
  [i \in DOMAIN interfaces |-> [do |-> "interface", type |-> Instance(interfaces[i], owner)]]
MethodSteps(methods, context) ==
  [i \in DOMAIN methods |-> [do |-> "method", entry |-> Entry(methods[i], context)]]
ExtensionSteps(exts, t) ==
  FlattenSeq([i \in DOMAIN exts |-> InterfaceSteps(exts[i].interfaces, ContextOf(exts[i], t))
                                      \o MethodSteps(exts[i].methods, ContextOf(exts[i], t))])
Steps(t) ==
  InterfaceSteps(DefinitionOf(t).interfaces, t)
    \o ExtensionSteps(ExtensionsOf(t), t)
    \o <<[do |-> "own"]>>
    \o MethodSteps(DefinitionOf(t).methods, t)

NewSubTable(b, t, kind) ==
  LET range == SubTable(t, b.start, Len(b.entries))
  IN IF kind = "INTERFACE" THEN [b EXCEPT !.interfaces = Append(@, range)]
     ELSE [b EXCEPT !.classes = Append(@, range)]

\* VerifyAndResolveConflicts: the rows of one reference get the last override,
\* the last body inherited from the super, or the only body there is.
Rows(b, ref) == {i \in DOMAIN b.entries : EntryRef(b.entries[i]) = ref}
Bodies(b, rows) == {i \in rows : ~b.entries[i].method.abstract}

\* Mutant: an inherited body is no better than a default.
ChosenOnlyBody(b, rows, old, current) ==
  IF Cardinality(rows) > 1 /\ Cardinality(Bodies(b, rows)) = 1 THEN Bodies(b, rows) ELSE {}

Chosen(b, rows, old, current) ==
  LET overrides == {i \in rows : i > current}
      oldBodies == {i \in Bodies(b, rows) : i <= old}
  IN CASE Cardinality(rows) < 2 -> {}
       [] overrides # {} -> {Max(overrides)}
       [] oldBodies # {} -> {Max(oldBodies)}
       [] Cardinality(Bodies(b, rows)) = 1 -> Bodies(b, rows)
       [] OTHER -> {}

ConflictFound(b, old, current) ==
  \E i \in DOMAIN b.entries :
    LET rows == Rows(b, EntryRef(b.entries[i]))
    IN /\ Chosen(b, rows, old, current) = {}
       /\ Cardinality({b.entries[j].method : j \in Bodies(b, rows)}) > 1

Merged(b, old, current) ==
  [i \in DOMAIN b.entries |->
     LET chosen == Chosen(b, Rows(b, EntryRef(b.entries[i])), old, current)
     IN IF chosen = {} THEN b.entries[i] ELSE b.entries[Max(chosen)]]

VerifyAndResolveConflicts(b, old, current) ==
  IF ~b.built \/ ConflictFound(b, old, current) THEN NotBuilt
  ELSE [EmptyTable EXCEPT !.entries = Merged(b, old, current),
                          !.classes = b.classes, !.interfaces = b.interfaces]

BuildTable[t \in Terms] ==
  LET tableOf(u) == IF u = Nil THEN EmptyTable ELSE IF u \in Terms THEN BuildTable[u] ELSE NotBuilt
      base == tableOf(Super(t))
      add(b, step) ==
        CASE ~b.built -> b
          [] b.built /\ step.do = "interface" -> AddInterface(b, step.type, tableOf(step.type))
          [] b.built /\ step.do = "method" -> AddMethod(b, step.entry)
          [] b.built /\ step.do = "own" -> [b EXCEPT !.start = Len(b.entries)]
      empty == [built |-> base.built, entries |-> base.entries, classes |-> base.classes,
                interfaces |-> base.interfaces, seen |-> {}, start |-> 0]
      close(b) == VerifyAndResolveConflicts(b, Len(base.entries), Len(b.entries))
  IN close(NewSubTable(FoldLeft(add, empty, Steps(t)), t, DefinitionOf(t).kind))

\* Each built once.
Table == [t \in Terms |-> BuildTable[t]]
================================================================================
