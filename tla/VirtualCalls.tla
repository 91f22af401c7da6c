----------------------------- MODULE VirtualCalls ------------------------------
(***************************************************************************)
(* Calls of methods of objects.  A call site is linked to a position in    *)
(* the method table of the type it names (resolution.cpp) when its method  *)
(* is rewritten; the type info of an object lays the method table of its   *)
(* own class out for the runtime (typeinfo_factory.cpp) when the first is  *)
(* created; the call indexes the one with the other (runtime.cpp).  The    *)
(* two tables were built from different types, so the positions must agree.*)
(***************************************************************************)
EXTENDS MethodTables, TLC

CONSTANTS
  Programs       \* each the call sites and the classes of objects of a program

VARIABLES
  program,       \* sites and objects
  tables,        \* CachingMethodTableManager::tables
  calls,         \* the sites that were linked, with what their instruction says
  infos          \* the type infos of objects

vars == <<program, tables, calls, infos>>

Init == program \in Programs /\ tables = <<>> /\ calls = <<>> /\ infos = <<>>

--------------------------------------------------------------------------------
(* CachingMethodTableManager: one request holds the lock while it builds all  *)
(* the tables it needs.  Those that were built stay cached if a later one fails. *)

Needs(t) ==
  SelectSeq(<<[do |-> "interface", type |-> Super(t)]>> \o Steps(t), LAMBDA s : s.do = "interface")
IsBuilt(t) == t = Nil \/ (t \in Terms /\ Table[t].built)
Requested(needs) == {needs[i].type : i \in {j \in DOMAIN needs : \A k \in 1..j - 1 : IsBuilt(needs[k].type)}}

BuiltBy[t \in Terms] ==
  {u \in {t} : IsBuilt(t)} \cup UNION {BuiltBy[u] : u \in Requested(Needs(t)) \cap Terms}
AreBuilt == [t \in Terms |-> BuiltBy[t]]

GetMethodTable(t) ==
  tables' = [u \in AreBuilt[t] |-> Table[u]] @@ tables

--------------------------------------------------------------------------------
(* ResolveCbcCall *)

NotLinked == [linked |-> FALSE, methodNum |-> -1, subTableNum |-> -1]

ResolveCbcCall(site, table) ==
  LET found == Resolve(table, site.ref)
  IN IF found = Unresolved THEN NotLinked
     ELSE IF EntryAt(table, found).method.abi # site.abi THEN NotLinked
     ELSE [linked |-> TRUE, methodNum |-> found.methodNum, subTableNum |-> found.subTableNum]

Link(site) ==
  /\ site \notin DOMAIN calls
  /\ GetMethodTable(site.type)
  /\ calls' = calls @@ (site :> IF Table[site.type].built THEN ResolveCbcCall(site, Table[site.type])
                                                          ELSE NotLinked)
  /\ UNCHANGED <<program, infos>>

--------------------------------------------------------------------------------
(* CreateTypeInfoDyn: the extension data of a type info *)

ThrowAbstractMethodCallError ==
  [owner |-> "helper", name |-> "-", signature |-> "-", abstract |-> TRUE, abi |-> "-"]
GetTableMember(entry) == IF entry.method.abstract THEN ThrowAbstractMethodCallError ELSE entry.method

\* A range takes two slots for each of its entries: the trampolines, then the
\* outer types.  A trampoline knows its entry in the object's own data table.
SlotsOf(st) == 2 * st.start..2 * st.end - 1
Slot(table, st, slot) ==
  LET entry == st.start + ((slot - 2 * st.start) % (st.end - st.start))
  IN IF slot - 2 * st.start < st.end - st.start THEN [trampoline |-> entry]
     ELSE [outerTI |-> table.entries[entry + 1].context]

\* The ranges are written in turn.
FlatMethods(table, subtables) ==
  [slot \in {s \in 0..2 * Len(table.entries) - 1 : \E n \in DOMAIN subtables : s \in SlotsOf(subtables[n])} |->
     Slot(table, subtables[Max({n \in DOMAIN subtables : slot \in SlotsOf(subtables[n])})], slot)]

ExtDefs(subtables) ==
  [n \in DOMAIN subtables |->
     [interfaceTypeInfo |-> subtables[n].type,
      funcTable |-> 2 * subtables[n].start,
      funcTableSize |-> subtables[n].end - subtables[n].start]]

NoInfo == [built |-> FALSE, dataMT |-> <<>>, flatMethods |-> <<>>, extDefs |-> <<>>]
InfoOf(table) ==
  [built |-> TRUE,
   dataMT |-> [i \in DOMAIN table.entries |-> GetTableMember(table.entries[i])],
   flatMethods |-> FlatMethods(table, SubTables(table)),
   extDefs |-> ExtDefs(SubTables(table))]

CreateTypeInfo(t) ==
  /\ t \notin DOMAIN infos
  /\ GetMethodTable(t)
  /\ infos' = infos @@ (t :> IF Table[t].built THEN InfoOf(Table[t]) ELSE NoInfo)
  /\ UNCHANGED <<program, calls>>

Next ==
  \/ \E site \in program.sites : Link(site)
  \/ \E t \in program.objects : CreateTypeInfo(t)

Spec == Init /\ [][Next]_vars

--------------------------------------------------------------------------------
(* What a linked call reaches in an object: GetVirtualThunk indexes the       *)
(* extension data, GetInterfaceThunk searches it for the interface.           *)

Reached(info, extDef, num) ==
  LET slot == extDef.funcTable + num
      outer == slot + extDef.funcTableSize
      holds(s, field) == s \in DOMAIN info.flatMethods /\ field \in DOMAIN info.flatMethods[s]
  IN IF holds(slot, "trampoline") /\ holds(outer, "outerTI")
     THEN {[method |-> info.dataMT[info.flatMethods[slot].trampoline + 1],
            context |-> info.flatMethods[outer].outerTI]}
     ELSE {}

ExtDefsFor(site, call, info) ==
  IF site.kind = "virtual" THEN {call.subTableNum + 1} \cap DOMAIN info.extDefs
  ELSE {n \in DOMAIN info.extDefs : info.extDefs[n].interfaceTypeInfo = site.type}

Promises(t, ref) == {Entry(GetTableMember(c), c.context) : c \in Promise[t][ref]}

Runs(site, t) ==
  LET defs == ExtDefsFor(site, calls[site], infos[t])
  IN /\ defs # {}
     /\ \A n \in defs :
          \E r \in Reached(infos[t], infos[t].extDefs[n], calls[site].methodNum) :
            r \in Promises(t, site.ref)

\* Positions are those of the range that has the reference: a call through a class
\* finds it in a range of a class, a call through an interface in its own.
FoundWhereItsTypeIs(site, table) ==
  LET n == calls[site].subTableNum
  IN IF site.kind = "virtual" THEN n < Len(table.classes) ELSE SubTables(table)[n + 1].type = site.type

LinkedPairs ==
  {p \in (DOMAIN calls) \X (DOMAIN infos) :
     calls[p[1]].linked /\ infos[p[2]].built /\ p[1].type \in Above[p[2]]}

\* A call that was linked runs, in an object of every class below the type it names,
\* the method that the class's hierarchy promises, with the outer type that goes with
\* it: method_table.cpp patches in place, resolution.cpp and typeinfo_factory.cpp
\* number the results separately.
CallsRunWhatIsPromised ==
  \A p \in LinkedPairs :
    FoundWhereItsTypeIs(p[1], Table[p[1].type]) => Runs(p[1], p[2])

\* As above for a reference that the named type only inherits: the numbers alone
\* are the method's.
NumbersAreEnough == \A p \in LinkedPairs : Runs(p[1], p[2])

\* A table is refused exactly when the hierarchy is: two bodies of one method that
\* nothing decides between, or a type that is missing (VerifyAndResolveConflicts);
\* otherwise the calls of all the methods it promises are linked.
RefusedForACause ==
  /\ \A t \in DOMAIN tables : IsAccepted[t]
  /\ \A t \in DOMAIN infos : infos[t].built <=> IsAccepted[t]
  /\ \A site \in DOMAIN calls :
       calls[site].linked <=>
         /\ IsAccepted[site.type]
         /\ \E c \in Promise[site.type][site.ref] : c.method.abi = site.abi
================================================================================
