------------------------------- MODULE MCStartup -------------------------------
(***************************************************************************)
(* The launcher and the preloaded library, alone and beside another thread *)
(* that initialises the engine.  The directory holds a library with two    *)
(* patches, a damaged file, the intrinsics, and the main file under the    *)
(* name it is given by or under another.                                   *)
(***************************************************************************)
EXTENDS Startup

MCFile(inode) ==
  [inode |-> inode, regular |-> TRUE, opens |-> TRUE, valid |-> TRUE, hasMain |-> FALSE,
   hasHelpers |-> FALSE, helpersRewrite |-> TRUE, aotDeps |-> <<>>, foreignLibs |-> <<>>, patches |-> <<>>]

MCPatch(package, lib, init, literals) ==
  [package |-> package, typeInfoFound |-> TRUE, flagIn |-> lib,
   methods |-> [i \in Slots |-> IF i = 0 THEN init ELSE literals]]

MCDisk ==
  [patches |-> [MCFile(1) EXCEPT
                  !.aotDeps = <<"libp", "libq">>,
                  !.patches = <<MCPatch("p", "libp", "initP", "literalsP"),
                                MCPatch("q", "libq", "initQ", None)>>],
   later |-> [MCFile(2) EXCEPT !.aotDeps = <<"libr">>,
                               !.patches = <<MCPatch("r", "libr", "initR", None),
                                             MCPatch("s", "libother", None, "literalsS"),
                                             [MCPatch("t", "libr", "initT", None) EXCEPT !.typeInfoFound = FALSE]>>],
   damaged |-> [MCFile(3) EXCEPT !.valid = FALSE],
   locked |-> [MCFile(4) EXCEPT !.opens = FALSE],
   folder |-> [MCFile(5) EXCEPT !.regular = FALSE],
   main |-> [MCFile(6) EXCEPT !.hasMain = TRUE],
   link |-> [MCFile(6) EXCEPT !.hasMain = TRUE],
   headless |-> MCFile(7),
   intrinsics |-> [MCFile(8) EXCEPT !.hasHelpers = TRUE],
   unbuildable |-> [MCFile(9) EXCEPT !.hasHelpers = TRUE, !.helpersRewrite = FALSE]]

MCBase ==
  [disk |-> MCDisk, directory |-> {"patches", "later", "damaged", "intrinsics"}, intrinsics |-> "intrinsics",
   main |-> None, envMain |-> None, symbolsFound |-> TRUE,
   readable |-> TRUE, trampolines |-> TRUE, packages |-> {"p", "q", "r", "s", "t"},
   scripts |-> [h1 |-> <<"bridge">>, h2 |-> <<>>]]

MCLaunched(file) ==
  [MCBase EXCEPT !.main = file, !.scripts = [h1 |-> <<"bridge", "initialize", "trampoline">>, h2 |-> <<>>]]
MCWithAnother(w) == [w EXCEPT !.scripts = [@ EXCEPT !.h2 = <<"initialize">>]]

MCWorlds ==
  {MCWithAnother(MCBase),
   MCWithAnother([MCLaunched("main") EXCEPT !.directory = {"link", "damaged", "main"}]),
   [MCLaunched("link") EXCEPT !.directory = {"main", "locked", "folder"}],
   [MCLaunched("headless") EXCEPT !.envMain = "main", !.directory = {"headless", "main"}],
   [MCLaunched("headless") EXCEPT !.directory = {"later"}],
   [MCLaunched("locked") EXCEPT !.directory = {"main", "locked"}],
   [MCLaunched("absent") EXCEPT !.directory = {"damaged"}],
   [MCLaunched("main") EXCEPT !.intrinsics = None, !.directory = {"patches"}],
   [MCBase EXCEPT !.envMain = "main"],
   [MCBase EXCEPT !.symbolsFound = FALSE],
   [MCLaunched("main") EXCEPT !.readable = FALSE],
   MCWithAnother([MCBase EXCEPT !.trampolines = FALSE]),
   [MCBase EXCEPT !.intrinsics = "absent", !.directory = {"patches"}],
   [MCBase EXCEPT !.intrinsics = None],
   [MCBase EXCEPT !.intrinsics = None, !.directory = {"patches"}],
   [MCBase EXCEPT !.intrinsics = "unbuildable", !.directory = {"patches"}]}
================================================================================
