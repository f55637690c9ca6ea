------------------------------ MODULE MCMinidump ------------------------------
(***************************************************************************)
(* Dumps of a small process: two threads, an executable in two mappings, a *)
(* heap, a mapped data file, an anonymous stack and the main stack.        *)
(***************************************************************************)
Map(start, end, perm, kind, name, offset) ==
    [start |-> start, end |-> end, perm |-> perm, kind |-> kind,
     name |-> name, offset |-> offset]

RW == {"r", "w"}

Maps == <<Map(8, 16, {"r"}, "file", "exe", 0),
          Map(16, 24, {"r", "x"}, "file", "exe", 8),
          Map(24, 40, RW, "heap", "", 0),
          Map(40, 44, {"r"}, "file", "data", 0),
          Map(48, 54, RW, "anon", "", 0),
          Map(56, 64, RW, "stack", "", 0)>>

Thread(tid, captured, sp, psp, words, regs) ==
    [tid |-> tid, captured |-> captured, sp |-> sp, psp |-> psp,
     words |-> words, regs |-> regs, saved |-> IF captured THEN 5 ELSE 0]

CapturedThreads(sp) ==
    <<Thread(1, TRUE, sp, 0, <<27, 3, 36, 20>>, <<33, 24>>),
      Thread(2, FALSE, 0, 50, <<38, 28>>, <<>>)>>

Dump(os, mode, port, sp, faults) ==
    [os |-> os, mode |-> mode, port |-> port, faults |-> faults,
     threads |-> CapturedThreads(sp), crashed |-> 1, crash |-> 25,
     maps |-> Maps, elf |-> {"exe"}, ids |-> {"exe"},
     mods |-> <<[name |-> "exe", base |-> 8], [name |-> "lib", base |-> 40]>>,
     missing |-> {"lsb"}, links |-> 2]

MCDumps ==
    {Dump("linux", "smart", TRUE, 58, 2), Dump("linux", "full", TRUE, 0, 1),
     Dump("linux", "stack", FALSE, 58, 1), Dump("macos", "smart", TRUE, 58, 2),
     Dump("macos", "smart", FALSE, 58, 2), Dump("macos", "stack", TRUE, 58, 1),
     Dump("windows", "smart", TRUE, 58, 1)}

=============================================================================
