------------------------------ MODULE MCSymbols ------------------------------
(***************************************************************************)
(* An ELF process whose executable was stripped and has companions of      *)
(* every sort, a Mach-O process with a stale or stripped image and two     *)
(* dSYM candidates, and a Windows process.                                 *)
(***************************************************************************)
EXTENDS Symbols

Line(start, end, offset, path) ==
    [start |-> start, end |-> end, offset |-> offset, path |-> path,
     parsed |-> TRUE]

Sym(value, size, kind, name) ==
    [value |-> value, size |-> size, kind |-> kind, name |-> name]

Full == <<Sym(1, 6, "func", "outer"), Sym(3, 2, "notype", "inner"),
          Sym(3, 2, "func", ""), Sym(4, 9, "object", "data"),
          Sym(5, 2, "func", "tail")>>
Dyn == <<Sym(1, 6, "func", "outer")>>
Mac == <<Sym(101, 0, "sect", "f"), Sym(104, 0, "sect", "g"),
         Sym(0, 0, "sect", "zero"), Sym(103, 0, "undef", "h")>>

Elf(id, symtab, dynsym, link, exec) ==
    [NoFile EXCEPT !.id = id, !.symtab = symtab, !.dynsym = dynsym,
                   !.link = link, !.exec = exec, !.usable = TRUE]

ElfFiles(id1, id2, link) ==
    [p \in {"exe", "c1", "c2", "lib", "old"} |->
        CASE p = "exe" -> Elf(1, NoTable, Dyn, link, FALSE)
          [] p = "c1" -> Elf(id1, Full, NoTable, <<>>, FALSE)
          [] p = "c2" -> Elf(id2, Full, NoTable, <<>>, FALSE)
          [] p = "lib" -> Elf(3, Full, NoTable, <<>>, FALSE)
          [] OTHER -> Elf(0, NoTable, NoTable, <<>>, TRUE)]

ElfMaps == <<Line(10, 13, 0, "exe"), Line(13, 18, 3, "exe"),
             Line(18, 19, 0, ""), [Line(0, 0, 0, "exe") EXCEPT !.parsed = FALSE],
             Line(20, 22, 0, "data"), Line(22, 26, 0, "lib"),
             Line(26, 30, 0, "old"), Line(30, 31, 8, "lib")>>

\* More files than there is room for.
ManyMaps == <<Line(40, 44, 0, "c1"), Line(44, 46, 0, "c2")>>

ElfProcess(id1, id2, link, maps, faults) ==
    [os |-> "elf", maps |-> maps, snapshot |-> <<>>, captured |-> <<>>,
     tasks |-> <<0, 8, 7, 9, 10>>, crashed |-> 7,
     files |-> ElfFiles(id1, id2, link),
     addrs |-> <<14, 13, 25, 14, 19>>, faults |-> faults]

MacFile(id, table, starts, vmaddr, link) ==
    [NoFile EXCEPT !.id = id, !.symtab = table, !.starts = starts,
                   !.vmaddr = vmaddr, !.link = link, !.usable = TRUE]

MacProcess(disk, table, starts, id1, faults) ==
    [os |-> "macho", maps |-> <<>>, snapshot |-> <<>>,
     captured |-> <<[name |-> "exe", base |-> 10, size |-> 8, id |-> 1]>>,
     tasks |-> <<7>>, crashed |-> 7,
     files |-> [p \in {"exe", "d1", "d2"} |->
        CASE p = "exe" -> MacFile(disk, table, starts, 0, <<"d1", "d2">>)
          [] p = "d1" -> MacFile(id1, Mac, NoTable, 100, <<>>)
          [] OTHER -> MacFile(1, Mac, NoTable, 100, <<>>)],
     addrs |-> <<15, 12, 10, 13>>, faults |-> faults]

Pe(name, base) == [name |-> name, base |-> base, size |-> 4, debug |-> <<1>>]

PeProcess ==
    [os |-> "pe", maps |-> <<>>, captured |-> <<>>, addrs |-> <<>>,
     snapshot |-> <<Pe("exe", 10), Pe("lib", 14), Pe("lib", 20), Pe("x", 30),
                    Pe("y", 40)>>,
     tasks |-> <<7, 8, 0, 8, 9, 10>>, crashed |-> 7,
     files |-> [p \in {} |-> NoFile], faults |-> 2]

MCProcesses ==
    {ElfProcess(i, j, l, ElfMaps, 1) :
        i \in {0, 1, 2}, j \in {1, 2}, l \in {<<>>, <<"c1", "c2", "c3">>}}
    \cup {ElfProcess(2, 1, <<"c1", "c2">>, SubSeq(ElfMaps, 1, 6), 2),
          ElfProcess(2, 1, <<>>, ElfMaps \o ManyMaps, 1)}
    \cup {MacProcess(k, t, b, i, f) :
             k \in {1, 2}, t \in {NoTable, <<Sym(1, 0, "sect", "f")>>},
             b \in {NoTable, <<1, 3, 4>>}, i \in {0, 1, 2}, f \in {0, 1}}
    \cup {PeProcess}

=============================================================================
