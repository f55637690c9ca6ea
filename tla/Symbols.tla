------------------------------- MODULE Symbols -------------------------------
(***************************************************************************)
(* What the crash daemon learns about the crashed process before it writes *)
(* its event (sentry_crash_daemon.c): the modules, from /proc/<pid>/maps   *)
(* or from the Windows process snapshot, the threads, and a function name  *)
(* for each frame address, from the symbol table of the module's file, of  *)
(* its split debug companion (ELF) or of its dSYM (Mach-O).  Any file may  *)
(* be missing, stale or unreadable; the model spends a budget of faults.   *)
(*                                                                         *)
(* A process s holds its platform, the lines of its maps, the thread       *)
(* listing, the files by path and the frame addresses to name.  A file has *)
(* an identity (build id or LC_UUID, 0 when it has none), the address its  *)
(* code was linked at, symbol tables and function starts (NoTable when     *)
(* absent).  A symbol table is a sequence of symbols in file order; a      *)
(* symbol without a usable name has the name "".                           *)
(***************************************************************************)
EXTENDS Integers, Sequences, FiniteSets, SequencesExt, FiniteSetsExt

CONSTANTS Processes,        \* the crashed processes
          MODULE_LIMIT,     \* SENTRY_CRASH_MAX_MODULES
          THREAD_LIMIT,     \* SENTRY_CRASH_MAX_THREADS
          CHUNK             \* symbols read at once

VARIABLES s,         \* the crashed process
          modules,   \* ctx->modules[0 .. module_count - 1]
          threads,   \* ctx->platform.threads[0 .. num_threads - 1]
          slots,     \* g_sym_sources, by module index
          go,        \* control: phase, position, address index, candidate
          names,     \* the function of each address: name and its source
          budget     \* faults left

sym_vars == <<s, modules, threads, slots, go, names, budget>>

NoTable == <<>>
NoFile == [id |-> 0, symtab |-> NoTable, dynsym |-> NoTable,
           starts |-> NoTable, vmaddr |-> 0, exec |-> FALSE, link |-> <<>>,
           usable |-> FALSE]
NoSource == [state |-> 0, path |-> "", syms |-> NoTable, exec |-> FALSE,
             vmaddr |-> 0, starts |-> NoTable]
NoName == [name |-> "", path |-> "", value |-> 0, module |-> 0, whole |-> TRUE]

File(path) == IF path \in DOMAIN s.files THEN s.files[path] ELSE NoFile

\* An operation on a file works, or fails at the cost of one fault.
Works(ok) == \/ ok = TRUE /\ UNCHANGED budget
             \/ ok = FALSE /\ budget > 0 /\ budget' = budget - 1

---------------------------------------------------------------------------
\* Modules and threads

Within(m, a) == a >= m.base /\ a < m.base + m.size

IndexOf(path) == {i \in DOMAIN modules : modules[i].name = path}

\* The size of a module that covers one more mapping.
Extended(m, l) == Max({m.size, l.end - m.base})

\* One line of /proc/<pid>/maps.  At the limit the loop ends, whatever the
\* line is.  A line without a path, or of a file that is not ELF, is skipped;
\* a second mapping of a file extends its module.
MapsLine ==
    LET l == s.maps[go.pos]
        known == IndexOf(l.path)
        i == Min(known)
        base == l.start - l.offset
        new == [name |-> l.path, base |-> base, size |-> l.end - base,
                id |-> File(l.path).id]
    IN /\ go.ph = "maps"
       /\ go.pos <= Len(s.maps)
       /\ IF l.parsed /\ Len(modules) >= MODULE_LIMIT
          THEN go' = [go EXCEPT !.pos = Len(s.maps) + 1] /\ UNCHANGED modules
          ELSE /\ go' = [go EXCEPT !.pos = @ + 1]
               /\ modules' =
                    IF ~l.parsed \/ l.path = "" THEN modules
                    ELSE IF known # {}
                    THEN [modules EXCEPT ![i].size = Extended(modules[i], l)]
                    ELSE IF File(l.path).usable THEN Append(modules, new)
                    ELSE modules
       /\ UNCHANGED <<s, threads, slots, names, budget>>

\* The identities a module of a PE image may get from its debug directory:
\* the first CodeView entry that can be read, or none.
extract_pdb_info_from_process(m) == {0} \cup {m.debug[i] : i \in DOMAIN m.debug}

\* One module of EnumProcessModules; a module whose name or size cannot be
\* queried is left out.
ProcessModule ==
    LET m == s.snapshot[go.pos]
    IN /\ go.ph = "snapshot"
       /\ go.pos <= Min({Len(s.snapshot), MODULE_LIMIT})
       /\ \E ok \in BOOLEAN :
             /\ Works(ok)
             /\ \E id \in extract_pdb_info_from_process(m) :
                   modules' = IF ok THEN Append(modules, [name |-> m.name,
                                         base |-> m.base, size |-> m.size, id |-> id])
                              ELSE modules
       /\ go' = [go EXCEPT !.pos = @ + 1]
       /\ UNCHANGED <<s, threads, slots, names>>

\* The modules are known, or the listing could not be opened; the threads
\* are enumerated next.
ModulesDone ==
    /\ go.ph \in {"maps", "snapshot", "captured"}
    /\ \/ go.pos = 1 /\ Works(FALSE)
       \/ /\ go.pos > CASE go.ph = "maps" -> Len(s.maps)
                        [] go.ph = "snapshot" -> Min({Len(s.snapshot), MODULE_LIMIT})
                        [] OTHER -> 0
          /\ UNCHANGED budget
    /\ go' = [go EXCEPT !.ph = "threads", !.pos = 1]
    /\ slots' = [i \in DOMAIN modules |-> [own |-> NoSource, dsym |-> NoSource]]
    /\ UNCHANGED <<s, modules, threads, names>>

\* One entry of /proc/<pid>/task; the crashed thread already has index 0.
TaskEntry ==
    LET tid == s.tasks[go.pos]
    IN /\ go.ph = "threads" /\ s.os = "elf"
       /\ go.pos <= Len(s.tasks)
       /\ IF Len(threads) >= THREAD_LIMIT
          THEN go' = [go EXCEPT !.pos = Len(s.tasks) + 1] /\ UNCHANGED threads
          ELSE /\ go' = [go EXCEPT !.pos = @ + 1]
               /\ threads' = IF tid <= 0 \/ tid = threads[1] THEN threads
                             ELSE Append(threads, tid)
       /\ UNCHANGED <<s, modules, slots, names, budget>>

\* One entry of the Windows thread snapshot, which lists every process's
\* threads and may list one twice; a thread that cannot be opened, or has no
\* context, is left out.
SnapshotEntry ==
    LET tid == s.tasks[go.pos]
    IN /\ go.ph = "threads" /\ s.os = "pe"
       /\ go.pos <= Len(s.tasks)
       /\ go' = [go EXCEPT !.pos = @ + 1]
       /\ IF tid <= 0 \/ tid = threads[1] \/ Len(threads) >= THREAD_LIMIT
             \/ tid \in Range(threads)
          THEN UNCHANGED <<threads, budget>>
          ELSE \E ok \in BOOLEAN :
                  /\ Works(ok)
                  /\ threads' = IF ok THEN Append(threads, tid) ELSE threads
       /\ UNCHANGED <<s, modules, slots, names>>

\* Windows frames are named by dbghelp, the others by their symbol tables.
ThreadsDone ==
    /\ go.ph = "threads"
    /\ \/ go.pos = 1 /\ Works(FALSE)
       \/ (go.pos > Len(s.tasks) \/ s.os = "macho") /\ UNCHANGED budget
    /\ go' = [go EXCEPT !.ph = IF s.os = "pe" THEN "done" ELSE "frame", !.pos = 1]
    /\ UNCHANGED <<s, modules, threads, slots, names>>

---------------------------------------------------------------------------
\* Function names: enrich_frame_with_symbol

addr == s.addrs[go.pos]

\* The index of the module a frame is named by.
mod == Min({i \in DOMAIN modules : Within(modules[i], addr)})
slot == slots[mod]

NextFrame == go' = [go EXCEPT !.ph = "frame", !.pos = @ + 1, !.cand = 1]

\* The first module that contains the address is asked, or none.
FrameElf ==
    /\ go.ph = "frame" /\ s.os = "elf"
    /\ go.pos <= Len(s.addrs)
    /\ IF \A i \in DOMAIN modules : ~Within(modules[i], addr)
       THEN NextFrame /\ UNCHANGED slots
       ELSE IF slot.own.state # 0
       THEN /\ IF slot.own.state > 0 THEN go' = [go EXCEPT !.ph = "own"]
               ELSE NextFrame
            /\ UNCHANGED slots
       ELSE /\ go' = [go EXCEPT !.ph = "symtab"]
            /\ slots' = [slots EXCEPT ![mod].own.state = -1]
    /\ UNCHANGED <<s, modules, threads, names, budget>>

\* elf_locate_symtab: what the slot becomes when a file has a symbol table.
Located(old, path, table) ==
    [old EXCEPT !.path = path, !.syms = table]

Usable(src, path) ==
    [src EXCEPT !.state = 1, !.exec = File(path).exec]

\* 1) The module's own .symtab; its .gnu_debuglink leads to the companion.
OwnSymtab ==
    LET f == File(modules[mod].name)
    IN /\ go.ph = "symtab"
       /\ \E ok \in BOOLEAN :
             /\ Works(ok)
             /\ IF ok /\ f.symtab # NoTable
                THEN /\ slots' = [slots EXCEPT ![mod].own =
                           Usable(Located(@, modules[mod].name, f.symtab),
                                  modules[mod].name)]
                     /\ go' = [go EXCEPT !.ph = "own"]
                ELSE /\ UNCHANGED slots
                     /\ go' = [go EXCEPT !.ph = IF ok /\ f.link # <<>>
                                                THEN "companion" ELSE "dynsym"]
       /\ UNCHANGED <<s, modules, threads, names>>

\* As a plausible bug: a companion is taken without comparing build ids.
SameIdUnchecked(a, b) == TRUE

\* Two identities that do not contradict each other.
SameId(a, b) == a = 0 \/ b = 0 \/ a = b

\* 2) One candidate for the companion: it needs a .symtab and no other build
\* id; a build id that cannot be read counts as none.  A rejected candidate
\* has overwritten the slot all the same.
Companion ==
    LET own == File(modules[mod].name)
        path == own.link[go.cand]
        f == File(path)
        found == Located(slot.own, path, f.symtab)
    IN /\ go.ph = "companion" /\ s.os = "elf"
       /\ \E ok, id_read \in BOOLEAN :
             /\ Works(ok /\ id_read)
             /\ IF /\ ok /\ f.symtab # NoTable
                   /\ id_read => SameId(own.id, f.id)
                THEN /\ slots' = [slots EXCEPT ![mod].own =
                                     Usable(found, modules[mod].name)]
                     /\ go' = [go EXCEPT !.ph = "own"]
                ELSE /\ slots' = [slots EXCEPT ![mod].own =
                            IF ok /\ f.symtab # NoTable THEN found ELSE @]
                     /\ go' = IF go.cand < Len(own.link)
                              THEN [go EXCEPT !.cand = @ + 1]
                              ELSE [go EXCEPT !.ph = "dynsym"]
       /\ UNCHANGED <<s, modules, threads, names>>

\* 3) The module's .dynsym (its .symtab if that can be read now).
Dynsym ==
    LET path == modules[mod].name
        f == File(path)
        table == IF f.symtab # NoTable THEN f.symtab ELSE f.dynsym
    IN /\ go.ph = "dynsym"
       /\ \E ok \in BOOLEAN :
             /\ Works(ok)
             /\ IF ok /\ table # NoTable
                THEN /\ slots' = [slots EXCEPT ![mod].own =
                                     Usable(Located(@, path, table), path)]
                     /\ go' = [go EXCEPT !.ph = "own"]
                ELSE NextFrame /\ UNCHANGED slots
       /\ UNCHANGED <<s, modules, threads, names>>

\* The first n symbols of a table, as far as it was read.
ReadUpTo(table, n) == SubSeq(table, 1, n)

\* A scan in chunks: a chunk that cannot be read ends it.
Scanned(table, ok) ==
    IF ok THEN {table}
    ELSE {ReadUpTo(table, CHUNK * k) : k \in 0 .. (Len(table) - 1) \div CHUNK}

\* sym_source_lookup: the covering function symbol that starts last, the
\* first one in the table if several start there.
Covering(table, target) ==
    {i \in DOMAIN table :
        /\ table[i].kind \in {"func", "notype"}
        /\ table[i].value # 0
        /\ target >= table[i].value
        /\ target - table[i].value < table[i].size
        /\ table[i].name # ""}

BestOf(table, hits) ==
    {i \in hits : \A j \in hits : \/ table[j].value < table[i].value
                                  \/ table[j].value = table[i].value /\ i <= j}

Named(src, table, best, ok) ==
    IF best = {} THEN NoName
    ELSE [name |-> table[Min(best)].name, path |-> src.path,
          value |-> table[Min(best)].value, module |-> mod, whole |-> ok]

LookupElf ==
    LET src == slot.own
        target == IF src.exec THEN addr ELSE addr - modules[mod].base
    IN /\ go.ph = "own" /\ s.os = "elf"
       /\ \E ok \in BOOLEAN :
             /\ Works(ok)
             /\ \E table \in Scanned(src.syms, ok) :
                   names' = [names EXCEPT ![go.pos] =
                       Named(src, table, BestOf(table, Covering(table, target)), ok)]
       /\ NextFrame
       /\ UNCHANGED <<s, modules, threads, slots>>

---------------------------------------------------------------------------
\* Mach-O

\* macho_locate_symtab: the table of a file, without its function starts if
\* it has no __TEXT segment; nothing if the file cannot be read.
LocatedMac(path, ok) ==
    IF ~ok THEN [NoSource EXCEPT !.path = path]
    ELSE [NoSource EXCEPT !.path = path, !.syms = File(path).symtab,
                          !.vmaddr = File(path).vmaddr,
                          !.starts = File(path).starts]

\* The module's own file is located once; a stale file on disk, one with
\* another UUID, is not trusted for names nor for function starts.
FrameMac ==
    LET path == modules[mod].name
        stale == ~SameId(modules[mod].id, File(path).id)
    IN /\ go.ph = "frame" /\ s.os = "macho"
       /\ go.pos <= Len(s.addrs)
       /\ IF \A i \in DOMAIN modules : ~Within(modules[i], addr)
          THEN NextFrame /\ UNCHANGED <<slots, budget>>
          ELSE /\ go' = [go EXCEPT !.ph = "own"]
               /\ IF slot.own.state # 0 THEN UNCHANGED <<slots, budget>>
                  ELSE \E ok \in BOOLEAN :
                         LET src == LocatedMac(path, ok)
                             kept == ok /\ ~stale /\ src.syms # NoTable
                         IN /\ Works(ok)
                            /\ slots' = [slots EXCEPT ![mod].own =
                                 [src EXCEPT !.state = IF kept THEN 1 ELSE -1,
                                             !.starts = IF ok /\ stale THEN NoTable
                                                        ELSE @]]
       /\ UNCHANGED <<s, modules, threads, names>>

\* fn_starts_find: the last function start at or before the target.
fn_starts_find(src, target) ==
    {v \in Range(src.starts) :
        v <= target /\ \A u \in Range(src.starts) : u <= target => u <= v}

\* macho_sym_lookup: with function starts only a symbol at the entry of the
\* containing function matches, without them the last one before the target.
MatchingMac(table, target, start) ==
    LET sect == {i \in DOMAIN table : /\ table[i].kind = "sect"
                                      /\ table[i].value # 0
                                      /\ table[i].name # ""}
    IN IF start # {} THEN {i \in sect : table[i].value \in start}
       ELSE {i \in sect : table[i].value <= target}

NamedMac(src, start, ok) ==
    LET off == addr - modules[mod].base
    IN {Named(src, t, BestOf(t, MatchingMac(t, off + src.vmaddr,
                                  {v + src.vmaddr : v \in start})), ok) :
           t \in Scanned(src.syms, ok)}

\* The start of the containing function relative to the image, if the
\* module's file has function starts.
FnStart ==
    LET own == slot.own
    IN {v - own.vmaddr :
           v \in fn_starts_find(own, addr - modules[mod].base + own.vmaddr)}

\* The module's own table; a miss goes on to the dSYM.  An address before
\* every function start stays without a name, as does one whose function
\* starts cannot be read.
LookupMac ==
    /\ go.ph = "own" /\ s.os = "macho"
    /\ IF slot.own.starts # NoTable /\ FnStart = {}
       THEN NextFrame /\ UNCHANGED <<names, budget>>
       ELSE \/ /\ slot.own.starts # NoTable
               /\ Works(FALSE)
               /\ NextFrame
               /\ UNCHANGED names
            \/ \E ok \in BOOLEAN :
              /\ Works(ok)
              /\ \E n \in IF slot.own.state > 0
                          THEN NamedMac(slot.own, FnStart, ok) ELSE {NoName} :
                    IF n # NoName
                    THEN NextFrame /\ names' = [names EXCEPT ![go.pos] = n]
                    ELSE /\ UNCHANGED names
                         /\ go' = [go EXCEPT !.ph = IF slot.dsym.state = 0
                                                    THEN "dsym" ELSE "companion"]
    /\ UNCHANGED <<s, modules, threads, slots>>

\* resolve_dsym: the candidates in order, with the module's UUID.
ResolveDsym ==
    LET link == File(modules[mod].name).link
        path == link[go.cand]
    IN /\ go.ph = "dsym"
       /\ IF go.cand > Len(link)
          THEN /\ slots' = [slots EXCEPT ![mod].dsym.state = -1]
               /\ go' = [go EXCEPT !.ph = "companion"]
               /\ UNCHANGED budget
          ELSE \E ok \in BOOLEAN :
                LET src == LocatedMac(path, ok)
                IN /\ Works(ok)
                   /\ IF src.syms # NoTable /\ SameId(modules[mod].id, File(path).id)
                      THEN /\ slots' = [slots EXCEPT ![mod].dsym =
                                           [src EXCEPT !.state = 1]]
                           /\ go' = [go EXCEPT !.ph = "companion"]
                      ELSE /\ slots' = [slots EXCEPT ![mod].dsym = src]
                           /\ go' = [go EXCEPT !.cand = @ + 1]
       /\ UNCHANGED <<s, modules, threads, names>>

LookupDsym ==
    /\ go.ph = "companion" /\ s.os = "macho"
    /\ \E ok \in BOOLEAN :
          /\ Works(ok)
          /\ \E n \in IF slot.dsym.state > 0
                      THEN NamedMac(slot.dsym, FnStart, ok) ELSE {NoName} :
                names' = [names EXCEPT ![go.pos] = n]
    /\ NextFrame
    /\ UNCHANGED <<s, modules, threads, slots>>

FramesDone ==
    /\ go.ph = "frame"
    /\ go.pos > Len(s.addrs)
    /\ go' = [go EXCEPT !.ph = "done"]
    /\ UNCHANGED <<s, modules, threads, slots, names, budget>>

---------------------------------------------------------------------------

SymInit ==
    /\ s \in Processes
    /\ modules = s.captured
    /\ threads = <<s.crashed>>
    /\ slots = <<>>
    /\ go = [ph |-> CASE s.os = "elf" -> "maps" [] s.os = "pe" -> "snapshot"
                      [] OTHER -> "captured", pos |-> 1, cand |-> 1]
    /\ names = [i \in DOMAIN s.addrs |-> NoName]
    /\ budget = s.faults

SymNext ==
    \/ MapsLine \/ ProcessModule \/ ModulesDone
    \/ TaskEntry \/ SnapshotEntry \/ ThreadsDone
    \/ FrameElf \/ OwnSymtab \/ Companion \/ Dynsym \/ LookupElf
    \/ FrameMac \/ LookupMac \/ ResolveDsym \/ LookupDsym
    \/ FramesDone

\* The images of the event: the modules, as far as the context holds them.
debug_meta ==
    SubSeq(modules, 1, IF Len(modules) < MODULE_LIMIT THEN Len(modules) ELSE MODULE_LIMIT)

---------------------------------------------------------------------------
\* Properties

\* The modules of the event's debug_meta and the list of its threads
\* (capture_modules_from_proc_maps, enumerate_threads_*): each file is one
\* module and, while there is room for more modules, its range covers every
\* mapping of the file, so that no frame of a known file is left without a
\* module.  Each thread is listed once and the crashed one comes first.
InventorySound ==
    /\ Len(modules) <= MODULE_LIMIT
    /\ Len(threads) <= THREAD_LIMIT
    /\ s.os # "pe" => IsInjective([i \in DOMAIN modules |-> modules[i].name])
    /\ IsInjective(threads) /\ threads[1] = s.crashed
    /\ s.os = "elf" /\ go.ph # "maps" /\ modules # <<>>
          /\ Len(modules) < MODULE_LIMIT =>
          \A k \in DOMAIN s.maps :
             s.maps[k].parsed /\ File(s.maps[k].path).usable =>
                \E i \in IndexOf(s.maps[k].path) \cap DOMAIN debug_meta :
                   /\ debug_meta[i].base <= s.maps[k].start
                   /\ debug_meta[i].base + debug_meta[i].size >= s.maps[k].end

Tables(path) == Range(File(path).symtab) \cup Range(File(path).dynsym)

\* A frame is given the name of the function it is in or none
\* (enrich_frame_with_symbol): the name was read from a file whose identity
\* does not contradict the loaded module's, also when rejected companions
\* were tried and cached in between; an ELF symbol covers the address and no
\* other function of its table starts closer; a Mach-O symbol is the entry
\* of the function that the module's function starts put the address in.
NamesTrusted ==
    \A i \in DOMAIN names : names[i] # NoName =>
        LET n == names[i]
            m == modules[n.module]
            own == File(m.name)
            off == s.addrs[i] - m.base
            target == IF own.exec THEN s.addrs[i] ELSE off
            covers(y) == /\ y.kind \in {"func", "notype"} /\ y.name # ""
                         /\ y.value <= target /\ target < y.value + y.size
        IN /\ Within(m, s.addrs[i])
           /\ budget = s.faults => File(n.path).id \in {0, m.id} \/ m.id = 0
           /\ s.os = "elf" =>
                 \E y \in Tables(n.path) :
                    /\ y.name = n.name /\ y.value = n.value /\ covers(y)
                    /\ n.whole /\ File(n.path).dynsym = NoTable =>
                          \A z \in Tables(n.path) : covers(z) => z.value <= y.value
           /\ s.os = "macho" /\ slots[n.module].own.starts # NoTable =>
                 \E v \in Range(own.starts) :
                    /\ v - own.vmaddr = n.value - File(n.path).vmaddr
                    /\ v <= off + own.vmaddr
                    /\ \A u \in Range(own.starts) : u > v => u > off + own.vmaddr

\* Modules, threads and names are those of the process.
SymbolsSound == InventorySound /\ NamesTrusted
=============================================================================
