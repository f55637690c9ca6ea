------------------------------- MODULE Minidump -------------------------------
(***************************************************************************)
(* The native backend's own minidump writers (backends/native/minidump):   *)
(* the Linux and the macOS writer, the shared file primitives and the      *)
(* capture of indirectly referenced memory.  A dump is written by the      *)
(* crash daemon, alone, while the crashed process waits; everything the    *)
(* daemon reads or writes may fail or come back short, so the model spends *)
(* a budget of faults anywhere.                                            *)
(*                                                                         *)
(* The file is the set of extents written so far; its bytes are not        *)
(* modelled.  Addresses and sizes are scaled down (a page is PAGE units,   *)
(* the file aligns to ALIGN); LIMIT stands for UINT32_MAX.  A dump d holds *)
(* what the writer finds: os, mode, whether the daemon can attach          *)
(* (ptrace, task_for_pid), the threads, the mappings in address order, the *)
(* modules the macOS handler captured, the crash address.                  *)
(***************************************************************************)
EXTENDS Integers, Sequences, FiniteSets, SequencesExt

CONSTANTS Dumps,         \* the dumps to write
          LIMIT,         \* the largest offset an rva can hold
          MAX_REGIONS,   \* SENTRY_INDIRECT_MAX_REGIONS
          MAX_TOTAL,     \* SENTRY_INDIRECT_MAX_TOTAL_BYTES
          MAX_MODULES,   \* SENTRY_CRASH_MAX_MODULES
          MAX_MAPPINGS,  \* SENTRY_CRASH_MAX_MAPPINGS
          MAX_THREADS    \* SENTRY_CRASH_MAX_THREADS

VARIABLES d,        \* the dump being written, with the crashed process
          w,        \* writer: current_offset, the extents written, whether
                    \* ptrace or the task port is held; the faults left
          at,       \* control: stream (its index), loop position, phase
          desc,     \* the references stored in the streams' structures
          dir,      \* the stream directory
          acc,      \* indirect accumulator: regions, total, words to consider
          stacks,   \* writer->thread_stacks
          result,   \* 0 or -1
          file      \* "none", "open", "whole" or "gone"

dump_vars == <<d, w, at, desc, dir, acc, stacks, result, file>>

PAGE == 8
PER_POINTER == 2
ALIGN == 4
HEADER == 8          \* header and directory, reserved at the start
MAX_STACK == 8       \* SENTRY_CRASH_MAX_STACK_SIZE / _CAPTURE
RED_ZONE == 1
MAX_REGION == 12     \* 4 MiB

LinuxStreams == <<"system", "threads", "modules", "exception", "memory",
                  "status", "maps", "names", "auxv", "cpu", "lsb", "cmd",
                  "env", "dso">>
MacStreams == <<"system", "misc", "threads", "exception", "modules",
                "memory", "names">>

Streams == IF d.os = "linux" THEN LinuxStreams ELSE MacStreams
Stream == Streams[at.s]

\* The streams whose failure fails the dump.
Mandatory == {"system", "misc", "threads", "modules", "exception", "memory"}

---------------------------------------------------------------------------
\* The file primitives.  Each returns the set of its outcomes.

Spend(ww) == [ww EXCEPT !.faults = @ - 1]

Outcome(ww, n, next) ==
    [w |-> [ww EXCEPT !.off = next,
                      !.blobs = @ \cup {[at |-> ww.off, size |-> n]}],
     rva |-> ww.off, size |-> n]

Aligned(n) == ((n + ALIGN - 1) \div ALIGN) * ALIGN

NoBlob(ww) == [w |-> ww, rva |-> 0, size |-> 0]

\* A short write is undone by seeking back.  A failed padding write leaves
\* the data in place and the offset unaligned.
WriteData(ww, n) ==
    IF ww.off > LIMIT THEN {NoBlob(ww)}
    ELSE {Outcome(ww, n, Aligned(ww.off + n))}
         \cup IF ww.faults = 0 THEN {}
              ELSE {NoBlob(Spend(ww)), Outcome(Spend(ww), n, ww.off + n)}

\* UTF-16 text behind a length; a name that cannot be converted is not
\* written and has rva 0.
WriteString(ww) == WriteData(ww, 5)

\* A thread context of the architecture.
WriteContextLinux(ww) == WriteData(ww, 8)
WriteContextMac(ww) == WriteData(ww, 8)

\* PTRACE_ATTACH to the crashed thread, unless attached.
Attach(ww) ==
    IF ww.held \/ ~d.port THEN {ww}
    ELSE {[ww EXCEPT !.held = TRUE]}
         \cup IF ww.faults = 0 THEN {} ELSE {Spend(ww)}

\* process_vm_readv, else word by word with ptrace: may be short.
ReadAttached(ww, n) ==
    {[w |-> ww, got |-> n]}
    \cup IF ww.faults = 0 THEN {}
         ELSE {[w |-> Spend(ww), got |-> g] :
                   g \in {-1} \cup ({n \div 2} \ {0})}

ReadLinux(ww, n) ==
    UNION {IF a.held THEN ReadAttached(a, n) ELSE {[w |-> a, got |-> -1]} :
               a \in Attach(ww)}

\* mach_vm_read_overwrite: everything or nothing.
ReadMac(ww, n) ==
    IF ~ww.held THEN {[w |-> ww, got |-> -1]}
    ELSE {[w |-> ww, got |-> n]}
         \cup IF ww.faults = 0 THEN {} ELSE {[w |-> Spend(ww), got |-> -1]}

Read(ww, n) == IF d.os = "linux" THEN ReadLinux(ww, n) ELSE ReadMac(ww, n)

\* What was read is written; nothing read, nothing written.
WriteRead(ww, n) ==
    UNION {IF r.got <= 0 THEN {NoBlob(r.w)} ELSE WriteData(r.w, r.got) :
               r \in Read(ww, n)}

---------------------------------------------------------------------------
\* Mappings.

Inside(a, m) == m.start <= a /\ a < m.end

\* The binary search over the sorted mappings: the index of the mapping that
\* contains the address, 0 if there is none.
Search(maps, a) ==
    LET find[lo \in 0 .. Len(maps), hi \in 0 .. Len(maps)] ==
            IF lo >= hi THEN 0
            ELSE LET mid == lo + (hi - lo) \div 2
                     m == maps[mid + 1]
                 IN  IF a < m.start THEN find[lo, mid]
                     ELSE IF a >= m.end THEN find[mid + 1, hi]
                     ELSE mid + 1
    IN  find[0, Len(maps)]

FindMapping(a) == Search(d.maps, a)
FindRegion(a) == Search(d.maps, a)

HeapLinux(a) ==
    LET i == FindMapping(a)
    IN  /\ i # 0
        /\ {"r", "w"} \subseteq d.maps[i].perm /\ "x" \notin d.maps[i].perm
        /\ d.maps[i].kind \notin {"stack", "vdso"}

\* macOS regions carry no names: a thread stack counts as heap.
HeapMac(a) ==
    LET i == FindRegion(a)
    IN  /\ i # 0
        /\ {"r", "w"} \subseteq d.maps[i].perm /\ "x" \notin d.maps[i].perm

IncludeLinux(m) ==
    /\ "r" \in m.perm
    /\ \/ d.mode = "full"
       \/ /\ d.mode = "smart"
          /\ \/ Inside(d.crash, m)
             \/ m.kind = "heap" /\ m.end - m.start <= MAX_REGION
             \/ m.kind = "file" /\ m.offset = 0

IncludeMac(m) ==
    /\ "r" \in m.perm
    /\ \/ d.mode = "full"
       \/ /\ d.mode = "smart"
          /\ Inside(d.crash, m) \/ \E x \in ToSet(d.mods) : x.base = m.start

Include(m) == IF d.os = "linux" THEN IncludeLinux(m) ELSE IncludeMac(m)

Smaller(a, b) == IF a < b THEN a ELSE b

\* How much of an included mapping is dumped: one page of a module's header,
\* except where the crash is, and never more than MAX_REGION.
RegionSize(m) ==
    LET header == /\ d.mode = "smart" /\ ~Inside(d.crash, m)
                  /\ IF d.os = "linux" THEN m.kind = "file" /\ m.offset = 0
                     ELSE \E x \in ToSet(d.mods) : x.base = m.start
        size == m.end - m.start
    IN  Smaller(IF header THEN Smaller(size, PAGE) ELSE size, MAX_REGION)

---------------------------------------------------------------------------
\* Indirectly referenced memory.

\* The first region (its index) that ends after the target; one past the last
\* if there is none.
FindFirstAfter(regs, target) ==
    LET find[lo \in 0 .. Len(regs), hi \in 0 .. Len(regs)] ==
            IF lo >= hi THEN lo + 1
            ELSE LET mid == lo + (hi - lo) \div 2
                 IN  IF regs[mid + 1].end <= target THEN find[mid + 1, hi]
                     ELSE find[lo, mid]
    IN  find[0, Len(regs)]

OverlapsExisting(regs, start, end) ==
    LET i == FindFirstAfter(regs, start)
    IN  i <= Len(regs) /\ regs[i].start < end

\* A mutation: the region goes to the end of the list.
InsertLast(a, r) ==
    [a EXCEPT !.regs = Append(@, r), !.total = @ + r.size]

InsertSorted(a, r) ==
    [a EXCEPT !.regs = InsertAt(@, FindFirstAfter(@, r.start), r),
              !.total = @ + r.size]

AtCap(a) == Len(a.regs) >= MAX_REGIONS \/ a.total >= MAX_TOTAL

PageDown(a) == (a \div PAGE) * PAGE

\* The page-aligned window captured for a pointer, cut to the byte budget.
Window(a, addr) ==
    LET start == PageDown(addr - PER_POINTER \div 2)
        end == PageDown(start + PER_POINTER + PAGE - 1)
    IN  [start |-> start, end |-> Smaller(end, start + MAX_TOTAL - a.total)]

Heap(addr) == IF d.os = "linux" THEN HeapLinux(addr) ELSE HeapMac(addr)

\* One candidate pointer: the accumulator and writer afterwards.
Consider(a, ww, addr) ==
    LET win == Window(a, addr)
        region(b) == [start |-> win.start, end |-> win.start + b.size,
                      rva |-> b.rva, size |-> b.size, for |-> addr]
    IN  IF \/ AtCap(a) \/ addr < PAGE \/ ~Heap(addr)
           \/ OverlapsExisting(a.regs, win.start, win.end)
        THEN {[acc |-> a, w |-> ww]}
        ELSE {[acc |-> IF b.rva = 0 THEN a ELSE InsertSorted(a, region(b)),
               w |-> b.w] : b \in WriteRead(ww, win.end - win.start)}

---------------------------------------------------------------------------
\* Control.

Ref(from, b) == [from |-> from, rva |-> b.rva, size |-> b.size]

\* The stream's function goes on, at loop position i.
Continue(ww, i) == w' = ww /\ at' = [at EXCEPT !.i = i]

\* A stream's function returns: ok with its directory entry, or -1.  The
\* Linux writer and the macOS writer with a task port add up the failures;
\* the minimal macOS writer gives up at the first.
StreamDone(b, ok) ==
    LET last == at.s = Len(Streams)
        bad == ~ok /\ Stream \in Mandatory
        failed == bad \/ result < 0
        stop == \/ bad /\ d.os = "macos" /\ ~d.port
                \/ failed /\ d.os = "macos" /\ Stream = "memory"
    IN  /\ w' = b.w
        /\ dir' = dir \cup IF ok THEN {[stream |-> Stream, rva |-> b.rva,
                                       size |-> b.size]} ELSE {}
        /\ result' = IF failed THEN -1 ELSE 0
        /\ at' = [s |-> IF last THEN at.s ELSE at.s + 1, i |-> 1,
                  list |-> 0,
                  ph |-> IF stop THEN "abort"
                         ELSE IF last THEN IF failed THEN "abort" ELSE "finish"
                         ELSE "start"]

\* The structure of a stream is written and the directory entry made.
WriteStream(ww, n) == \E b \in WriteData(ww, n) : StreamDone(b, b.rva # 0)

On(s) == at.ph = "start" /\ Stream = s

Kept == UNCHANGED <<d, acc, stacks, file>>

Go(ph) == at' = [at EXCEPT !.ph = ph]

Opened == UNCHANGED <<desc, dir, acc, stacks>>

\* macOS asks for the task port at once; without it the dump is minimal.
OpenFile ==
    /\ at.ph = "open"
    /\ \/ /\ file' = "open" /\ UNCHANGED result
          /\ w' = [w EXCEPT !.held = d.os = "macos" /\ d.port]
          /\ Go(IF d.os = "linux" THEN "maps" ELSE IF d.port THEN "tasks"
                ELSE "seek")
       \/ /\ w.faults > 0 /\ w' = Spend(w) /\ result' = -1
          /\ Go("done") /\ UNCHANGED file
    /\ UNCHANGED d /\ Opened

\* The list the kernel gives, as far as the table goes.
Capped(seq, max) == SubSeq(seq, 1, Smaller(Len(seq), max))

ParseProcMaps ==
    /\ at.ph = "maps"
    /\ \/ /\ d' = [d EXCEPT !.maps = Capped(@, MAX_MAPPINGS)]
          /\ Go("threads") /\ UNCHANGED w
       \/ w.faults > 0 /\ w' = Spend(w) /\ Go("abort") /\ UNCHANGED d
    /\ UNCHANGED <<result, file>> /\ Opened

EnumerateThreads ==
    /\ at.ph = "threads"
    /\ \/ /\ d' = [d EXCEPT !.threads = Capped(@, MAX_THREADS)]
          /\ Go("attach") /\ UNCHANGED w
       \/ w.faults > 0 /\ w' = Spend(w) /\ Go("abort") /\ UNCHANGED d
    /\ UNCHANGED <<result, file>> /\ Opened

\* Linux goes on without ptrace.
AttachProcess ==
    /\ at.ph = "attach"
    /\ w' \in Attach(w)
    /\ Go("seek") /\ UNCHANGED <<d, result, file>> /\ Opened

\* task_threads, then the regions until the kernel has no more (or fails).
EnumerateRegions ==
    /\ at.ph = "tasks"
    /\ \/ /\ d' = [d EXCEPT !.maps = Capped(@, MAX_MAPPINGS)]
          /\ Go("seek") /\ UNCHANGED w
       \/ /\ w.faults > 0 /\ w' = Spend(w)
          /\ \/ d' = [d EXCEPT !.maps = <<>>] /\ Go("seek")
             \/ UNCHANGED d /\ Go("abort")
    /\ UNCHANGED <<result, file>> /\ Opened

\* Room for header and directory.
Reserve ==
    /\ at.ph = "seek" /\ Go("start")
    /\ w' = [w EXCEPT !.off = HEADER]
    /\ UNCHANGED <<d, result, file>> /\ Opened

\* The string comes first: without it the stream fails.
SystemInfo ==
    /\ \E s \in WriteString(w) :
           /\ IF s.rva = 0 THEN StreamDone(s, FALSE) ELSE WriteStream(s.w, 4)
           /\ desc' = desc \cup {Ref("csd", s)}
    /\ Kept

SystemInfoLinux == On("system") /\ d.os = "linux" /\ SystemInfo
SystemInfoMac == On("system") /\ d.os = "macos" /\ SystemInfo

MiscInfo == On("misc") /\ WriteStream(w, 4) /\ UNCHANGED desc /\ Kept

ExceptionLinux ==
    /\ On("exception") /\ d.os = "linux"
    /\ \E c \in WriteContextLinux(w) :
           WriteStream(c.w, 4) /\ desc' = desc \cup {Ref("context", c)}
    /\ Kept

ExceptionMac ==
    /\ On("exception") /\ d.os = "macos"
    /\ \E c \in WriteContextMac(w) :
           WriteStream(c.w, 4) /\ desc' = desc \cup {Ref("context", c)}
    /\ Kept

---------------------------------------------------------------------------
\* The thread list.

\* From below the stack pointer (the red zone) to the end of the mapping that
\* is its stack, or a default range.
StackLinux(sp) ==
    LET named == {m \in ToSet(d.maps) : Inside(sp, m) /\ m.kind = "stack"}
        anon == {m \in ToSet(d.maps) : Inside(sp, m) /\ m.kind = "anon"
                                       /\ m.perm = {"r", "w"}}
        from == IF sp >= RED_ZONE THEN sp - RED_ZONE ELSE sp
        m == IF named # {} THEN CHOOSE x \in named : TRUE
             ELSE IF anon # {} THEN CHOOSE x \in anon : TRUE
             ELSE [start |-> from, end |-> sp + MAX_STACK]
        start == IF from < m.start THEN m.start ELSE from
    IN  [start |-> start, size |-> Smaller(m.end - start, MAX_STACK)]

WriteStackLinux(ww, sp) == WriteRead(ww, StackLinux(sp).size)

\* From the stack pointer to the end of its region; if that cannot be read,
\* half of it, and again.
WriteStackMac(ww, sp) ==
    LET i == FindRegion(sp)
        size == IF i = 0 THEN MAX_STACK
                ELSE Smaller(d.maps[i].end - sp, MAX_STACK)
        once == {r \in ReadMac(ww, size) : r.got > 0}
        retry == UNION {ReadMac(r.w, size \div 2) : r \in ReadMac(ww, size)
                                                            \ once}
    IN  UNION {IF r.got <= 0 THEN {NoBlob(r.w)} ELSE WriteData(r.w, r.got) :
                   r \in once \cup retry}

\* A stack the memory list will repeat: only one that was written.
RecordStack(t, b) ==
    stacks' = IF b.rva = 0 THEN stacks
              ELSE Append(stacks, [tid |-> t.tid, rva |-> b.rva,
                                   size |-> b.size])

ThreadWritten(t, c, b) ==
    /\ Continue(b.w, at.i + 1)
    /\ desc' = desc \cup {Ref("context", c), Ref("stack", b)}
    /\ RecordStack(t, b)
    /\ UNCHANGED <<d, acc, dir, result, file>>

\* The registers of a thread the handler did not capture, read by attaching to
\* it and letting it go again.  The crashed thread cannot be attached to a
\* second time.
PtraceRegisters(t, ww) ==
    IF ~d.port \/ (ww.held /\ t.tid = d.crashed)
    THEN {[ok |-> FALSE, w |-> ww]}
    ELSE {[ok |-> TRUE, w |-> ww]}
         \cup IF ww.faults = 0 THEN {} ELSE {[ok |-> FALSE, w |-> Spend(ww)]}

PtraceCapture(t, ww) ==
    \E r \in PtraceRegisters(t, ww) :
        IF ~r.ok THEN ThreadWritten(t, NoBlob(r.w), NoBlob(r.w))
        ELSE \E c \in WriteContextLinux(r.w) :
             \E b \in IF t.psp = 0 THEN {NoBlob(c.w)}
                     ELSE WriteStackLinux(c.w, t.psp) : ThreadWritten(t, c, b)

ThreadLinux ==
    /\ On("threads") /\ d.os = "linux" /\ at.i <= Len(d.threads)
    /\ LET t == d.threads[at.i]
       IN  IF ~t.captured THEN PtraceCapture(t, w)
           ELSE \E c \in WriteContextLinux(w) :
                   IF t.sp # 0
                   THEN \E b \in WriteStackLinux(c.w, t.sp) :
                           ThreadWritten(t, c, b)
                   ELSE PtraceCapture(t, c.w)

\* With a task port: the captured state, else thread_get_state.
ThreadMac ==
    /\ On("threads") /\ d.os = "macos" /\ d.port /\ at.i <= Len(d.threads)
    /\ LET t == d.threads[at.i]
       IN  \/ \E c \in WriteContextMac(w) :
                 \E b \in WriteStackMac(c.w, IF t.captured THEN t.sp
                                            ELSE t.psp) : ThreadWritten(t, c, b)
           \/ /\ ~t.captured /\ w.faults > 0
              /\ ThreadWritten(t, NoBlob(Spend(w)), NoBlob(Spend(w)))

\* Without: the threads and the stack files the handler saved.
ThreadMacSaved ==
    /\ On("threads") /\ d.os = "macos" /\ ~d.port /\ at.i <= Len(d.threads)
    /\ LET t == d.threads[at.i]
       IN  \E c \in WriteContextMac(w) :
             \E b \in (IF t.saved = 0 THEN {NoBlob(c.w)}
                      ELSE WriteData(c.w, t.saved)
                           \cup IF c.w.faults = 0 THEN {}
                                ELSE {NoBlob(Spend(c.w))}) :
                 ThreadWritten(t, c, b)

ThreadList ==
    /\ On("threads") /\ at.i > Len(d.threads)
    /\ WriteStream(w, 4 + 4 * Len(d.threads))
    /\ UNCHANGED desc /\ Kept

---------------------------------------------------------------------------
\* The module list.

\* One module per mapped ELF file, stretched over the file's mappings.
AddMapping(mods, m) ==
    LET known == {i \in DOMAIN mods : mods[i].name = m.name}
        i == CHOOSE x \in known : TRUE
    IN  IF m.kind # "file" \/ "r" \notin m.perm \/ m.name \notin d.elf
        THEN mods
        ELSE IF known # {}
        THEN [mods EXCEPT ![i].end = IF m.end > @ THEN m.end ELSE @,
                          ![i].base = IF m.start < @ THEN m.start ELSE @]
        ELSE IF Len(mods) >= MAX_MODULES THEN mods
        ELSE Append(mods, [name |-> m.name, base |-> m.start, end |-> m.end])

ResolveModules == FoldLeft(AddMapping, <<>>, d.maps)

\* A build id or UUID record.
WriteCvLinux(ww) == WriteData(ww, 3)
WriteCvMac(ww) == WriteData(ww, 3)

\* Linux writes the list first, with no references in it.
ModuleListLinux ==
    /\ On("modules") /\ d.os = "linux" /\ at.i = 1
    /\ \E b \in WriteData(w, 4 + 4 * Len(ResolveModules)) :
           IF b.rva = 0 \/ b.w.off > LIMIT THEN StreamDone(b, b.rva # 0)
           ELSE /\ w' = b.w
                /\ at' = [at EXCEPT !.i = 2, !.list = b.rva]
                /\ UNCHANGED <<dir, result>>
    /\ UNCHANGED desc /\ Kept

\* Then, module by module, the name and the record are appended and the list
\* entry is patched in place; a patch that fails leaves a zero.
ModulePatchLinux ==
    /\ On("modules") /\ d.os = "linux" /\ at.i > 1
    /\ LET mods == ResolveModules
           m == mods[at.i - 1]
           list == [w |-> w, rva |-> at.list, size |-> 4 + 4 * Len(mods)]
       IN  IF at.i > Len(mods) + 1 THEN StreamDone(list, TRUE) /\ UNCHANGED desc
           ELSE \E s \in WriteString(w) :
                \E c \in IF m.name \in d.ids THEN WriteCvLinux(s.w)
                        ELSE {NoBlob(s.w)} :
                \E lost \in {{}} \cup
                            IF c.w.faults = 0 THEN {} ELSE {{"name"}, {"rva"}} :
                    LET name == IF "name" \in lost THEN 0 ELSE s.rva
                        cv == [rva |-> IF "rva" \in lost THEN 0 ELSE c.rva,
                               size |-> IF m.name \in d.ids THEN 3 ELSE 0]
                    IN  /\ Continue(IF lost = {} THEN c.w ELSE Spend(c.w),
                                    at.i + 1)
                        /\ desc' = desc \cup
                              {[from |-> "name", rva |-> name,
                                size |-> IF name = 0 THEN 0 ELSE s.size],
                               [from |-> "cv", rva |-> cv.rva, size |-> cv.size]}
                        /\ UNCHANGED <<dir, result>>
    /\ Kept

\* macOS writes names and records first and the finished list last.
ModuleMac ==
    /\ On("modules") /\ d.os = "macos" /\ at.i <= Len(d.mods)
    /\ \E s \in WriteString(w) :
       \E c \in IF d.mods[at.i].name \in d.ids THEN WriteCvMac(s.w)
               ELSE {NoBlob(s.w)} :
           /\ Continue(c.w, at.i + 1)
           /\ desc' = desc \cup {Ref("name", s), Ref("cv", c)}
    /\ UNCHANGED <<dir, result>> /\ Kept

ModuleListMac ==
    /\ On("modules") /\ d.os = "macos" /\ at.i > Len(d.mods)
    /\ WriteStream(w, 4 + 4 * Len(d.mods))
    /\ UNCHANGED desc /\ Kept

---------------------------------------------------------------------------
\* The memory list.

MemoryKept == UNCHANGED <<d, dir, stacks, result, file>>

ByRegions ==
    d.os = "linux" \/ (d.port /\ d.mode # "stack" /\ d.maps # <<>>)

\* SMART mode walks the stacks first, before the list is sized.
MemoryStart ==
    /\ On("memory") /\ at.list = 0 /\ ByRegions
    /\ at' = [at EXCEPT !.i = 1, !.list = 1,
                        !.ph = IF d.mode = "smart" THEN "scan" ELSE "regions"]
    /\ UNCHANGED <<w, desc, acc>> /\ MemoryKept

\* The registers looked at: those the handler captured.
Registers(t) == IF t.captured THEN t.regs ELSE <<>>

\* The next stack is read back from the dump; its words are queued, and then
\* the thread's registers.
ScanStack ==
    /\ at.ph = "scan" /\ acc.queue = <<>>
    /\ IF at.i > Len(stacks) \/ AtCap(acc)
       THEN /\ at' = [at EXCEPT !.i = 1, !.ph = "regions"]
            /\ UNCHANGED <<w, acc>>
       ELSE LET t == CHOOSE x \in ToSet(d.threads) : x.tid = stacks[at.i].tid
                regs == Registers(t)
            IN  /\ at' = [at EXCEPT !.i = @ + 1]
                /\ \/ acc' = [acc EXCEPT !.queue = t.words \o regs]
                      /\ UNCHANGED w
                   \/ /\ w.faults > 0 /\ w' = Spend(w)
                      /\ acc' = [acc EXCEPT !.queue = regs]
    /\ UNCHANGED desc /\ MemoryKept

ScanWord ==
    /\ at.ph = "scan" /\ acc.queue # <<>>
    /\ \E o \in Consider(acc, w, Head(acc.queue)) :
           /\ acc' = [o.acc EXCEPT !.queue = Tail(@)]
           /\ w' = o.w
    /\ UNCHANGED <<at, desc>> /\ MemoryKept

\* One mapping: its bytes are read and written, or its entry stays empty.
MemoryRegion ==
    /\ at.ph = "regions" /\ at.i <= Len(d.maps)
    /\ LET m == d.maps[at.i]
       IN  IF ~Include(m) THEN Continue(w, at.i + 1) /\ UNCHANGED desc
           ELSE \E b \in WriteRead(w, RegionSize(m)) :
                   /\ Continue(b.w, at.i + 1)
                   /\ desc' = desc \cup {Ref("memory", b)}
    /\ UNCHANGED acc /\ MemoryKept

\* The list: the stacks again, the indirect regions, the mappings.  Its size
\* was fixed by counting the same mappings before.
MemoryEntries ==
    Len(stacks) + Len(acc.regs)
    + Cardinality({i \in DOMAIN d.maps : Include(d.maps[i])})

MemoryList ==
    /\ at.ph = "regions" /\ at.i > Len(d.maps)
    /\ WriteStream(w, 4 + MemoryEntries)
    /\ desc' = desc \cup {Ref("stack", b) : b \in ToSet(stacks)}
                     \cup {Ref("memory", b) : b \in ToSet(acc.regs)}
    /\ Kept

\* macOS without regions: a page per module from the file the handler saved
\* (stack-only mode: an empty list).
ModuleHeaders ==
    /\ On("memory") /\ ~ByRegions /\ d.mode # "stack" /\ at.i <= Len(d.mods)
    /\ \E b \in WriteData(w, PAGE)
               \cup IF w.faults = 0 THEN {} ELSE {NoBlob(Spend(w))} :
           /\ Continue(b.w, at.i + 1)
           /\ desc' = desc \cup {Ref("memory", b)}
    /\ UNCHANGED acc /\ MemoryKept

HeaderList ==
    /\ On("memory") /\ ~ByRegions
    /\ d.mode = "stack" \/ at.i > Len(d.mods)
    /\ WriteStream(w, 4 + at.i - 1)
    /\ UNCHANGED desc /\ Kept

---------------------------------------------------------------------------
\* Thread names, the /proc files and the dynamic linker's list.

\* macOS gives the stream up at the first name that is not written; Linux
\* keeps the zero.
NameLinux ==
    /\ On("names") /\ d.os = "linux" /\ at.i <= Len(d.threads)
    /\ \E s \in WriteString(w) :
           Continue(s.w, at.i + 1) /\ desc' = desc \cup {Ref("name", s)}
    /\ UNCHANGED <<dir, result>> /\ Kept

NameMac ==
    /\ On("names") /\ d.os = "macos" /\ at.i <= Len(d.threads)
    /\ \E s \in WriteString(w) :
           IF s.rva = 0 THEN StreamDone(s, FALSE) /\ UNCHANGED desc
           ELSE /\ Continue(s.w, at.i + 1) /\ desc' = desc \cup {Ref("name", s)}
                /\ UNCHANGED <<dir, result>>
    /\ Kept

NameList ==
    /\ On("names") /\ at.i > Len(d.threads)
    /\ WriteStream(w, 4 + 4 * Len(d.threads))
    /\ UNCHANGED desc /\ Kept

\* A /proc file, if it can be read and is not empty.
FileAsStream ==
    /\ at.ph = "start"
    /\ Stream \in {"status", "maps", "auxv", "cpu", "lsb", "cmd", "env"}
    /\ \/ Stream \notin d.missing /\ WriteStream(w, 6)
       \/ Stream \in d.missing /\ StreamDone(NoBlob(w), FALSE)
    /\ UNCHANGED desc /\ Kept

\* The link map is counted in one walk and written in a second; either may
\* end early.  Names first, then the links that were written, then the
\* header with the dynamic section behind it.
DsoHeader(ww, n) ==
    \E l \in IF n = 0 THEN {NoBlob(ww)} ELSE WriteData(ww, 2 * n) :
        /\ IF n > 0 /\ l.rva = 0 THEN StreamDone(l, FALSE)
           ELSE WriteStream(l.w, 6)
        /\ desc' = desc \cup {Ref("links", l)}

DsoDebug ==
    /\ On("dso")
    /\ \E r \in ReadLinux(w, 2) :
           IF r.got # 2
           THEN IF at.i = 1 THEN StreamDone(NoBlob(r.w), FALSE) /\ UNCHANGED desc
                ELSE DsoHeader(r.w, at.i - 2)
           ELSE IF at.i = 1 THEN /\ Continue(r.w, 2)
                                 /\ UNCHANGED <<desc, dir, result>>
           ELSE IF at.i - 2 = d.links THEN DsoHeader(r.w, d.links)
           ELSE \E s \in WriteString(r.w) :
                   /\ Continue(s.w, at.i + 1)
                   /\ desc' = desc \cup {Ref("name", s)}
                   /\ UNCHANGED <<dir, result>>
    /\ Kept

---------------------------------------------------------------------------
\* The end.

Closed(ww, f) ==
    /\ w' = [ww EXCEPT !.held = FALSE]
    /\ file' = f
    /\ result' = IF f = "whole" THEN 0 ELSE -1
    /\ at' = [at EXCEPT !.ph = "done"]
    /\ UNCHANGED <<d, desc, dir, acc, stacks>>

\* Header and directory are written at the start of the file.
Finish ==
    /\ at.ph = "finish"
    /\ \/ Closed(w, "whole")
       \/ w.faults > 0 /\ Closed(Spend(w), "gone")

\* Any failure removes the file and lets the process go.
Abort == at.ph = "abort" /\ Closed(w, "gone")

\* Windows: one library call writes the dump.
WriteDumpWindows ==
    /\ at.ph = "windows"
    /\ \/ Closed(w, "whole")
       \/ w.faults > 0 /\ \E f \in {"none", "gone"} : Closed(Spend(w), f)

Linux == \/ ParseProcMaps \/ EnumerateThreads \/ AttachProcess
         \/ SystemInfoLinux \/ ExceptionLinux \/ ThreadLinux \/ ModuleListLinux \/ ModulePatchLinux \/ NameLinux
         \/ FileAsStream \/ DsoDebug
Mac == \/ EnumerateRegions \/ SystemInfoMac \/ ExceptionMac \/ MiscInfo \/ ThreadMac \/ ThreadMacSaved \/ ModuleMac \/ ModuleListMac
       \/ ModuleHeaders \/ HeaderList \/ NameMac
Both == \/ OpenFile \/ Reserve \/ ThreadList \/ MemoryStart
        \/ ScanStack \/ ScanWord \/ MemoryRegion \/ MemoryList \/ NameList
        \/ Finish \/ Abort

DumpNext == Linux \/ Mac \/ Both \/ WriteDumpWindows

DumpInit ==
    /\ d \in Dumps
    /\ w = [off |-> 0, blobs |-> {}, held |-> FALSE, faults |-> d.faults]
    /\ at = [s |-> 1, i |-> 1, list |-> 0,
             ph |-> IF d.os = "windows" THEN "windows" ELSE "open"]
    /\ desc = {} /\ dir = {} /\ stacks = <<>> /\ result = 0 /\ file = "none"
    /\ acc = [regs |-> <<>>, total |-> 0, queue |-> <<>>]

---------------------------------------------------------------------------
\* Properties.

Meet(a, b) == a.at < b.at + b.size /\ b.at < a.at + a.size

\* A dump that is kept can be read: the extents written do not overlap each
\* other nor the header, and every reference with a size, in the directory
\* or inside a stream, is an extent that was written, also when reads and
\* writes failed on the way (sentry__minidump_write_data seeks back and
\* returns 0, the stream writers drop the size with the rva).
DumpReadable ==
    /\ \A a, b \in w.blobs : a # b => ~Meet(a, b)
    /\ \A b \in w.blobs : b.at >= HEADER
    /\ file = "whole" =>
         \A r \in dir \cup {x \in desc : x.from # "cv"} :
             r.size > 0 => [at |-> r.rva, size |-> r.size] \in w.blobs

\* When the writer returns it holds neither ptrace nor the task port, and a
\* failure leaves no file behind; a dump that is kept has all the streams
\* consumers require (sentry__write_minidump).
DumpReleased ==
    at.ph = "done" =>
        /\ ~w.held
        /\ result = 0 <=> file = "whole"
        /\ file # "open"
        /\ file = "whole" /\ d.os # "windows" =>
             Mandatory \cap ToSet(Streams) \subseteq {e.stream : e \in dir}

\* The indirect accumulator stays sorted and disjoint and within both caps,
\* whatever addresses the stacks and registers hold; the binary searches
\* find what a scan would find, and a module is the hull of its readable
\* mappings (find_first_after, find_mapping_for_addr, resolve_modules).
RegionsOrdered ==
    /\ \A i, j \in DOMAIN acc.regs : i < j => acc.regs[i].end <= acc.regs[j].start
    /\ Len(acc.regs) <= MAX_REGIONS /\ acc.total <= MAX_TOTAL
    /\ \A a \in 0 .. 8 * PAGE :
         LET hits == {i \in DOMAIN d.maps : Inside(a, d.maps[i])}
         IN  IF hits = {} THEN FindMapping(a) = 0 ELSE FindMapping(a) \in hits
    /\ \A m \in ToSet(ResolveModules) :
         LET own == {x \in ToSet(d.maps) : x.kind = "file" /\ x.name = m.name
                                           /\ "r" \in x.perm}
         IN  /\ \E x \in own : x.start = m.base
             /\ \E x \in own : x.end = m.end
             /\ \A x \in own : m.base <= x.start /\ x.end <= m.end

\* A dump can be read, nothing is held on to, and its memory regions are in
\* order: the three above together.
DumpSound == DumpReadable /\ DumpReleased /\ RegionsOrdered
=============================================================================
