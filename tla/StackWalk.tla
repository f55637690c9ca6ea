------------------------------ MODULE StackWalk ------------------------------
(***************************************************************************)
(* The stack traces of the crash daemon's own event                        *)
(* (sentry_crash_daemon.c): the exception's trace of the crashed thread,   *)
(* then one trace for every other thread.  A trace comes from the first    *)
(* source that yields frames: dbghelp on Windows, the remote unwinder on   *)
(* Linux, the backtrace the handler captured, and last the chain of saved  *)
(* frame pointers in a copy of the thread's stack.  Reads of the crashed   *)
(* process and allocations may fail or come back short.                    *)
(*                                                                         *)
(* Addresses are small numbers and a pointer is one unit.  A crash q holds *)
(* the platform ("arm" is 32-bit ARM Linux), the contexts and thread ids,  *)
(* the process memory, its mappings and modules, and what the external     *)
(* unwinders would answer.                                                 *)
(***************************************************************************)
EXTENDS Integers, Sequences, FiniteSets, SequencesExt, FiniteSetsExt

CONSTANTS Crashes,            \* the crashes to build events for
          MAX_STACK_FRAMES,
          MAX_STACK_CAPTURE   \* SENTRY_CRASH_MAX_STACK_CAPTURE

VARIABLES q,            \* the crash
          thread_idx,   \* the thread being walked: SIZE_MAX, then 0, 1, ...
          step,         \* control of build_stacktrace_for_thread
          regs,         \* ip, fp, sp and whose context they are
          stack_buf,    \* the copied stack: NoBuf, or its start and words
          vmas,         \* g_vmas and g_vma_complete
          temp_frames,  \* frames, callee first
          current_fp, walk_count,
          traces        \* the stack traces built, by thread index

walk_vars == <<q, thread_idx, step, regs, stack_buf, vmas, temp_frames,
               current_fp, walk_count, traces>>

SIZE_MAX == -1
NULL_PAGE == 2      \* addresses below 0x1000
USER_TOP == 40      \* the top of the user address space
PAC == 100          \* pointer authentication bits are multiples of PAC
NoBuf == [start |-> 0, words |-> <<>>]
NoVmas == [ranges |-> <<>>, cap |-> 0, failed |-> FALSE, ok |-> TRUE]
NoRegisters == -2
Null == [frames |-> <<>>, registers |-> NoRegisters]

NumThreads == Len(q.tids)
frame_count == Len(temp_frames)

---------------------------------------------------------------------------
\* Helpers

StripPac(v) == IF q.platform = "macos" THEN v % PAC ELSE v

is_valid_code_addr(a) == a >= NULL_PAGE /\ a <= USER_TOP

\* The package of a frame: the first module that contains the address.
ModuleOf(a) ==
    LET hits == {i \in DOMAIN q.modules :
                    a >= q.modules[i].base
                    /\ a < q.modules[i].base + q.modules[i].size}
    IN IF hits = {} THEN "" ELSE q.modules[Min(hits)].name

\* A frame: its address, how it was found, its module, and the position it
\* was found at (an index of an unwinder's answer, or a frame pointer).
Frame(a, trust, pos) ==
    [addr |-> a, trust |-> trust, package |-> ModuleOf(a), pos |-> pos]

\* One pointer of the copied stack, as a set with at most one element.
read_stack_value(a) ==
    IF a >= stack_buf.start /\ a - stack_buf.start < Len(stack_buf.words)
    THEN {stack_buf.words[a - stack_buf.start + 1]} ELSE {}

\* The contexts of the threads, and their owner's index.
Context(i) == [q.ctxs[i + 1] EXCEPT !.owner = i]

---------------------------------------------------------------------------
\* The table of mappings that the ARM walk judges frame records by

\* Recording one mapping; the table doubles, and a failed allocation fails
\* every later record of this capture.
vma_record(t, v) ==
    LET grow == Len(t.ranges) = t.cap
        kept == [t EXCEPT !.ranges = Append(@, v),
                          !.cap = IF ~grow THEN @
                                  ELSE IF @ = 0 THEN 2 ELSE 2 * @]
        lost == [t EXCEPT !.failed = TRUE, !.ok = FALSE]
    IN IF t.failed THEN {lost} ELSE IF grow THEN {kept, lost} ELSE {kept}

\* /proc/<pid>/maps, line by line: a line that does not parse is skipped and
\* makes the table incomplete, as does a failed read or open.
vma_capture ==
    LET line(t, v) == vma_record(t, v) \cup {[t EXCEPT !.ok = FALSE]}
        all == FoldLeft(LAMBDA ts, v: UNION {line(t, v) : t \in ts},
                        {NoVmas}, q.vmas)
    IN all \cup {[NoVmas EXCEPT !.ok = FALSE]}

vma_containing(a) ==
    {v \in Range(vmas.ranges) : a >= v.start /\ a < v.end}

arm_frame_record_plausible(saved_fp, return_addr) ==
    /\ \E v \in vma_containing(return_addr) : v.exec /\ ~v.write
    /\ \/ saved_fp = 0
       \/ /\ saved_fp > current_fp
          /\ \E v \in vma_containing(saved_fp) : v.write

---------------------------------------------------------------------------
\* build_stacktrace_for_thread

\* The context of the thread: its own when the index names one, else the
\* context of the crash.  macOS reads the captured thread state instead and
\* searches the crashed thread, falling back to thread 0.
SelectContext ==
    LET named == thread_idx # SIZE_MAX /\ thread_idx < NumThreads
        crashed == {i \in 0 .. NumThreads - 1 : q.tids[i + 1] = q.crashed_tid}
        found == IF thread_idx # SIZE_MAX THEN thread_idx
                 ELSE IF crashed = {} THEN 0 ELSE Min(crashed)
    IN /\ step = "select"
       /\ regs' = IF q.platform = "macos"
                  THEN IF NumThreads > 0 THEN Context(found) ELSE q.crash_ctx
                  ELSE IF named THEN Context(thread_idx) ELSE q.crash_ctx
       /\ step' = "acquire"
       /\ temp_frames' = <<>>
       /\ walk_count' = 0
       /\ current_fp' = 0
       /\ UNCHANGED <<q, thread_idx, stack_buf, vmas, traces>>

\* The words of the process from address a, at most n of them.
Words(a, n) ==
    LET top == CHOOSE t \in a .. a + n :
                  /\ \A b \in a .. t - 1 : b \in DOMAIN q.mem
                  /\ t = a + n \/ t \notin DOMAIN q.mem
    IN [i \in 1 .. top - a |-> q.mem[a + i - 1]]

\* Linux: process_vm_readv from the stack pointer up; a short read keeps what
\* it got, a failed one leaves no buffer.  32-bit ARM reads the mappings next.
AcquireLinux ==
    /\ step = "acquire"
    /\ q.platform \in {"linux", "arm"}
    /\ LET all == Words(regs.sp, MAX_STACK_CAPTURE)
       IN \/ stack_buf' = NoBuf /\ UNCHANGED vmas
          \/ \E n \in {Len(all), Len(all) - 1} :
                /\ NumThreads > 0 /\ n > 0
                /\ stack_buf' = [start |-> regs.sp, words |-> SubSeq(all, 1, n)]
                /\ IF q.platform = "arm" THEN vmas' \in vma_capture
                   ELSE UNCHANGED vmas
    /\ step' = "remote"
    /\ UNCHANGED <<q, thread_idx, regs, temp_frames, current_fp, walk_count,
                   traces>>

\* macOS: the stack the signal handler saved to a file; a short file is
\* dropped.
AcquireMac ==
    /\ step = "acquire"
    /\ q.platform = "macos"
    /\ \/ stack_buf' = NoBuf
       \/ /\ NumThreads > 0
          /\ LET saved == q.saved[regs.owner + 1]
             IN /\ saved > 0
                /\ stack_buf' = [start |-> regs.sp,
                                 words |-> Words(regs.sp, saved)]
    /\ step' = "ip"
    /\ UNCHANGED <<q, thread_idx, regs, vmas, temp_frames, current_fp,
                   walk_count, traces>>

\* The frames an unwinder answers, up to MAX_STACK_FRAMES of them; an
\* address that is no code address is skipped.
Answered(ips) ==
    LET valid(i) == is_valid_code_addr(ips[i])
        kept == SelectSeq([i \in 1 .. Len(ips) |-> i], valid)
        few == SubSeq(kept, 1, Min({Len(kept), MAX_STACK_FRAMES}))
    IN [j \in DOMAIN few |->
           Frame(ips[few[j]], IF few[j] = 1 THEN "context" ELSE "cfi", few[j])]

\* StackWalk64: frames until it gives up, answers 0, or the array is full.
walk_stack_with_dbghelp(i) ==
    LET ips == q.dbghelp[i + 2]
        stop == CHOOSE n \in 0 .. Len(ips) :
                   /\ n = Len(ips) \/ n = MAX_STACK_FRAMES \/ ips[n + 1] = 0
                   /\ \A m \in 0 .. n - 1 : ips[m + 1] # 0
                                            /\ m < MAX_STACK_FRAMES
    IN [j \in 1 .. stop |->
           Frame(ips[j], IF j = 1 THEN "context" ELSE "cfi", j)]

\* build_registers_from_ctx: whose registers the trace shows (SIZE_MAX: those of
\* the crash context).
build_registers_from_ctx ==
    IF thread_idx # SIZE_MAX /\ thread_idx < NumThreads
    THEN thread_idx ELSE SIZE_MAX

\* The trace as Sentry expects it: outermost caller first, null when empty.
Finish(frames, registers) ==
    /\ traces' = [traces EXCEPT ![thread_idx] =
                     IF frames = <<>> THEN Null
                     ELSE [frames |-> Reverse(frames), registers |-> registers]]
    /\ step' = "built"
    /\ stack_buf' = NoBuf

\* Windows: dbghelp if the process handle is there and the thread can be
\* opened; no stack copy is ever made.
AcquireWindows ==
    /\ step = "acquire"
    /\ q.platform = "windows"
    /\ \/ /\ step' = "ip"
          /\ UNCHANGED <<stack_buf, traces>>
       \/ /\ q.process
          /\ LET got == walk_stack_with_dbghelp(thread_idx)
             IN got # <<>> /\ Finish(got, build_registers_from_ctx)
    /\ UNCHANGED <<q, thread_idx, regs, vmas, temp_frames, current_fp,
                   walk_count>>

\* Linux: the remote unwinder attaches to threads other than the crashed one.
RemoteUnwind ==
    LET tid == IF thread_idx = SIZE_MAX THEN q.crashed_tid
               ELSE q.tids[thread_idx + 1]
        got == Answered(q.remote)
    IN /\ step = "remote"
       /\ \/ /\ step' = "backtrace"
             /\ UNCHANGED <<stack_buf, traces>>
          \/ /\ tid # q.crashed_tid
             /\ got # <<>>
             /\ Finish(got, "remote")
       /\ UNCHANGED <<q, thread_idx, regs, vmas, temp_frames, current_fp,
                      walk_count>>

\* Linux: the backtrace the handler captured stands for the crashed thread
\* and for thread 0; it ends the search even if none of it is valid.
Backtrace ==
    /\ step = "backtrace"
    /\ IF q.backtrace # <<>> /\ thread_idx \in {SIZE_MAX, 0}
       THEN Finish(Answered(q.backtrace), build_registers_from_ctx)
       ELSE /\ step' = "ip"
            /\ UNCHANGED <<stack_buf, traces>>
    /\ UNCHANGED <<q, thread_idx, regs, vmas, temp_frames, current_fp,
                   walk_count>>

\* The frame of the instruction pointer, and the start of the walk if there
\* is a stack copy.  ARM does not walk without all the mappings.
IpFrame ==
    /\ step = "ip"
    /\ temp_frames' = IF is_valid_code_addr(regs.ip)
                      THEN <<Frame(regs.ip, "context", 0)>> ELSE <<>>
    /\ IF stack_buf # NoBuf /\ regs.fp # 0
          /\ Len(temp_frames') < MAX_STACK_FRAMES
       THEN /\ step' = "walk"
            /\ current_fp' = regs.fp
            /\ walk_count' = IF q.platform = "arm" /\ ~vmas.ok
                             THEN MAX_STACK_FRAMES ELSE 0
       ELSE /\ step' = "finish"
            /\ UNCHANGED <<current_fp, walk_count>>
    /\ UNCHANGED <<q, thread_idx, regs, stack_buf, vmas, traces>>

\* The frame record at current_fp, as a set with at most one element.  The
\* two compilers of 32-bit ARM leave the frame pointer on different slots.
FrameRecord ==
    LET rec(a) == {[fp |-> f, ret |-> r] :
                      f \in read_stack_value(a), r \in read_stack_value(a + 1)}
        ok(rs) == {r \in rs : arm_frame_record_plausible(r.fp, r.ret)}
        llvm == ok(rec(current_fp))
    IN IF q.platform # "arm" THEN rec(current_fp)
       ELSE IF llvm # {} THEN llvm ELSE ok(rec(current_fp - 1))

\* As a plausible bug: the walk trusts any saved frame pointer but its own.
WalkFrameAnyway ==
    /\ step = "walk"
    /\ walk_count < MAX_STACK_FRAMES - frame_count
    /\ \E r \in FrameRecord :
          /\ is_valid_code_addr(StripPac(r.ret))
          /\ temp_frames' = Append(temp_frames,
                                   Frame(StripPac(r.ret), "fp", current_fp))
          /\ walk_count' = walk_count + 1
          /\ IF StripPac(r.fp) \in {0, current_fp}
             THEN step' = "finish" /\ UNCHANGED current_fp
             ELSE current_fp' = StripPac(r.fp) /\ UNCHANGED step
    /\ UNCHANGED <<q, thread_idx, regs, stack_buf, vmas, traces>>

\* One turn of the loop that adds a frame: the chain ends at a null frame
\* pointer and must not go backwards.
WalkFrame ==
    /\ step = "walk"
    /\ walk_count < MAX_STACK_FRAMES - frame_count
    /\ \E r \in FrameRecord :
          LET saved_fp == StripPac(r.fp)
          IN /\ is_valid_code_addr(StripPac(r.ret))
             /\ temp_frames' = Append(temp_frames,
                                      Frame(StripPac(r.ret), "fp", current_fp))
             /\ walk_count' = walk_count + 1
             /\ IF saved_fp <= current_fp
                THEN step' = "finish" /\ UNCHANGED current_fp
                ELSE current_fp' = saved_fp /\ UNCHANGED step
    /\ UNCHANGED <<q, thread_idx, regs, stack_buf, vmas, traces>>

\* The loop ends without a frame: no record, no code address, or the limit.
WalkStop ==
    /\ step = "walk"
    /\ \/ walk_count >= MAX_STACK_FRAMES - frame_count
       \/ \A r \in FrameRecord : ~is_valid_code_addr(StripPac(r.ret))
    /\ step' = "finish"
    /\ UNCHANGED <<q, thread_idx, regs, stack_buf, vmas, temp_frames,
                   current_fp, walk_count, traces>>

FinishWalk ==
    /\ step = "finish"
    /\ Finish(temp_frames, build_registers_from_ctx)
    /\ UNCHANGED <<q, thread_idx, regs, vmas, temp_frames, current_fp,
                   walk_count>>

\* build_native_event: the crashed thread's trace goes into the exception;
\* then every other thread, if all threads are to be walked.
NextThread ==
    LET others == {i \in 0 .. NumThreads - 1 :
                      q.all /\ i > thread_idx /\ q.tids[i + 1] # q.crashed_tid}
    IN /\ step = "built"
       /\ IF others = {} THEN step' = "event" /\ UNCHANGED thread_idx
          ELSE step' = "select" /\ thread_idx' = Min(others)
       /\ UNCHANGED <<q, regs, stack_buf, vmas, temp_frames, current_fp,
                      walk_count, traces>>

---------------------------------------------------------------------------

WalkInit ==
    /\ q \in Crashes
    /\ thread_idx = SIZE_MAX
    /\ step = "select"
    /\ regs = q.crash_ctx
    /\ stack_buf = NoBuf
    /\ vmas = NoVmas
    /\ temp_frames = <<>>
    /\ current_fp = 0
    /\ walk_count = 0
    /\ traces = [i \in SIZE_MAX .. Len(q.tids) - 1 |-> Null]

WalkNext ==
    \/ SelectContext
    \/ AcquireLinux \/ AcquireMac \/ AcquireWindows
    \/ RemoteUnwind \/ Backtrace
    \/ IpFrame \/ WalkFrame \/ WalkStop \/ FinishWalk
    \/ NextThread

---------------------------------------------------------------------------
\* Properties

Increasing(s) == \A i, j \in DOMAIN s : i < j => s[i].pos < s[j].pos

\* Every trace is one Sentry can show (build_stacktrace_for_thread): at most
\* MAX_STACK_FRAMES frames, the outermost caller first, only the innermost
\* taken from the CPU context, never an address that cannot be code, and
\* the copy of the stack is gone.  Walked frames lie on a chain that only
\* goes up, so that a corrupted or cyclic chain neither repeats a frame nor
\* keeps the daemon in the loop.
TracesSound ==
    /\ Len(temp_frames) <= MAX_STACK_FRAMES
    /\ Increasing(temp_frames)
    /\ step \in {"built", "event"} => stack_buf = NoBuf
    /\ \A i \in DOMAIN traces :
          LET f == traces[i].frames
          IN /\ Len(f) <= MAX_STACK_FRAMES
             /\ Increasing(Reverse(f))
             /\ \A k \in DOMAIN f : f[k].trust = "context" => k = Len(f)
             /\ f # <<>> /\ q.platform # "windows" =>
                   \A k \in DOMAIN f : is_valid_code_addr(f[k].addr)

\* The 32-bit ARM walk fails closed (arm_frame_record_plausible): a walked
\* frame is a return address into mapped code that the process cannot
\* write, and no frame is walked while the table of mappings is incomplete.
ArmFramesAreCode ==
    q.platform = "arm" =>
        \A k \in DOMAIN temp_frames :
            temp_frames[k].trust = "fp" =>
                /\ vmas.ok
                /\ \E v \in Range(q.vmas) :
                      /\ v.exec /\ ~v.write
                      /\ temp_frames[k].addr >= v.start
                      /\ temp_frames[k].addr < v.end

\* The traces are sound on every platform, the 32-bit ARM ones included.
WalkSound == TracesSound /\ ArmFramesAreCode
=============================================================================
