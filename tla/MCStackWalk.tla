------------------------------ MODULE MCStackWalk ------------------------------
(***************************************************************************)
(* Crashes of a process with two threads whose stack holds any words: null,*)
(* pointers into the stack, code, an address that is no code.              *)
(***************************************************************************)
EXTENDS StackWalk

Ctx(ip, fp, sp) == [ip |-> ip, fp |-> fp, sp |-> sp, owner |-> SIZE_MAX]

Vma(start, end, write, exec) ==
    [start |-> start, end |-> end, write |-> write, exec |-> exec]

Crash(platform, mem, ip, backtrace, remote, dbghelp) ==
    [platform |-> platform, mem |-> mem, tids |-> <<7, 8>>, crashed_tid |-> 7,
     crash_ctx |-> Ctx(ip, 11, 10), ctxs |-> <<Ctx(ip, 11, 10), Ctx(21, 13, 12)>>,
     saved |-> <<5, 2>>, all |-> TRUE, process |-> TRUE,
     modules |-> <<[name |-> "exe", base |-> 20, size |-> 2]>>,
     vmas |-> <<Vma(10, 18, TRUE, FALSE), Vma(20, 22, FALSE, TRUE),
                Vma(22, 24, TRUE, TRUE)>>,
     backtrace |-> backtrace, remote |-> remote, dbghelp |-> dbghelp]

\* The word at the stack pointer lies below the first frame record: no walk
\* reads it.
Stacks(words) == {m \in [10 .. 14 -> words] : m[10] = 0}
Memories == Stacks({0, 11, 13, 20, 141})
ArmMemories == Stacks({0, 13, 20, 23})

\* A chain of four frame records, longer than the walk may follow.
LongChain == <<20, 13, 20, 15, 20, 17, 20, 0, 20>>
Chain == [a \in 10 .. 18 |-> LongChain[a - 9]]

NoDbghelp == <<<<>>, <<>>, <<>>>>

MCCrashes ==
    {Crash("linux", m, 20, <<>>, <<>>, NoDbghelp) : m \in Memories}
    \cup {Crash("macos", m, 1, <<>>, <<>>, NoDbghelp) : m \in Memories}
    \cup {Crash("arm", m, 20, <<>>, <<>>, NoDbghelp) : m \in ArmMemories}
    \cup {Crash("linux", Chain, 20, b, r, NoDbghelp) :
             b \in {<<>>, <<20, 0, 21, 20, 21, 20, 21, 20>>, <<1>>},
             r \in {<<>>, <<1, 20, 21>>}}
    \cup {[Crash(p, Chain, ip, <<>>, <<>>, NoDbghelp) EXCEPT !.all = FALSE] :
             p \in {"linux", "macos", "arm"}, ip \in {0, 20}}
    \cup {Crash("windows", Chain, 20, <<>>, <<>>, <<f, <<>>, <<21>>>>) :
             f \in {<<>>, <<20, 21, 20, 21, 20, 21, 20>>, <<20, 0, 21>>}}

=============================================================================
