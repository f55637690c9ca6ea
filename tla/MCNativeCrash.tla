---------------------------- MODULE MCNativeCrash ----------------------------
EXTENDS NativeCrash

Unix(os, chain, async, mode) ==
    [os |-> os, chain |-> chain, wer |-> FALSE, async |-> async, mode |-> mode,
     lastRun |-> chain, discard |-> FALSE, kill |-> ~chain, refs |-> chain, reporter |-> FALSE]

Windows(reports, async, mode) ==
    [os |-> "windows", chain |-> FALSE, wer |-> reports, async |-> async, mode |-> mode,
     lastRun |-> ~reports, discard |-> FALSE, kill |-> FALSE, refs |-> FALSE, reporter |-> async]

MCOptions == {Unix("linux", FALSE, TRUE, "minidump"), Unix("macos", FALSE, FALSE, "native"),
              Unix("linux", TRUE, FALSE, "both"), Windows(TRUE, TRUE, "minidump"),
              Windows(FALSE, FALSE, "both")}

DiscardOptions == {[o EXCEPT !.discard = TRUE] : o \in {u \in MCOptions : u.os = "linux"}}
=============================================================================
