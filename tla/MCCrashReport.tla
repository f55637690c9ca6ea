--------------------------- MODULE MCCrashReport ---------------------------
EXTENDS CrashReport
Byte == [t |-> "byte"]
MCContents == {<<>>, <<Byte, NL, Byte>>}
MCSmall == <<Byte>>
=============================================================================
