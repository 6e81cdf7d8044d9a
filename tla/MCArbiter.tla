----------------------------- MODULE MCArbiter -----------------------------
(* Small instances of Arbiter for TLC.                                     *)
EXTENDS Arbiter

CONSTANTS t0, t1, t2

MCTask2  == {t0, t1}
MCTask3  == {t0, t1, t2}

\* With two slots and NCAT = 4: no category, secrecy 1, integrity 1 and 2.
NoLabel  == <<0, 0>>
S1       == <<1, 0>>
I1       == <<5, 0>>
I2       == <<6, 0>>

Secrecy   == {NoLabel, S1}
Integrity == {NoLabel, I1}
Mixed     == {NoLabel, S1, I2}
OneLabel == {NoLabel}
MCSizes  == {"small", "large"}
SizesGap == {"small", "gap"}
Small    == {"small"}
Large    == {"large"}
NoSizes  == {}

MemoryCalls == {"create_category", "malloc", "free", "create"}
ThreadCalls == {"create_category", "malloc", "join", "create", "exit"}
HeapCalls   == {"malloc", "calloc", "realloc", "free", "get"}
CallocCalls == {"calloc", "free"}
=============================================================================
