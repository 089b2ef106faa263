------------------------------- MODULE FelReq -------------------------------
(***************************************************************************)
(* FEL requests and target memory, as the library calls of fel_lib.c and   *)
(* their specification FelMem both see them.                               *)
(***************************************************************************)
EXTENDS Integers

CONSTANTS
    MaxAddr,  \* target memory is 0..MaxAddr
    MaxLen,   \* longest transfer a caller asks for
    Val,      \* what a byte of memory can hold
    NoByte    \* "nothing received yet"

Addr == 0..MaxAddr

\* AW_FEL_VERSION, AW_FEL_1_WRITE, AW_FEL_1_EXEC and AW_FEL_1_READ.
Kinds == {"version", "write", "exec", "read"}

Empty == [a \in {} |-> NoByte]

\* A library call: data is the caller's buffer, indexed by the target address
\* each byte is meant for.
Request(k, a, l, d, p) ==
    [kind |-> k, addr |-> a, len |-> l, data |-> d, progress |-> p]

NoCall == Request("none", 0, 0, Empty, FALSE)

NoBytes == [a \in Addr |-> NoByte]

\* Memory m after the first k bytes of the write c have been stored.
Overlay(m, c, k) ==
    [a \in Addr |-> IF a \in c.addr .. (c.addr + k - 1) THEN c.data[a] ELSE m[a]]

\* The first k bytes that the read c asks for.
Contents(m, c, k) ==
    [a \in Addr |-> IF a \in c.addr .. (c.addr + k - 1) THEN m[a] ELSE NoByte]

\* The calls a program may make; a write of no bytes never gets this far.
VersionCalls == {Request("version", 0, 0, Empty, FALSE)}

ReadCalls ==
    {Request("read", a, l, Empty, FALSE) : a \in Addr, l \in 0..MaxLen}

ExecCalls == {Request("exec", a, 0, Empty, FALSE) : a \in Addr}

WriteCalls(a, l) ==
    {Request("write", a, l, d, p) : d \in [a .. (a + l - 1) -> Val], p \in BOOLEAN}

=============================================================================
