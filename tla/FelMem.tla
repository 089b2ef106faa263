------------------------------- MODULE FelMem -------------------------------
(***************************************************************************)
(* What the callers in fel.c, fit_image.c and fel-spiflash.c rely on when  *)
(* they call aw_fel_read(), aw_fel_write(), aw_fel_write_buffer() and      *)
(* aw_fel_execute(): target memory that is read and written atomically,    *)
(* uploaded code that has run before the next request is served, and, when *)
(* the tool dies on a USB error, damage that is limited to a prefix of the *)
(* range being written.  FelUsb is the detailed specification of the same  *)
(* functions and is shown to implement this one.                           *)
(***************************************************************************)
EXTENDS FelReq

VARIABLES
    mem,      \* target memory, as far as the caller can tell
    call,     \* the request being served, or NoCall
    armed,    \* uploaded code was started and has not finished
    rbuf      \* the caller's buffer of the last read, by target address

vars == <<mem, call, armed, rbuf>>

\* The status of an exec request is still to be collected.
Acked == Request("acked", 0, 0, Empty, FALSE)

\* The tool has exited: usb_error() or a failed assertion.
Dead == Request("dead", 0, 0, Empty, FALSE)

Init ==
    /\ mem \in [Addr -> Val]
    /\ call = NoCall
    /\ armed = FALSE
    /\ rbuf = NoBytes

Begin ==
    /\ call = NoCall
    /\ \/ call' \in VersionCalls \cup ReadCalls \cup ExecCalls
       \/ \E a \in Addr, l \in 1..MaxLen : call' \in WriteCalls(a, l)
    /\ call'.addr + call'.len <= MaxAddr + 1
    /\ rbuf' = NoBytes
    /\ UNCHANGED <<mem, armed>>

\* The request takes effect, all at once, and the caller goes on.
EndVersion ==
    /\ call.kind = "version"
    /\ ~armed
    /\ call' = NoCall
    /\ UNCHANGED <<mem, armed, rbuf>>

EndRead ==
    /\ call.kind = "read"
    /\ ~armed
    /\ rbuf' = Contents(mem, call, call.len)
    /\ call' = NoCall
    /\ UNCHANGED <<mem, armed>>

EndWrite ==
    /\ call.kind = "write"
    /\ ~armed
    /\ mem' = Overlay(mem, call, call.len)
    /\ call' = NoCall
    /\ UNCHANGED <<armed, rbuf>>

\* Started code runs before or after its caller has collected the status.
Arm ==
    /\ call.kind = "exec"
    /\ ~armed
    /\ armed' = TRUE
    /\ call' = Acked
    /\ UNCHANGED <<mem, rbuf>>

EndExec ==
    /\ call = Acked
    /\ call' = NoCall
    /\ UNCHANGED <<mem, armed, rbuf>>

Run ==
    /\ armed
    /\ mem' \in [Addr -> Val]
    /\ armed' = FALSE
    /\ UNCHANGED <<call, rbuf>>

\* The tool gives up: a write has stored some prefix of its data,
\* everything else is as it was.
Fail ==
    /\ call \notin {NoCall, Dead}
    /\ call' = Dead
    /\ \/ mem' = mem
       \/ /\ call.kind = "write"
          /\ ~armed
          /\ \E k \in 1..call.len : mem' = Overlay(mem, call, k)
    /\ UNCHANGED <<armed, rbuf>>

Next ==
    \/ Begin
    \/ EndVersion \/ EndRead \/ EndWrite \/ Arm \/ EndExec
    \/ Run
    \/ Fail

Spec == Init /\ [][Next]_vars

=============================================================================
