------------------------------- MODULE FelUsb -------------------------------
(***************************************************************************)
(* The FEL transport of fel_lib.c: every FEL request is a sequence of USB  *)
(* transactions ("stages": the 16-byte FEL request, the payload, the       *)
(* 8-byte status), and every transaction is a sequence of bulk phases: the *)
(* AWUC header, the data, the AWUS response.  usb_bulk_send() and          *)
(* usb_bulk_recv() move each phase in chunks and go on from the count the  *)
(* USB stack reports.                                                      *)
(*                                                                         *)
(* The other end of the cable is the FEL handler in the SoC's boot ROM.    *)
(* It is not part of the repository: it is modelled from what the code     *)
(* expects of it.  It sees only the bytes that arrive, and derives its own *)
(* stage, phase and byte counts from them.                                 *)
(***************************************************************************)
EXTENDS FelReq

CONSTANTS
    MaxSend,          \* AW_USB_MAX_BULK_SEND
    MaxSendProgress,  \* chunk size when progress is reported
    IntMax,           \* largest value of the C type int
    UsbReqSize,       \* sizeof(struct aw_usb_request)
    FelReqSize,       \* sizeof(struct aw_fel_request)
    RespSize,         \* the AWUS response
    StatusSize,       \* the FEL status
    VersionSize       \* sizeof(struct aw_fel_version)

ASSUME SizesPositive ==
    /\ MaxAddr \in Nat
    /\ MaxLen \in Nat
    /\ IntMax \in Nat
    /\ \A n \in {MaxSend, MaxSendProgress, UsbReqSize, FelReqSize, RespSize,
                 StatusSize, VersionSize} : n \in Nat \ {0}

ASSUME MessagesFitInt ==
    \A n \in {UsbReqSize, FelReqSize, RespSize, StatusSize, VersionSize} :
        n <= IntMax

ASSUME NoByteIsNoValue == NoByte \notin Val

VARIABLES
    call,      \* the library call in progress
    hstage,    \* host: transaction of the call, "idle", "dead" or "abort"
    hphase,    \* host: phase of the transaction
    hrem,      \* host: bytes of the phase still to transfer ("length")
    rbuf,      \* host: buffer of aw_fel_read(), by target address
    reported,  \* host: bytes passed to progress_update() in this call
    usb,       \* BROM: last AWUC header received
    req,       \* BROM: last FEL request received
    bstage,    \* BROM: transaction it is in
    bphase,    \* BROM: phase of the transaction
    brem,      \* BROM: bytes of the phase still to transfer
    mem,       \* target memory
    armed,     \* BROM: code was started and has not returned
    snap       \* history: memory as the caller of the library may rely on it

hvars == <<call, hstage, hphase, hrem, rbuf, reported>>
bvars == <<usb, req, bstage, bphase, brem, mem, armed>>
vars == <<call, hstage, hphase, hrem, rbuf, reported,
          usb, req, bstage, bphase, brem, mem, armed, snap>>

Stages == {"request", "payload", "status"}
Phases == {"awuc", "data", "awus"}

-----------------------------------------------------------------------------
(* The host: what the library calls do, stage by stage.                    *)

\* Conversion of an unsigned length to int, as in the calls of usb_bulk_recv().
AsInt(n) == IF n > IntMax THEN n - 2 * (IntMax + 1) ELSE n

\* Mutant: the status of a read or write is not collected.
NextStageNoStatus(kind, stage) ==
    CASE stage = "request" -> IF kind = "exec" THEN "status" ELSE "payload"
      [] OTHER -> "idle"

\* Mutant: a completed request is sent again.
NextStageRepeats(kind, stage) ==
    CASE stage = "request" -> IF kind = "exec" THEN "status" ELSE "payload"
      [] stage = "payload" -> "status"
      [] OTHER -> "request"

\* The transaction that follows: aw_fel_execute() has no payload.
NextStage(kind, stage) ==
    CASE stage = "request" -> IF kind = "exec" THEN "status" ELSE "payload"
      [] stage = "payload" -> "status"
      [] OTHER -> "idle"

\* aw_usb_write() or aw_usb_read().
Direction(kind, stage) ==
    IF stage = "request" \/ (stage = "payload" /\ kind = "write") THEN "out" ELSE "in"

\* The length in the AWUC header.
Size(c, stage) ==
    CASE stage = "request" -> FelReqSize
      [] stage = "payload" -> IF c.kind = "version" THEN VersionSize ELSE c.len
      [] OTHER -> StatusSize

\* Mutant: the last byte of the data is not waited for.
HostLengthOneLess(c, stage, phase) ==
    CASE phase = "awuc" -> UsbReqSize
      [] phase = "awus" -> RespSize
      [] OTHER -> IF Direction(c.kind, stage) = "out" THEN Size(c, stage)
                                                      ELSE AsInt(Size(c, stage)) - 1

\* The "length" usb_bulk_send() (a size_t) or usb_bulk_recv() (an int) starts with.
HostLength(c, stage, phase) ==
    CASE phase = "awuc" -> UsbReqSize
      [] phase = "awus" -> RespSize
      [] OTHER -> IF Direction(c.kind, stage) = "out" THEN Size(c, stage)
                                                      ELSE AsInt(Size(c, stage))

\* Loops over no bytes at all return at once.
HostNextPhase(c, stage, phase) ==
    CASE phase = "awuc" -> IF HostLength(c, stage, "data") > 0 THEN "data" ELSE "awus"
      [] phase = "data" -> "awus"
      [] OTHER -> "awuc"

HostNextStage(c, stage, phase) ==
    IF phase = "awus" THEN NextStage(c.kind, stage) ELSE stage

HostSends == hphase = "awuc" \/ (hphase = "data" /\ Direction(call.kind, hstage) = "out")

\* max_chunk of usb_bulk_send().
MaxChunk == IF hstage = "payload" /\ hphase = "data" /\ call.progress
            THEN MaxSendProgress ELSE MaxSend

\* Mutant: the send loop takes off max_chunk, whatever libusb has sent, so that
\* a chunk that was cut short, or the last one, takes the length past zero.
HostAdvanceMaxChunk(n) ==
    LET taken == IF HostSends THEN MaxChunk ELSE n
    IN  IF taken # hrem
        THEN /\ hrem' = hrem - taken
             /\ UNCHANGED <<hstage, hphase>>
        ELSE /\ hstage' = HostNextStage(call, hstage, hphase)
             /\ hphase' = HostNextPhase(call, hstage, hphase)
             /\ hrem' = IF hstage' = "idle" THEN 0 ELSE HostLength(call, hstage', hphase')

\* n bytes were transferred: length -= n, data += n; the loop ends at 0.
HostAdvance(n) ==
    IF n < hrem
    THEN /\ hrem' = hrem - n
         /\ UNCHANGED <<hstage, hphase>>
    ELSE /\ hstage' = HostNextStage(call, hstage, hphase)
         /\ hphase' = HostNextPhase(call, hstage, hphase)
         /\ hrem' = IF hstage' = "idle" THEN 0 ELSE HostLength(call, hstage', hphase')

-----------------------------------------------------------------------------
(* The BROM (external): it knows only what it has been sent.               *)

NoUsb == [dir |-> "none", len |-> 0]
NoReq == [kind |-> "none", addr |-> 0, len |-> 0]

BromReceives ==
    \/ bphase = "awuc" /\ ~(armed /\ bstage = "request")
    \/ bphase = "data" /\ usb.dir = "out"

BromSends == bphase = "awus" \/ (bphase = "data" /\ usb.dir = "in")

BromLength(u, phase) ==
    CASE phase = "awuc" -> UsbReqSize
      [] phase = "awus" -> RespSize
      [] OTHER -> u.len

BromNextPhase(u, phase) ==
    CASE phase = "awuc" -> IF u.len > 0 THEN "data" ELSE "awus"
      [] phase = "data" -> "awus"
      [] OTHER -> "awuc"

BromNextStage(r, stage, phase) ==
    IF phase # "awus" THEN stage
    ELSE CASE stage = "request" -> IF r.kind = "exec" THEN "status" ELSE "payload"
           [] stage = "payload" -> "status"
           [] OTHER -> "request"

\* Code is started when the exec request has been acknowledged.
BromAdvance(n) ==
    IF n < brem
    THEN /\ brem' = brem - n
         /\ UNCHANGED <<bstage, bphase, armed>>
    ELSE /\ bstage' = BromNextStage(req', bstage, bphase)
         /\ bphase' = BromNextPhase(usb', bphase)
         /\ brem' = BromLength(usb', bphase')
         /\ armed' = (armed \/ (bphase = "awus" /\ bstage = "request" /\ req.kind = "exec"))

\* Mutant: the data pointer stays at the start of the buffer.
HostPosStuck == call.addr

\* Where the next payload byte goes to, or comes from, on either side.
HostPos == call.addr + call.len - hrem
BromPos == req.addr + req.len - brem

Storing == bstage = "payload" /\ bphase = "data" /\ req.kind = "write"

\* Memory after the BROM has taken n more bytes of a write.
Stored(n) ==
    [a \in Addr |->
        IF a \in BromPos .. (BromPos + n - 1)
        THEN IF hstage = "payload" /\ hphase = "data"
             THEN call.data[HostPos + (a - BromPos)]
             ELSE NoByte
        ELSE mem[a]]

\* Mutant: the chunk that was asked for is reported, not the part that was sent.
ReportProgressAsked(n) ==
    reported' = IF call.progress /\ hstage = "payload" /\ hphase = "data"
                THEN reported + (IF hrem < MaxChunk THEN hrem ELSE MaxChunk) ELSE reported

\* progress_update(sent), after each chunk of a write that reports progress.
ReportProgress(n) ==
    reported' = IF call.progress /\ hstage = "payload" /\ hphase = "data"
                THEN reported + n ELSE reported

-----------------------------------------------------------------------------
(* Transfers: both ends move in one step.                                  *)

\* One libusb_bulk_transfer() of usb_bulk_send() that succeeds.
OutTransfer(n) ==
    /\ hstage \in Stages
    /\ HostSends
    /\ BromReceives
    /\ n <= hrem /\ n <= MaxChunk /\ n <= brem
    /\ usb' = IF bphase = "awuc" /\ n = brem
              THEN IF hphase = "awuc"
                   THEN [dir |-> Direction(call.kind, hstage), len |-> Size(call, hstage)]
                   ELSE NoUsb
              ELSE usb
    /\ req' = IF bstage = "request" /\ bphase = "data" /\ n = brem
              THEN IF hstage = "request" /\ hphase = "data"
                   THEN [kind |-> call.kind, addr |-> call.addr, len |-> call.len]
                   ELSE NoReq
              ELSE req
    /\ HostAdvance(n)
    /\ BromAdvance(n)
    /\ mem' = IF Storing THEN Stored(n) ELSE mem
    /\ snap' = snap
    /\ ReportProgress(n)
    /\ UNCHANGED <<call, rbuf>>

\* The host's buffer after n more bytes of a read: bytes that are not the
\* contents of memory are recorded as NoByte.
Received(n) ==
    [a \in Addr |->
        IF a \in HostPos .. (HostPos + n - 1)
        THEN IF bstage = "payload" /\ bphase = "data"
             THEN mem[BromPos + (a - HostPos)]
             ELSE NoByte
        ELSE rbuf[a]]

Reading == hstage = "payload" /\ hphase = "data" /\ call.kind = "read"

\* One libusb_bulk_transfer() of usb_bulk_recv() that succeeds.  A response
\* that is not "AWUS" stops the tool in assert().
InTransfer(n) ==
    /\ hstage \in Stages
    /\ ~HostSends
    /\ BromSends
    /\ n <= hrem /\ n <= brem
    /\ IF hphase = "awus" /\ bphase # "awus"
       THEN hstage' = "abort" /\ UNCHANGED <<hphase, hrem>>
       ELSE HostAdvance(n)
    /\ UNCHANGED <<usb, req>>
    /\ BromAdvance(n)
    /\ rbuf' = IF Reading THEN Received(n) ELSE rbuf
    /\ snap' = IF hstage' \in Stages THEN snap ELSE mem
    /\ UNCHANGED <<call, reported, mem>>

-----------------------------------------------------------------------------
(* The library's entry points.                                             *)

\* Entering a library call.
Call(c) ==
    /\ hstage = "idle"
    /\ c.addr + c.len <= MaxAddr + 1
    /\ call' = c
    /\ hstage' = "request"
    /\ hphase' = "awuc"
    /\ hrem' = UsbReqSize
    /\ rbuf' = NoBytes
    /\ reported' = 0
    /\ UNCHANGED <<usb, req, bstage, bphase, brem, mem, armed, snap>>

aw_fel_get_version == \E c \in VersionCalls : Call(c)

aw_fel_read == \E c \in ReadCalls : Call(c)

\* Mutant: writes of no bytes are not filtered out.
aw_fel_write_empty ==
    \E a \in Addr, l \in 0..MaxLen : \E c \in WriteCalls(a, l) : Call(c)

\* Shared by aw_fel_write_raw() and aw_fel_write_buffer(), which differ in the
\* progress report; a write of no bytes returns without a request.  (What
\* aw_fel_write() does before it, aw_disable_icache(), is in FelSpl.)
aw_fel_write ==
    \E a \in Addr, l \in 0..MaxLen :
        /\ l # 0
        /\ \E c \in WriteCalls(a, l) : Call(c)

aw_fel_execute == \E c \in ExecCalls : Call(c)

\* A transfer fails or times out: usb_error() prints a message and exits.
UsbError ==
    /\ hstage \in Stages
    /\ hstage' = "dead"
    /\ snap' = mem
    /\ UNCHANGED <<call, hphase, hrem, rbuf, reported,
                   usb, req, bstage, bphase, brem, mem, armed>>

\* Started code returns to the BROM; it may have written anything anywhere.
CodeReturns ==
    /\ armed
    /\ armed' = FALSE
    /\ mem' \in [Addr -> Val]
    /\ snap' = mem'
    /\ UNCHANGED <<call, hstage, hphase, hrem, rbuf, reported,
                   usb, req, bstage, bphase, brem>>

Init ==
    /\ call = NoCall
    /\ hstage = "idle"
    /\ hphase = "awuc"
    /\ hrem = 0
    /\ rbuf = NoBytes
    /\ reported = 0
    /\ usb = NoUsb
    /\ req = NoReq
    /\ bstage = "request"
    /\ bphase = "awuc"
    /\ brem = UsbReqSize
    /\ mem \in [Addr -> Val]
    /\ armed = FALSE
    /\ snap = mem

Transfer == \E n \in 1..hrem : OutTransfer(n) \/ InTransfer(n)

Next ==
    \/ aw_fel_get_version \/ aw_fel_read \/ aw_fel_write \/ aw_fel_execute
    \/ Transfer
    \/ UsbError
    \/ CodeReturns

Spec == Init /\ [][Next]_vars

\* Every libusb_bulk_transfer() returns: with bytes moved, or with an error
\* after USB_TIMEOUT at the latest.
FairSpec == Spec /\ WF_vars(Transfer \/ UsbError)

-----------------------------------------------------------------------------
(* Properties.                                                             *)

\* The state of the bulk loops and of the boot ROM is of the right types.
TypeOK ==
    /\ call.kind \in Kinds \cup {"none"}
    /\ call.addr \in Addr
    /\ call.len \in 0..MaxLen
    /\ call.addr + call.len <= MaxAddr + 1
    /\ call.kind = "write" =>
          /\ call.len > 0
          /\ call.data \in [call.addr .. (call.addr + call.len - 1) -> Val]
    /\ call.progress \in BOOLEAN /\ (call.progress => call.kind = "write")
    /\ hstage \in Stages \cup {"idle", "dead", "abort"}
    /\ hphase \in Phases
    /\ hrem \in Nat
    /\ rbuf \in [Addr -> Val \cup {NoByte}]
    /\ reported \in 0..MaxLen
    /\ usb.dir \in {"in", "out", "none"} /\ usb.len \in Nat
    /\ req.kind \in Kinds \cup {"none"} /\ req.addr \in Addr /\ req.len \in 0..MaxLen
    /\ bstage \in Stages
    /\ bphase \in Phases
    /\ brem \in Nat
    /\ mem \in [Addr -> Val]
    /\ armed \in BOOLEAN
    /\ snap \in [Addr -> Val]

\* The tool and the boot ROM, which only see each other's bytes, are always in
\* the same phase of the same transaction with the same number of bytes to go,
\* and the boot ROM has understood the request as the caller made it; between
\* calls the boot ROM waits for a new AWUC header, and code it has started has
\* returned before it takes one.  (aw_usb_write(),
\* aw_usb_read(), aw_send_fel_request() and their callers.)
InStep ==
    /\ hstage \in Stages =>
          /\ bstage = hstage /\ bphase = hphase /\ brem = hrem /\ hrem > 0
          /\ hphase # "awuc" =>
                usb = [dir |-> Direction(call.kind, hstage), len |-> Size(call, hstage)]
          /\ hstage # "request" \/ hphase = "awus" =>
                req = [kind |-> call.kind, addr |-> call.addr, len |-> call.len]
          /\ armed => \/ hstage = "status" /\ call.kind = "exec"
                      \/ hstage = "request" /\ hphase = "awuc" /\ hrem = UsbReqSize
    /\ hstage = "idle" => bstage = "request" /\ bphase = "awuc" /\ brem = UsbReqSize

\* assert(strcmp(buf, "AWUS") == 0) in aw_read_usb_response() never fails.
ResponseIsAWUS == hstage # "abort"

\* How many bytes of the payload have been moved.
Moved ==
    CASE hstage = "request" -> 0
      [] hstage = "payload" /\ hphase = "awuc" -> 0
      [] hstage = "payload" /\ hphase = "data" -> call.len - hrem
      [] OTHER -> call.len

\* At every moment of a write the target holds exactly the bytes already sent,
\* each at its own address, and the old contents everywhere else; at every
\* moment of a read the buffer holds what memory holds at the addresses already
\* read.  (The data += sent and data += recv of the bulk loops, with partial
\* transfers.)
PayloadExact ==
    /\ mem = IF hstage \in Stages /\ call.kind = "write"
             THEN Overlay(snap, call, Moved) ELSE snap
    /\ hstage \in Stages /\ call.kind = "read" => rbuf = Contents(mem, call, Moved)

\* progress_update() is told of every byte of a write that asked for it, and of
\* no others: neither AWUC headers nor FEL requests are counted.
ProgressExact ==
    hstage \in Stages => reported = IF call.progress THEN Moved ELSE 0

\* Every call returns to its caller or ends the tool with a USB error.
CallReturns == hstage \in Stages ~> hstage \in {"idle", "dead"}

\* Seen from its callers the library is FelMem: memory snap, calls that take
\* effect at once when they return, and prefix writes when the tool dies.
AbsCall ==
    CASE hstage = "idle" -> NoCall
      [] hstage \in {"dead", "abort"} -> Request("dead", 0, 0, Empty, FALSE)
      [] hstage = "status" /\ call.kind = "exec" -> Request("acked", 0, 0, Empty, FALSE)
      [] OTHER -> call

AbsRbuf == IF hstage = "idle" THEN rbuf ELSE NoBytes

FM == INSTANCE FelMem WITH mem <- snap, call <- AbsCall, rbuf <- AbsRbuf

\* The transport implements the abstract memory.
ImplementsFelMem == FM!Spec

=============================================================================
