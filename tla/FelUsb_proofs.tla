--------------------------- MODULE FelUsb_proofs ---------------------------
(***************************************************************************)
(* FelUsb for every memory size, chunk size and message size: the two ends *)
(* of the cable stay in step, the payload is exact, and the transport      *)
(* implements the abstract memory FelMem.                                  *)
(***************************************************************************)
EXTENDS FelUsb, TLAPS

\* usb_bulk_recv() takes an int: the results hold for reads that fit into one.
LengthsFitInt == MaxLen <= IntMax

\* A loop never has more to transfer than it started with.
RemBounded == hstage \in Stages => hrem <= HostLength(call, hstage, hphase)

\* The part of the inductive invariant that is about control.
Sync == TypeOK /\ InStep /\ ResponseIsAWUS /\ RemBounded

\* The inductive invariant: each part is needed for the others to be preserved.
Inv == Sync /\ PayloadExact /\ ProgressExact

LEMMA SizeTypes ==
    /\ MaxAddr \in Nat /\ MaxLen \in Nat /\ IntMax \in Nat
    /\ MaxSend \in Nat \ {0} /\ MaxSendProgress \in Nat \ {0}
    /\ UsbReqSize \in Nat \ {0} /\ FelReqSize \in Nat \ {0}
    /\ RespSize \in Nat \ {0} /\ StatusSize \in Nat \ {0}
    /\ VersionSize \in Nat \ {0}
  BY SizesPositive

\* A length that fits into an int is not changed by the conversion.
LEMMA AsIntIdentity ==
    ASSUME LengthsFitInt, TypeOK, NEW stage \in Stages
    PROVE  /\ Size(call, stage) \in Nat
           /\ AsInt(Size(call, stage)) = Size(call, stage)
  <1>1. Size(call, stage) \in Nat /\ Size(call, stage) <= IntMax
    <2>1. call.len \in Nat /\ call.len <= IntMax
      <3>1. call.len \in 0..MaxLen
        BY DEF TypeOK
      <3> QED BY <3>1, SizeTypes DEF LengthsFitInt
    <2>2. /\ FelReqSize \in Nat /\ FelReqSize <= IntMax
          /\ VersionSize \in Nat /\ VersionSize <= IntMax
          /\ StatusSize \in Nat /\ StatusSize <= IntMax
      BY SizeTypes, MessagesFitInt
    <2> QED BY <2>1, <2>2 DEF Size, Stages
  <1> QED BY <1>1, SizeTypes DEF AsInt

\* The host's loops and the boot ROM count the same bytes.
LEMMA SameLength ==
    ASSUME LengthsFitInt, TypeOK, NEW stage \in Stages, NEW phase \in Phases,
           NEW u, u.len = Size(call, stage)
    PROVE  /\ HostLength(call, stage, phase) = BromLength(u, phase)
           /\ HostLength(call, stage, phase) \in Nat
           /\ HostNextPhase(call, stage, phase) = BromNextPhase(u, phase)
           /\ HostNextPhase(call, stage, phase) \in Phases
           /\ phase # "data" => HostLength(call, stage, phase) > 0
           /\ phase = "awuc" =>
                HostLength(call, stage, HostNextPhase(call, stage, phase)) > 0
           /\ stage # "payload" => Size(call, stage) > 0
  <1>1. /\ Size(call, stage) \in Nat
        /\ HostLength(call, stage, "data") = Size(call, stage)
    BY AsIntIdentity DEF HostLength
  <1> QED
    BY <1>1, SizeTypes DEF HostLength, BromLength, HostNextPhase, BromNextPhase,
       Phases, Stages, Size

LEMMA LengthNat ==
    ASSUME LengthsFitInt, TypeOK, NEW stage \in Stages, NEW phase \in Phases
    PROVE  HostLength(call, stage, phase) \in Nat
  BY AsIntIdentity, SizeTypes DEF HostLength, Phases

\* The transactions of a call, seen from the two ends.
LEMMA SameStage ==
    ASSUME TypeOK, hstage \in Stages, hphase = "awus", NEW r, r.kind = call.kind
    PROVE  /\ HostNextStage(call, hstage, hphase) \in Stages \cup {"idle"}
           /\ HostNextStage(call, hstage, hphase) \in Stages =>
                /\ BromNextStage(r, hstage, "awus") = HostNextStage(call, hstage, hphase)
                /\ HostNextStage(call, hstage, hphase) # "request"
           /\ HostNextStage(call, hstage, hphase) = "idle" =>
                /\ BromNextStage(r, hstage, "awus") = "request"
                /\ hstage = "status"
           /\ BromNextStage(r, hstage, "awus") \in Stages
  BY DEF HostNextStage, BromNextStage, NextStage, Stages

LEMMA OutSync ==
    ASSUME LengthsFitInt, Sync, NEW n \in 1..hrem, OutTransfer(n)
    PROVE  /\ hstage' = hstage /\ bstage' = hstage
           /\ hphase' = bphase' /\ hrem' = brem' /\ hrem' \in Nat \ {0}
           /\ hphase' \in Phases
           /\ hrem' <= HostLength(call, hstage, hphase')
           /\ hphase' # "awuc" =>
                usb' = [dir |-> Direction(call.kind, hstage), len |-> Size(call, hstage)]
           /\ hstage # "request" \/ hphase' = "awus" =>
                req' = [kind |-> call.kind, addr |-> call.addr, len |-> call.len]
           /\ armed' = armed
           /\ armed => hstage = "status" /\ call.kind = "exec"
           /\ \/ n < hrem /\ hphase' = hphase /\ hrem' = hrem - n
              \/ n = hrem /\ hphase = "awuc" /\ hphase' = HostNextPhase(call, hstage, "awuc")
                 /\ hrem' = HostLength(call, hstage, hphase')
              \/ n = hrem /\ hphase = "data" /\ hphase' = "awus"
  <1> DEFINE u == [dir |-> Direction(call.kind, hstage), len |-> Size(call, hstage)]
  <1>1. /\ hstage \in Stages /\ bstage = hstage /\ bphase = hphase /\ brem = hrem
        /\ hrem \in Nat \ {0} /\ n \in Nat \ {0} /\ n <= hrem
        /\ hphase \in {"awuc", "data"}
        /\ hphase = "data" => usb = u
        /\ hrem <= HostLength(call, hstage, hphase)
    BY DEF Sync, InStep, OutTransfer, TypeOK, HostSends, RemBounded
  <1>2. armed => hstage = "status" /\ call.kind = "exec"
    BY <1>1 DEF OutTransfer, Sync, InStep, BromReceives, HostSends, Direction
  <1>3. CASE n < hrem
    <2>1. usb' = usb /\ req' = req
      BY <1>1, <1>3 DEF OutTransfer
    <2>2. /\ hstage' = hstage /\ bstage' = hstage /\ hphase' = hphase /\ bphase' = hphase
          /\ hrem' = hrem - n /\ brem' = hrem - n /\ armed' = armed
      BY <1>1, <1>3 DEF OutTransfer, HostAdvance, BromAdvance
    <2>3. hrem' \in Nat \ {0} /\ hrem' <= HostLength(call, hstage, hphase)
      <3>1. HostLength(call, hstage, hphase) \in Nat
        BY <1>1, LengthNat DEF Sync, Phases
      <3> QED BY <1>1, <1>3, <2>2, <3>1
    <2>5. hstage # "request" =>
             req = [kind |-> call.kind, addr |-> call.addr, len |-> call.len]
      BY <1>1 DEF Sync, InStep
    <2> QED
      BY <1>1, <1>2, <1>3, <2>1, <2>2, <2>3, <2>5 DEF Phases
  <1>4. CASE n = hrem /\ hphase = "awuc"
    <2>1. usb' = u /\ req' = req
      BY <1>1, <1>4 DEF OutTransfer
    <2>2. /\ hstage' = hstage /\ bstage' = hstage
          /\ hphase' = HostNextPhase(call, hstage, "awuc")
          /\ bphase' = BromNextPhase(u, "awuc")
          /\ hrem' = HostLength(call, hstage, hphase')
          /\ brem' = BromLength(u, bphase')
          /\ armed' = armed
      BY <1>1, <1>4, <2>1 DEF OutTransfer, HostAdvance, BromAdvance, HostNextStage,
         BromNextStage, Stages, Sync, TypeOK
    <2>3. u.len = Size(call, hstage)
      OBVIOUS
    <2>4. /\ hphase' = bphase' /\ hphase' \in Phases
          /\ HostLength(call, hstage, hphase') > 0
      BY <1>1, <2>2, <2>3, SameLength DEF Sync, Phases
    <2>5. hrem' = brem' /\ hrem' \in Nat
      BY <1>1, <2>2, <2>3, <2>4, SameLength DEF Sync
    <2>6. hstage = "request" => hphase' = "data"
      BY <1>1, <2>2, <2>3, SameLength, AsIntIdentity DEF Sync, HostNextPhase, HostLength, Phases
    <2>7. hstage # "request" => req' = [kind |-> call.kind, addr |-> call.addr, len |-> call.len]
      BY <2>1, <1>1 DEF Sync, InStep
    <2> QED
      BY <1>1, <1>2, <1>4, <2>1, <2>2, <2>4, <2>5, <2>6, <2>7
  <1>5. CASE n = hrem /\ hphase = "data"
    <2>1. /\ usb' = u
          /\ req' = [kind |-> call.kind, addr |-> call.addr, len |-> call.len]
      BY <1>1, <1>5 DEF OutTransfer, Sync, InStep
    <2>2. /\ hstage' = hstage /\ bstage' = hstage
          /\ hphase' = "awus" /\ bphase' = "awus"
          /\ hrem' = RespSize /\ brem' = RespSize
          /\ armed' = armed
      BY <1>1, <1>5, <2>1 DEF OutTransfer, HostAdvance, BromAdvance, HostNextStage,
         BromNextStage, HostNextPhase, BromNextPhase, HostLength, BromLength, Stages,
         Sync, TypeOK
    <2> QED
      BY <1>1, <1>2, <1>5, <2>1, <2>2, SizeTypes DEF Phases, HostLength
  <1> QED BY <1>1, <1>3, <1>4, <1>5

LEMMA InSync ==
    ASSUME LengthsFitInt, Sync, NEW n \in 1..hrem, InTransfer(n)
    PROVE  /\ hstage' \in Stages \cup {"idle"} /\ bstage' \in Stages
           /\ hphase' \in Phases /\ bphase' = hphase'
           /\ hrem' \in Nat /\ brem' \in Nat
           /\ hstage' \in Stages =>
                /\ bstage' = hstage' /\ brem' = hrem' /\ hrem' > 0
                /\ hrem' <= HostLength(call, hstage', hphase')
                /\ req = [kind |-> call.kind, addr |-> call.addr, len |-> call.len]
                      \/ (hstage' = "request" /\ hphase' # "awus")
                /\ hphase' # "awuc" =>
                      usb = [dir |-> Direction(call.kind, hstage'), len |-> Size(call, hstage')]
                /\ armed' => hstage' = "status" /\ call.kind = "exec"
           /\ hstage' = "idle" =>
                /\ bstage' = "request" /\ bphase' = "awuc" /\ brem' = UsbReqSize
                /\ hstage = "status"
           /\ hstage # "idle" /\ armed' \in BOOLEAN
           /\ \/ n < hrem /\ hstage' = hstage /\ hphase' = hphase /\ hrem' = hrem - n
              \/ n = hrem /\ hphase = "data" /\ hphase' = "awus" /\ hstage' = hstage
              \/ hphase = "awus" /\ hphase' = "awuc"
                 /\ hstage' = HostNextStage(call, hstage, "awus")
           /\ hphase \in {"data", "awus"}
           /\ ~armed \/ (hstage = "status" /\ call.kind = "exec")
  <1>1. /\ hstage \in Stages /\ bstage = hstage /\ bphase = hphase /\ brem = hrem
        /\ hrem \in Nat \ {0} /\ n \in Nat \ {0} /\ n <= hrem
        /\ hphase \in {"data", "awus"}
        /\ usb = [dir |-> Direction(call.kind, hstage), len |-> Size(call, hstage)]
        /\ hrem <= HostLength(call, hstage, hphase)
        /\ HostLength(call, hstage, hphase) \in Nat
        /\ armed \in BOOLEAN
    BY LengthNat DEF Sync, InStep, InTransfer, TypeOK, HostSends, RemBounded, Phases
  <1>2. armed => hstage = "status" /\ call.kind = "exec"
    BY <1>1 DEF Sync, InStep
  <1>3. HostAdvance(n) /\ BromAdvance(n) /\ usb' = usb /\ req' = req
    BY <1>1 DEF InTransfer
  <1>4. hstage # "request" \/ hphase = "awus" =>
           req = [kind |-> call.kind, addr |-> call.addr, len |-> call.len]
    BY <1>1 DEF Sync, InStep
  <1>5. CASE n < hrem
    <2>1. /\ hstage' = hstage /\ bstage' = hstage /\ hphase' = hphase /\ bphase' = hphase
          /\ hrem' = hrem - n /\ brem' = hrem - n /\ armed' = armed
      BY <1>1, <1>3, <1>5 DEF HostAdvance, BromAdvance
    <2> QED BY <1>1, <1>2, <1>4, <1>5, <2>1 DEF Phases, Stages
  <1>6. CASE n = hrem /\ hphase = "data"
    <2>1. /\ hstage' = hstage /\ bstage' = hstage
          /\ hphase' = "awus" /\ bphase' = "awus"
          /\ hrem' = RespSize /\ brem' = RespSize
          /\ armed' = armed
      BY <1>1, <1>3, <1>6 DEF HostAdvance, BromAdvance, HostNextStage,
         BromNextStage, HostNextPhase, BromNextPhase, HostLength, BromLength, Stages
    <2>2. hstage # "request"
      BY <1>1, <1>6 DEF InTransfer, HostSends, Direction
    <2> QED
      BY <1>1, <1>2, <1>4, <1>6, <2>1, <2>2, SizeTypes DEF Phases, HostLength, Stages
  <1>7. CASE n = hrem /\ hphase = "awus"
    <2>1. req.kind = call.kind
      BY <1>4, <1>7
    <2>2. /\ hstage' = HostNextStage(call, hstage, "awus")
          /\ bstage' = BromNextStage(req, hstage, "awus")
          /\ hphase' = "awuc" /\ bphase' = "awuc"
          /\ hrem' = IF hstage' = "idle" THEN 0 ELSE UsbReqSize
          /\ brem' = UsbReqSize
          /\ armed' = (armed \/ (hstage = "request" /\ req.kind = "exec"))
      BY <1>1, <1>3, <1>7 DEF HostAdvance, BromAdvance, HostNextPhase, BromNextPhase,
         HostLength, BromLength
    <2>3. /\ hstage' \in Stages \cup {"idle"} /\ bstage' \in Stages
          /\ hstage' \in Stages => bstage' = hstage' /\ hstage' # "request"
          /\ hstage' = "idle" => bstage' = "request" /\ hstage = "status"
      BY <1>1, <1>7, <2>1, <2>2, SameStage DEF Sync
    <2>4. hstage' \in Stages /\ armed' => hstage' = "status" /\ call.kind = "exec"
      BY <1>1, <1>2, <2>1, <2>2 DEF HostNextStage, NextStage, Stages
    <2> QED
      BY <1>1, <1>2, <1>4, <1>7, <2>2, <2>3, <2>4, SizeTypes DEF Phases, HostLength, Stages
  <1> QED BY <1>1, <1>5, <1>6, <1>7

\* The numbers of a call are natural numbers.
LEMMA CallNumbers ==
    ASSUME Sync
    PROVE  call.len \in Nat /\ call.len <= MaxLen /\ call.addr \in Nat /\ hrem \in Nat
  <1>1. call.len \in 0..MaxLen /\ call.addr \in Addr /\ hrem \in Nat
    BY DEF Sync, TypeOK
  <1> QED BY <1>1, SizeTypes DEF Addr

\* The bytes moved so far, during a read or a write.
LEMMA MovedType ==
    ASSUME LengthsFitInt, Sync, hstage \in Stages, call.kind \in {"read", "write"}
    PROVE  /\ Moved \in Nat /\ Moved <= call.len
           /\ hstage = "payload" /\ hphase = "data" =>
                 Moved = call.len - hrem /\ hrem \in Nat /\ hrem <= call.len
           /\ call.len \in Nat /\ call.addr \in Nat
  <1>1. call.len \in Nat /\ call.addr \in Nat /\ hrem \in Nat
    BY CallNumbers
  <1>2. hstage = "payload" /\ hphase = "data" => hrem <= call.len
    <2>1. HostLength(call, "payload", "data") = Size(call, "payload")
      BY AsIntIdentity DEF HostLength, Stages, Sync
    <2>2. Size(call, "payload") = call.len
      BY DEF Size
    <2> QED BY <2>1, <2>2 DEF Sync, RemBounded
  <1> QED BY <1>1, <1>2 DEF Moved, Stages

LEMMA MovedOut ==
    ASSUME LengthsFitInt, Sync, NEW n \in 1..hrem, OutTransfer(n),
           call.kind \in {"read", "write"}
    PROVE  Moved' = IF hstage = "payload" /\ hphase = "data" THEN Moved + n ELSE Moved
  <1>1. /\ call' = call /\ hstage \in Stages /\ call.len \in Nat
        /\ hrem \in Nat /\ n \in Nat
    BY CallNumbers DEF OutTransfer
  <1>2. HostLength(call, "payload", "data") = call.len
    BY AsIntIdentity DEF HostLength, Stages, Sync, Size
  <1>3. hstage = "payload" /\ hphase = "awuc" => Moved' = 0
    BY <1>1, <1>2, OutSync DEF Moved, HostNextPhase, Phases
  <1>4. hstage = "payload" /\ hphase = "data" => Moved' = Moved + n
    BY <1>1, OutSync DEF Moved
  <1>5. hphase \in {"awuc", "data"}
    BY DEF OutTransfer, HostSends
  <1> QED BY <1>1, <1>3, <1>4, <1>5, OutSync DEF Moved, Stages

LEMMA MovedIn ==
    ASSUME LengthsFitInt, Sync, NEW n \in 1..hrem, InTransfer(n),
           call.kind \in {"read", "write"}, hstage' \in Stages
    PROVE  Moved' = IF hstage = "payload" /\ hphase = "data" THEN Moved + n ELSE Moved
  <1>1. /\ call' = call /\ hstage \in Stages /\ call.len \in Nat
        /\ hrem \in Nat /\ n \in Nat
    BY CallNumbers DEF InTransfer
  <1>2. hstage = "payload" /\ hphase = "data" => Moved' = Moved + n
    BY <1>1, InSync DEF Moved
  <1>3. hstage = "request" => hphase = "awus"
    BY InSync DEF InTransfer, HostSends, Direction
  <1>4. ASSUME hphase = "awus" PROVE Moved' = Moved
    <2>1. CASE hstage' = hstage /\ hphase' = hphase
      BY <1>1, <1>4, <2>1 DEF Moved
    <2>2. CASE hstage' = HostNextStage(call, hstage, "awus") /\ hphase' = "awuc"
      <3>1. hstage = "request" => hstage' = "payload"
        BY <2>2 DEF HostNextStage, NextStage
      <3>2. hstage # "request" => hstage = "payload" /\ hstage' = "status"
        BY <1>1, <2>2 DEF HostNextStage, NextStage, Stages
      <3> QED BY <1>1, <1>4, <2>2, <3>1, <3>2 DEF Moved
    <2> QED BY <1>4, <2>1, <2>2, InSync
  <1>5. hstage = "status" => Moved' = Moved
    BY <1>1, InSync DEF Moved, HostNextStage, NextStage, Stages
  <1> QED BY <1>1, <1>2, <1>3, <1>4, <1>5, InSync DEF Stages

-----------------------------------------------------------------------------
(* The inductive step, action by action.                                   *)

LEMMA InitInv == ASSUME LengthsFitInt, Init PROVE Inv
  <1>1. /\ call.kind = "none" /\ call.addr = 0 /\ call.len = 0 /\ call.progress = FALSE
        /\ usb.dir = "none" /\ usb.len = 0
        /\ req.kind = "none" /\ req.addr = 0 /\ req.len = 0
    BY DEF Init, NoCall, Request, NoUsb, NoReq
  <1>2. /\ call.progress \in BOOLEAN /\ (call.progress => call.kind = "write")
        /\ armed \in BOOLEAN
    BY <1>1 DEF Init
  <1>3. mem \in [Addr -> Val] /\ snap \in [Addr -> Val] /\ rbuf \in [Addr -> Val \cup {NoByte}]
    BY DEF Init, NoBytes
  <1>4. TypeOK
    BY <1>1, <1>2, <1>3, SizeTypes DEF Init, TypeOK, Addr, Stages, Phases
  <1> QED
    BY <1>4 DEF Init, Inv, Sync, InStep, ResponseIsAWUS, RemBounded, PayloadExact,
       ProgressExact, Stages

LEMMA OutInv ==
    ASSUME LengthsFitInt, Inv, NEW n \in 1..hrem, OutTransfer(n) PROVE Inv'
  <1> USE DEF Inv
  <1>1. /\ Sync /\ call' = call /\ rbuf' = rbuf /\ snap' = snap
        /\ hstage \in Stages /\ n \in Nat
    BY DEF OutTransfer
  <1>2. call.kind \in {"read", "write"} =>
           /\ Moved \in Nat /\ Moved' \in Nat /\ Moved <= call.len /\ Moved' <= call.len
           /\ Moved' = IF hstage = "payload" /\ hphase = "data" THEN Moved + n ELSE Moved
    <2>1. HostLength(call, "payload", "data") = call.len \/ call.kind = "version"
      BY AsIntIdentity DEF HostLength, Stages, Sync, Size
    <2> QED BY <1>1, MovedType, MovedOut
  <1>3. mem' = IF call.kind = "write" THEN Overlay(snap, call, Moved') ELSE snap
    <2>1. CASE hstage = "payload" /\ hphase = "data"
      <3>1. /\ call.kind = "write" /\ Storing
            /\ req = [kind |-> call.kind, addr |-> call.addr, len |-> call.len]
            /\ BromPos = HostPos /\ mem' = Stored(n)
        BY <1>1, <2>1 DEF OutTransfer, HostSends, Direction, Sync, InStep, Storing,
           BromPos, HostPos
      <3>2. /\ HostPos = call.addr + Moved /\ call.addr \in Nat
            /\ Moved \in Nat /\ Moved' = Moved + n
        BY <1>1, <1>2, <2>1, <3>1, MovedType DEF HostPos
      <3>3. mem = Overlay(snap, call, Moved)
        BY <1>1, <3>1 DEF PayloadExact
      <3> DEFINE p == call.addr + Moved
      <3>4. mem' = [a \in Addr |-> IF a \in p .. (p + n - 1) THEN call.data[a] ELSE mem[a]]
        <4>1. \A a \in Addr : a \in p .. (p + n - 1) => p + (a - p) = a
          BY <3>2 DEF Addr
        <4> QED BY <2>1, <3>1, <3>2, <4>1 DEF Stored
      <3>5. ASSUME NEW a \in Addr PROVE mem'[a] = Overlay(snap, call, Moved + n)[a]
        <4>1. a \in Int /\ n \in Nat
          BY SizeTypes, <1>1 DEF Addr
        <4>2. mem[a] = IF a \in call.addr .. (p - 1) THEN call.data[a] ELSE snap[a]
          <5>1. Overlay(snap, call, Moved)[a] =
                   IF a \in call.addr .. (p - 1) THEN call.data[a] ELSE snap[a]
            BY <3>2, <4>1 DEF Overlay
          <5> QED BY <3>3, <5>1, Zenon
        <4>3. mem'[a] = IF a \in p .. (p + n - 1) THEN call.data[a] ELSE mem[a]
          BY <3>4
        <4>4. a \in call.addr .. (p + n - 1) <=>
                 a \in call.addr .. (p - 1) \/ a \in p .. (p + n - 1)
          BY <3>2, <4>1
        <4>5. Overlay(snap, call, Moved + n)[a] =
                 IF a \in call.addr .. (p + n - 1) THEN call.data[a] ELSE snap[a]
          BY <3>2, <4>1 DEF Overlay
        <4> QED BY <4>2, <4>3, <4>4, <4>5
      <3>6. mem' = Overlay(snap, call, Moved + n)
        BY <3>4, <3>5 DEF Overlay
      <3> QED BY <3>1, <3>2, <3>6
    <2>2. CASE ~(hstage = "payload" /\ hphase = "data")
      <3>1. mem' = mem
        BY <1>1, <2>2 DEF OutTransfer, Storing, Sync, InStep
      <3> QED BY <1>1, <1>2, <2>2, <3>1 DEF PayloadExact
    <2> QED BY <2>1, <2>2
  <1>4. call.kind = "read" => rbuf' = Contents(mem', call, Moved')
    <2>1. SUFFICES ASSUME call.kind = "read" PROVE rbuf' = Contents(mem', call, Moved')
      OBVIOUS
    <2>2. ~(hstage = "payload" /\ hphase = "data")
      BY <2>1 DEF OutTransfer, HostSends, Direction
    <2>3. Moved' = Moved /\ mem' = mem
      BY <1>1, <1>2, <1>3, <2>1, <2>2 DEF PayloadExact
    <2> QED BY <1>1, <2>1, <2>3 DEF PayloadExact
  <1>5. reported' = IF call.progress THEN Moved' ELSE 0
    <2>1. call.progress => call.kind = "write"
      BY DEF Sync, TypeOK
    <2> QED BY <1>1, <1>2, <2>1 DEF ProgressExact, OutTransfer, ReportProgress, Sync, TypeOK
  <1>6. mem' \in [Addr -> Val]
    <2>1. call.kind = "write" => call.data \in [call.addr .. (call.addr + call.len - 1) -> Val]
      BY DEF Sync, TypeOK
    <2>2. call.addr \in Nat /\ call.len \in Nat
      BY CallNumbers
    <2>3. snap \in [Addr -> Val]
      BY DEF Sync, TypeOK
    <2>4. ASSUME call.kind = "write", NEW a \in Addr PROVE Overlay(snap, call, Moved')[a] \in Val
      <3> DEFINE last == call.addr + Moved' - 1
      <3>1. Overlay(snap, call, Moved')[a] = IF a \in call.addr .. last THEN call.data[a] ELSE snap[a]
        BY DEF Overlay
      <3>2. a \in call.addr .. last => a \in call.addr .. (call.addr + call.len - 1)
        BY <1>2, <2>2, <2>4
      <3>3. a \in call.addr .. (call.addr + call.len - 1) => call.data[a] \in Val
        BY <2>1, <2>4
      <3>4. snap[a] \in Val
        BY <2>3
      <3> QED BY <3>1, <3>2, <3>3, <3>4, Zenon
    <2> QED BY <1>3, <2>3, <2>4 DEF Overlay
  <1>7. reported' \in 0..MaxLen
    BY <1>2, <1>5, SizeTypes DEF Sync, TypeOK
  <1>8. usb'.dir \in {"in", "out", "none"} /\ usb'.len \in Nat
    BY <1>1, AsIntIdentity DEF OutTransfer, Sync, TypeOK, Direction, NoUsb
  <1>9. req'.kind \in Kinds \cup {"none"} /\ req'.addr \in Addr /\ req'.len \in 0..MaxLen
    BY SizeTypes DEF OutTransfer, Sync, TypeOK, NoReq, Addr
  <1>10. TypeOK'
    BY <1>1, <1>6, <1>7, <1>8, <1>9, OutSync DEF Sync, TypeOK
  <1>11. InStep' /\ RemBounded' /\ ResponseIsAWUS'
    BY <1>1, OutSync DEF InStep, RemBounded, ResponseIsAWUS, Stages
  <1> QED
    BY <1>1, <1>3, <1>4, <1>5, <1>10, <1>11, OutSync DEF Sync, PayloadExact, ProgressExact

LEMMA InInv ==
    ASSUME LengthsFitInt, Inv, NEW n \in 1..hrem, InTransfer(n) PROVE Inv'
  <1> USE DEF Inv
  <1>1. /\ Sync /\ call' = call /\ mem' = mem /\ usb' = usb /\ req' = req
        /\ reported' = reported /\ hstage \in Stages /\ n \in Nat
        /\ snap' = IF hstage' \in Stages THEN snap ELSE mem
    BY DEF InTransfer
  <1>2. hstage' \in Stages => snap' = snap
    BY <1>1
  <1>3. call.kind \in {"read", "write"} =>
           /\ Moved \in Nat /\ call.addr \in Nat
           /\ hstage' \in Stages =>
                 Moved' = IF hstage = "payload" /\ hphase = "data" THEN Moved + n ELSE Moved
    BY <1>1, MovedType, MovedIn
  <1>4. call.kind = "write" => ~(hstage = "payload" /\ hphase = "data")
    BY DEF InTransfer, HostSends, Direction
  <1>5. mem' = IF hstage' \in Stages /\ call.kind = "write"
               THEN Overlay(snap', call, Moved') ELSE snap'
    BY <1>1, <1>2, <1>3, <1>4 DEF PayloadExact
  <1>6. ASSUME hstage' \in Stages, call.kind = "read"
        PROVE  rbuf' = Contents(mem, call, Moved')
    <2>1. rbuf = Contents(mem, call, Moved)
      BY <1>1, <1>6 DEF PayloadExact
    <2>2. CASE hstage = "payload" /\ hphase = "data"
      <3>1. /\ Reading /\ bstage = "payload" /\ bphase = "data"
            /\ BromPos = HostPos /\ rbuf' = Received(n)
            /\ HostPos = call.addr + Moved
        BY <1>1, <1>3, <1>6, <2>2, MovedType DEF InTransfer, Sync, InStep, Reading,
           BromPos, HostPos
      <3> DEFINE p == call.addr + Moved
      <3>2. /\ p \in Nat /\ Moved \in Nat /\ call.addr \in Nat /\ n \in Nat
            /\ Moved' = Moved + n
        BY <1>1, <1>3, <1>6, <2>2
      <3>3. rbuf' = [a \in Addr |-> IF a \in p .. (p + n - 1) THEN mem[a] ELSE rbuf[a]]
        <4>1. \A a \in Addr : a \in p .. (p + n - 1) => p + (a - p) = a
          BY <3>2 DEF Addr
        <4> QED BY <3>1, <4>1 DEF Received
      <3>4. \A a \in Addr : rbuf'[a] = Contents(mem, call, Moved + n)[a]
        BY <2>1, <3>2, <3>3 DEF Contents, Addr
      <3> QED BY <3>2, <3>3, <3>4 DEF Contents
    <2>3. CASE ~(hstage = "payload" /\ hphase = "data")
      BY <1>3, <1>6, <2>1, <2>3 DEF InTransfer, Reading
    <2> QED BY <2>2, <2>3
  <1>7. hstage' \in Stages => reported = IF call.progress THEN Moved' ELSE 0
    <2>1. call.progress \in BOOLEAN /\ (call.progress => call.kind = "write")
      BY DEF Sync, TypeOK
    <2> QED BY <1>1, <1>3, <1>4, <2>1 DEF ProgressExact
  <1>8. rbuf' \in [Addr -> Val \cup {NoByte}]
    <2>1. rbuf \in [Addr -> Val \cup {NoByte}] /\ mem \in [Addr -> Val]
      BY DEF Sync, TypeOK
    <2>2. CASE ~Reading
      BY <2>1, <2>2 DEF InTransfer
    <2>3. CASE Reading
      <3>1. /\ bstage = "payload" /\ bphase = "data" /\ BromPos = HostPos
            /\ rbuf' = Received(n)
        BY <2>3 DEF InTransfer, Sync, InStep, Reading, Stages, BromPos, HostPos
      <3>2. HostPos \in Int
        BY CallNumbers DEF HostPos
      <3>3. \A a \in Addr : HostPos + (a - HostPos) = a
        BY <3>2 DEF Addr
      <3> QED BY <2>1, <3>1, <3>3 DEF Received
    <2> QED BY <2>2, <2>3
  <1>9. snap' \in [Addr -> Val]
    BY <1>1 DEF Sync, TypeOK
  <1>10. TypeOK'
    BY <1>1, <1>8, <1>9, InSync DEF Sync, TypeOK
  <1>11. InStep' /\ RemBounded' /\ ResponseIsAWUS'
    BY <1>1, InSync DEF InStep, RemBounded, ResponseIsAWUS, Stages
  <1> QED
    BY <1>1, <1>5, <1>6, <1>7, <1>10, <1>11 DEF Sync, PayloadExact, ProgressExact

\* What a caller may pass to the library.
LEMMA CallTypes ==
    ASSUME NEW c,
           \/ c \in VersionCalls \cup ReadCalls \cup ExecCalls
           \/ \E a \in Addr, l \in 1..MaxLen : c \in WriteCalls(a, l)
    PROVE  /\ c.kind \in Kinds /\ c.addr \in Addr /\ c.len \in 0..MaxLen
           /\ c.kind = "write" =>
                 c.len > 0 /\ c.data \in [c.addr .. (c.addr + c.len - 1) -> Val]
           /\ c.progress \in BOOLEAN /\ (c.progress => c.kind = "write")
  <1>1. CASE c \in VersionCalls \cup ReadCalls \cup ExecCalls
    <2>1. /\ c.kind \in {"version", "read", "exec"} /\ c.addr \in Addr /\ c.len \in 0..MaxLen
          /\ c.progress = FALSE
      <3>1. ASSUME c \in ReadCalls
            PROVE  c.kind = "read" /\ c.addr \in Addr /\ c.len \in 0..MaxLen /\ c.progress = FALSE
        BY <3>1 DEF ReadCalls, Request
      <3>2. ASSUME c \in ExecCalls
            PROVE  c.kind = "exec" /\ c.addr \in Addr /\ c.len = 0 /\ c.progress = FALSE
        BY <3>2 DEF ExecCalls, Request
      <3>3. ASSUME c \in VersionCalls
            PROVE  c.kind = "version" /\ c.addr = 0 /\ c.len = 0 /\ c.progress = FALSE
        BY <3>3 DEF VersionCalls, Request
      <3>4. 0 \in Addr /\ 0 \in 0..MaxLen
        BY SizeTypes DEF Addr
      <3> QED BY <1>1, <3>1, <3>2, <3>3, <3>4
    <2> QED BY <2>1 DEF Kinds
  <1>2. ASSUME NEW a \in Addr, NEW l \in 1..MaxLen, c \in WriteCalls(a, l)
        PROVE  /\ c.kind = "write" /\ c.addr = a /\ c.len = l
               /\ c.data \in [a .. (a + l - 1) -> Val] /\ c.progress \in BOOLEAN
    BY <1>2 DEF WriteCalls, Request
  <1> QED BY <1>1, <1>2, SizeTypes DEF Kinds

LEMMA CallInv ==
    ASSUME LengthsFitInt, Inv, NEW c, Call(c),
           \/ c \in VersionCalls \cup ReadCalls \cup ExecCalls
           \/ \E a \in Addr, l \in 1..MaxLen : c \in WriteCalls(a, l)
    PROVE  Inv'
  <1> USE DEF Inv
  <1>1. /\ Sync /\ hstage = "idle" /\ call' = c /\ hstage' = "request" /\ hphase' = "awuc"
        /\ hrem' = UsbReqSize /\ rbuf' = NoBytes /\ reported' = 0
        /\ UNCHANGED <<usb, req, bstage, bphase, brem, mem, armed, snap>>
        /\ c.addr + c.len <= MaxAddr + 1
    BY DEF Call
  <1>2. rbuf' \in [Addr -> Val \cup {NoByte}]
    BY <1>1 DEF NoBytes
  <1>3. TypeOK'
    BY <1>1, <1>2, CallTypes, SizeTypes DEF Sync, TypeOK, Stages, Phases
  <1>4. InStep' /\ RemBounded' /\ ResponseIsAWUS'
    BY <1>1, SizeTypes DEF Sync, InStep, RemBounded, ResponseIsAWUS, Stages, HostLength
  <1>5. Moved' = 0
    BY <1>1 DEF Moved
  <1>6. mem = snap /\ "idle" \notin Stages
    BY <1>1 DEF PayloadExact, Stages
  <1>7. c.addr \in Nat
    BY CallTypes, SizeTypes DEF Addr
  <1>8. Overlay(snap, c, 0) = snap /\ Contents(mem, c, 0) = NoBytes
    <2>1. snap \in [Addr -> Val]
      BY DEF Sync, TypeOK
    <2>2. \A a \in Addr : a \notin c.addr .. (c.addr + 0 - 1)
      BY <1>7 DEF Addr
    <2> QED BY <2>1, <2>2 DEF Overlay, Contents, NoBytes
  <1>9. PayloadExact'
    BY <1>1, <1>5, <1>6, <1>8 DEF PayloadExact
  <1>10. ProgressExact'
    BY <1>1, <1>5 DEF ProgressExact
  <1> QED BY <1>3, <1>4, <1>9, <1>10 DEF Sync

LEMMA ErrorInv == ASSUME LengthsFitInt, Inv, UsbError PROVE Inv'
  <1>1. TypeOK'
    BY DEF Inv, Sync, TypeOK, UsbError
  <1> QED
    BY <1>1 DEF Inv, Sync, TypeOK, InStep, ResponseIsAWUS, RemBounded, PayloadExact,
       ProgressExact, UsbError, Stages

LEMMA CodeInv == ASSUME LengthsFitInt, Inv, CodeReturns PROVE Inv'
  <1> USE DEF Inv
  <1>1. TypeOK'
    BY DEF Sync, TypeOK, CodeReturns
  <1>2. InStep' /\ RemBounded' /\ ResponseIsAWUS' /\ ProgressExact'
    BY DEF Sync, InStep, ResponseIsAWUS, RemBounded, ProgressExact, Moved, CodeReturns
  <1>3. ASSUME hstage \in Stages, call.kind \in {"read", "write"} PROVE Moved = 0
    BY <1>3 DEF CodeReturns, Sync, InStep, Moved
  <1>4. PayloadExact'
    <2>1. Moved' = Moved /\ call' = call /\ hstage' = hstage /\ rbuf' = rbuf /\ snap' = mem'
          /\ mem' \in [Addr -> Val]
      BY DEF CodeReturns, Moved
    <2>2. call.addr \in Nat
      BY SizeTypes DEF Sync, TypeOK, Addr
    <2>3. \A a \in Addr : a \notin call.addr .. (call.addr + 0 - 1)
      BY <2>2 DEF Addr
    <2>4. Overlay(mem', call, 0) = mem' /\ Contents(mem', call, 0) = Contents(mem, call, 0)
      BY <2>1, <2>3 DEF Overlay, Contents
    <2> QED BY <1>3, <2>1, <2>4 DEF PayloadExact
  <1> QED BY <1>1, <1>2, <1>4 DEF Sync

LEMMA StutterInv == ASSUME Inv, UNCHANGED vars PROVE Inv'
  BY DEF Inv, Sync, TypeOK, InStep, ResponseIsAWUS, RemBounded, PayloadExact,
     ProgressExact, Moved, vars

LEMMA InvStep == ASSUME LengthsFitInt, Inv, [Next]_vars PROVE Inv'
  <1>1. CASE aw_fel_get_version \/ aw_fel_read \/ aw_fel_execute
    BY <1>1, CallInv DEF aw_fel_get_version, aw_fel_read, aw_fel_execute
  <1>2. CASE aw_fel_write
    <2>1. PICK a \in Addr, l \in 0..MaxLen : l # 0 /\ \E c \in WriteCalls(a, l) : Call(c)
      BY <1>2 DEF aw_fel_write
    <2>2. PICK c \in WriteCalls(a, l) : Call(c)
      BY <2>1
    <2>3. l \in 1..MaxLen
      BY <2>1, SizeTypes
    <2> QED BY <2>2, <2>3, CallInv
  <1>3. CASE Transfer
    BY <1>3, OutInv, InInv DEF Transfer
  <1>4. CASE UsbError
    BY <1>4, ErrorInv
  <1>5. CASE CodeReturns
    BY <1>5, CodeInv
  <1>6. CASE UNCHANGED vars
    BY <1>6, StutterInv
  <1> QED BY <1>1, <1>2, <1>3, <1>4, <1>5, <1>6 DEF Next

-----------------------------------------------------------------------------
(* The results.                                                            *)

\* For every memory and every message and chunk size, all parts of the
\* invariant hold in every reachable state of the transport, provided the
\* lengths callers ask for fit into an int.
THEOREM Invariance == ASSUME LengthsFitInt PROVE Spec => []Inv
  <1>1. Init => Inv
    BY InitInv
  <1>2. Inv /\ [Next]_vars => Inv'
    BY InvStep
  <1> QED BY <1>1, <1>2, PTL DEF Spec

\* The types of the state of fel_lib.c's bulk loops and of the boot ROM.
THEOREM TypeCorrect == ASSUME LengthsFitInt PROVE Spec => []TypeOK
  <1>1. Inv => TypeOK
    BY DEF Inv, Sync
  <1> QED BY <1>1, Invariance, PTL

\* The tool and the boot ROM never disagree on where they are in the protocol.
THEOREM StaysInStep == ASSUME LengthsFitInt PROVE Spec => []InStep
  <1>1. Inv => InStep
    BY DEF Inv, Sync
  <1> QED BY <1>1, Invariance, PTL

\* The assertion in aw_read_usb_response() holds.
THEOREM AssertionHolds == ASSUME LengthsFitInt PROVE Spec => []ResponseIsAWUS
  <1>1. Inv => ResponseIsAWUS
    BY DEF Inv, Sync
  <1> QED BY <1>1, Invariance, PTL

\* Data arrives at its own address, whatever the sizes of the partial transfers.
THEOREM PayloadIsExact == ASSUME LengthsFitInt PROVE Spec => []PayloadExact
  <1>1. Inv => PayloadExact
    BY DEF Inv
  <1> QED BY <1>1, Invariance, PTL

\* Exactly the payload of a write that asked for it is reported as progress.
THEOREM ProgressIsExact == ASSUME LengthsFitInt PROVE Spec => []ProgressExact
  <1>1. Inv => ProgressExact
    BY DEF Inv
  <1> QED BY <1>1, Invariance, PTL

-----------------------------------------------------------------------------
(* Implementation of FelMem.                                               *)

\* What the refinement needs to know of a call in progress besides Inv.
CallSound ==
    hstage \in Stages =>
        /\ call.kind \in Kinds
        /\ call.kind = "exec" => hstage # "payload"
        /\ call.kind # "read" => rbuf = NoBytes

LEMMA CallSoundStep ==
    ASSUME LengthsFitInt, Inv, CallSound, [Next]_vars PROVE CallSound'
  <1> USE DEF CallSound
  <1>1. ASSUME NEW c, Call(c),
               \/ c \in VersionCalls \cup ReadCalls \cup ExecCalls
               \/ \E a \in Addr, l \in 1..MaxLen : c \in WriteCalls(a, l)
        PROVE  CallSound'
    BY <1>1, CallTypes DEF Call
  <1>2. CASE aw_fel_get_version \/ aw_fel_read \/ aw_fel_execute
    BY <1>1, <1>2 DEF aw_fel_get_version, aw_fel_read, aw_fel_execute
  <1>3. CASE aw_fel_write
    <2>1. PICK a \in Addr, l \in 0..MaxLen : l # 0 /\ \E c \in WriteCalls(a, l) : Call(c)
      BY <1>3 DEF aw_fel_write
    <2>2. PICK c \in WriteCalls(a, l) : Call(c)
      BY <2>1
    <2>3. l \in 1..MaxLen
      BY <2>1, SizeTypes
    <2> QED BY <1>1, <2>2, <2>3
  <1>4. ASSUME NEW n \in 1..hrem, OutTransfer(n) PROVE CallSound'
    <2>1. hstage' = hstage /\ hstage \in Stages /\ call' = call /\ rbuf' = rbuf
      BY <1>4, OutSync DEF Inv, OutTransfer
    <2> QED BY <2>1
  <1>5. ASSUME NEW n \in 1..hrem, InTransfer(n) PROVE CallSound'
    <2>1. hstage \in Stages /\ call' = call /\ (call.kind # "read" => rbuf' = rbuf)
      BY <1>5 DEF InTransfer, Reading
    <2>2. \/ hstage' = hstage
          \/ hstage' = HostNextStage(call, hstage, "awus")
      BY <1>5, InSync DEF Inv
    <2> QED BY <2>1, <2>2 DEF HostNextStage, NextStage, Stages
  <1>6. CASE Transfer
    BY <1>4, <1>5, <1>6 DEF Transfer
  <1>7. CASE UsbError \/ CodeReturns \/ UNCHANGED vars
    BY <1>7 DEF UsbError, CodeReturns, vars, Stages
  <1> QED BY <1>2, <1>3, <1>6, <1>7 DEF Next

LEMMA RefineInit == ASSUME Init PROVE FM!Init
  BY DEF Init, FM!Init, AbsCall, AbsRbuf, NoCall, FM!NoCall, Request, FM!Request,
     Empty, FM!Empty, NoBytes, FM!NoBytes, Addr, FM!Addr

LEMMA RefineCall ==
    ASSUME LengthsFitInt, Inv, NEW c, Call(c),
           \/ c \in VersionCalls \cup ReadCalls \cup ExecCalls
           \/ \E a \in Addr, l \in 1..MaxLen : c \in WriteCalls(a, l)
    PROVE  FM!Begin
  <1>1. AbsCall = NoCall /\ AbsCall' = c /\ AbsRbuf' = NoBytes
        /\ snap' = snap /\ armed' = armed /\ c.addr + c.len <= MaxAddr + 1
    BY DEF Call, AbsCall, AbsRbuf
  <1> QED
    BY <1>1 DEF FM!Begin, FM!NoCall, NoCall, FM!VersionCalls, VersionCalls, FM!ReadCalls,
       ReadCalls, FM!ExecCalls, ExecCalls, FM!WriteCalls, WriteCalls, FM!Request, Request,
       FM!Empty, Empty, FM!NoBytes, NoBytes, FM!Addr, Addr

LEMMA RefineOut ==
    ASSUME LengthsFitInt, Inv, NEW n \in 1..hrem, OutTransfer(n)
    PROVE  UNCHANGED FM!vars
  <1>1. /\ hstage' = hstage /\ hstage \in Stages /\ armed' = armed
        /\ call' = call /\ snap' = snap
    BY OutSync DEF Inv, OutTransfer
  <1> QED BY <1>1 DEF FM!vars, AbsCall, AbsRbuf, Stages

\* An IN transfer that does not end a transaction is not visible to the caller;
\* the response that ends the first transaction of an exec request is FelMem's
\* Arm, and the response that ends the last one is the end of the call.
LEMMA RefineIn ==
    ASSUME LengthsFitInt, Inv, CallSound, NEW n \in 1..hrem, InTransfer(n)
    PROVE  FM!Next \/ UNCHANGED FM!vars
  <1>1. /\ hstage \in Stages /\ call' = call /\ mem' = mem /\ Sync
        /\ snap' = IF hstage' \in Stages THEN snap ELSE mem
        /\ armed \in BOOLEAN
    BY DEF InTransfer, Inv, Sync, TypeOK
  <1>2. call.kind \in Kinds /\ (call.kind = "exec" => hstage # "payload")
    BY <1>1 DEF CallSound
  <1>3. hphase = "awus" =>
           req = [kind |-> call.kind, addr |-> call.addr, len |-> call.len]
    BY <1>1 DEF Sync, InStep
  <1>4. \/ hstage' = hstage /\ armed' = armed
        \/ /\ hstage' = HostNextStage(call, hstage, "awus")
           /\ armed' = (armed \/ (hstage = "request" /\ call.kind = "exec"))
    <2>1. HostAdvance(n) /\ BromAdvance(n) /\ bstage = hstage /\ bphase = hphase
          /\ brem = hrem /\ n \in Nat /\ hrem \in Nat /\ n <= hrem
          /\ hphase \in {"data", "awus"}
      BY <1>1, InSync DEF InTransfer, Sync, InStep, TypeOK
    <2>2. CASE n < hrem
      BY <2>1, <2>2 DEF HostAdvance, BromAdvance
    <2>3. CASE n = hrem /\ hphase = "data"
      BY <1>1, <2>1, <2>3 DEF HostAdvance, BromAdvance, HostNextStage
    <2>4. CASE n = hrem /\ hphase = "awus"
      BY <1>3, <2>1, <2>4 DEF HostAdvance, BromAdvance
    <2> QED BY <2>1, <2>2, <2>3, <2>4
  <1>5. CASE hstage' = hstage /\ armed' = armed
    BY <1>1, <1>5 DEF FM!vars, AbsCall, AbsRbuf, Stages
  <1>6. CASE /\ hstage' = HostNextStage(call, hstage, "awus")
             /\ armed' = (armed \/ (hstage = "request" /\ call.kind = "exec"))
    <2>1. CASE hstage = "request" /\ call.kind = "exec"
      <3>1. hstage' = "status" /\ hphase \in {"data", "awus"}
        BY <1>6, <2>1, InSync DEF HostNextStage, NextStage, Inv
      <3>2. ~armed /\ armed'
        BY <1>1, <1>6, <2>1, <3>1, InSync DEF Inv
      <3>3. AbsCall = call /\ AbsCall' = Request("acked", 0, 0, Empty, FALSE)
            /\ AbsRbuf' = AbsRbuf /\ snap' = snap
        BY <1>1, <2>1, <3>1 DEF AbsCall, AbsRbuf, Stages
      <3>4. FM!Arm
        BY <2>1, <3>2, <3>3 DEF FM!Arm, FM!Acked, FM!Request, Request, FM!Empty, Empty
      <3> QED BY <3>4 DEF FM!Next
    <2>2. CASE hstage = "request" /\ call.kind # "exec"
      <3>1. hstage' = "payload" /\ armed' = armed
        BY <1>1, <1>6, <2>2 DEF HostNextStage, NextStage
      <3> QED BY <1>1, <2>2, <3>1 DEF FM!vars, AbsCall, AbsRbuf, Stages
    <2>3. CASE hstage = "payload"
      <3>1. hstage' = "status" /\ armed' = armed /\ call.kind # "exec"
        BY <1>1, <1>2, <1>6, <2>3 DEF HostNextStage, NextStage
      <3> QED BY <1>1, <2>3, <3>1 DEF FM!vars, AbsCall, AbsRbuf, Stages
    <2>4. CASE hstage = "status"
      <3>1. /\ hstage' = "idle" /\ armed' = armed /\ snap' = mem
            /\ AbsCall' = NoCall /\ AbsRbuf = NoBytes /\ AbsRbuf' = rbuf /\ rbuf' = rbuf
        BY <1>1, <1>6, <2>4 DEF HostNextStage, NextStage, Stages, AbsCall, AbsRbuf,
           InTransfer, Reading
      <3>2. armed => call.kind = "exec"
        BY <2>4, InSync DEF Inv
      <3>3. NoCall = FM!NoCall
        BY DEF NoCall, FM!NoCall, Request, FM!Request, Empty, FM!Empty
      <3>4. Moved = call.len
        BY <2>4 DEF Moved
      <3>5. CASE call.kind = "exec"
        <4>1. AbsCall = Request("acked", 0, 0, Empty, FALSE) /\ mem = snap /\ rbuf = NoBytes
          BY <1>1, <2>4, <3>5 DEF AbsCall, Inv, PayloadExact, CallSound
        <4>2. FM!EndExec
          BY <3>1, <3>3, <4>1 DEF FM!EndExec, FM!Acked, FM!Request, Request, FM!Empty, Empty
        <4> QED BY <4>2 DEF FM!Next
      <3>6. CASE call.kind = "version"
        <4>1. AbsCall = call /\ mem = snap /\ rbuf = NoBytes
          BY <1>1, <2>4, <3>6 DEF AbsCall, Inv, PayloadExact, CallSound, Stages
        <4>2. FM!EndVersion
          BY <3>1, <3>2, <3>3, <3>6, <4>1 DEF FM!EndVersion
        <4> QED BY <4>2 DEF FM!Next
      <3>7. CASE call.kind = "write"
        <4>1. AbsCall = call /\ mem = Overlay(snap, call, call.len) /\ rbuf = NoBytes
          BY <1>1, <2>4, <3>4, <3>7 DEF AbsCall, Inv, PayloadExact, CallSound, Stages
        <4>2. FM!EndWrite
          BY <3>1, <3>2, <3>3, <3>7, <4>1 DEF FM!EndWrite, FM!Overlay, Overlay, FM!Addr, Addr
        <4> QED BY <4>2 DEF FM!Next
      <3>8. CASE call.kind = "read"
        <4>1. AbsCall = call /\ mem = snap /\ rbuf = Contents(mem, call, call.len)
          BY <1>1, <2>4, <3>4, <3>8 DEF AbsCall, Inv, PayloadExact, CallSound, Stages
        <4>2. FM!EndRead
          BY <3>1, <3>2, <3>3, <3>8, <4>1 DEF FM!EndRead, FM!Contents, Contents, FM!Addr, Addr
        <4> QED BY <4>2 DEF FM!Next
      <3> QED BY <1>2, <3>5, <3>6, <3>7, <3>8 DEF Kinds
    <2> QED BY <1>1, <2>1, <2>2, <2>3, <2>4 DEF Stages
  <1> QED BY <1>4, <1>5, <1>6

LEMMA RefineError ==
    ASSUME LengthsFitInt, Inv, CallSound, UsbError PROVE FM!Fail
  <1>1. /\ hstage \in Stages /\ snap' = mem /\ armed' = armed
        /\ AbsCall' = FM!Dead /\ AbsRbuf' = AbsRbuf
    BY DEF UsbError, AbsCall, AbsRbuf, FM!Dead, Request, FM!Request, Empty, FM!Empty, Stages
  <1>2. call.kind \in Kinds
    BY <1>1 DEF CallSound
  <1>3. AbsCall.kind \in Kinds \cup {"acked"}
    BY <1>1, <1>2 DEF AbsCall, Request, Stages
  <1>4. AbsCall \notin {FM!NoCall, FM!Dead}
    BY <1>3 DEF FM!NoCall, FM!Dead, FM!Request, Kinds
  <1>5. CASE call.kind = "write"
    <2>1. AbsCall = call /\ mem = Overlay(snap, call, Moved)
      BY <1>1, <1>5 DEF AbsCall, Inv, PayloadExact, Stages
    <2>2. Moved \in Nat /\ Moved <= call.len /\ call.len \in Nat /\ call.addr \in Nat
      BY <1>1, <1>5, MovedType DEF Inv
    <2>3. CASE Moved = 0
      <3>1. \A a \in Addr : a \notin call.addr .. (call.addr + 0 - 1)
        BY <2>2 DEF Addr
      <3>2. mem = snap
        BY <2>1, <2>3, <3>1 DEF Overlay, Inv, Sync, TypeOK
      <3> QED BY <1>1, <1>4, <3>2 DEF FM!Fail
    <2>4. CASE Moved # 0
      <3>1. ~armed
        BY <1>1, <1>5, <2>4 DEF Inv, Sync, InStep, Moved
      <3>2. Moved \in 1..call.len
        BY <2>2, <2>4
      <3>3. mem = FM!Overlay(snap, call, Moved)
        BY <2>1 DEF FM!Overlay, Overlay, FM!Addr, Addr
      <3> QED BY <1>1, <1>4, <1>5, <2>1, <3>1, <3>2, <3>3 DEF FM!Fail
    <2> QED BY <2>3, <2>4
  <1>6. CASE call.kind # "write"
    <2>1. mem = snap
      BY <1>6 DEF Inv, PayloadExact
    <2> QED BY <1>1, <1>4, <2>1 DEF FM!Fail
  <1> QED BY <1>5, <1>6

LEMMA RefineCode == ASSUME CodeReturns PROVE FM!Run
  BY DEF CodeReturns, FM!Run, AbsCall, AbsRbuf, FM!Addr, Addr

\* Whatever partial transfers the USB stack makes, the library calls of
\* fel_lib.c behave like FelMem: each takes effect at once, or, when the tool
\* dies, a write has stored a prefix of its data and nothing else has changed.
THEOREM Implementation == ASSUME LengthsFitInt PROVE Spec => ImplementsFelMem
  <1>1. Init => FM!Init
    BY RefineInit
  <1>2. Inv /\ CallSound /\ [Next]_vars => [FM!Next]_(FM!vars)
    <2> SUFFICES ASSUME Inv, CallSound, [Next]_vars PROVE FM!Next \/ UNCHANGED FM!vars
      OBVIOUS
    <2>1. CASE aw_fel_get_version \/ aw_fel_read \/ aw_fel_execute
      BY <2>1, RefineCall DEF aw_fel_get_version, aw_fel_read, aw_fel_execute, FM!Next
    <2>2. CASE aw_fel_write
      <3>1. PICK a \in Addr, l \in 0..MaxLen : l # 0 /\ \E c \in WriteCalls(a, l) : Call(c)
        BY <2>2 DEF aw_fel_write
      <3>2. PICK c \in WriteCalls(a, l) : Call(c)
        BY <3>1
      <3>3. l \in 1..MaxLen
        BY <3>1, SizeTypes
      <3>4. FM!Begin
        BY <3>2, <3>3, RefineCall
      <3> QED BY <3>4 DEF FM!Next
    <2>3. CASE Transfer
      BY <2>3, RefineOut, RefineIn DEF Transfer
    <2>4. CASE UsbError
      BY <2>4, RefineError DEF FM!Next
    <2>5. CASE CodeReturns
      BY <2>5, RefineCode DEF FM!Next
    <2>6. CASE UNCHANGED vars
      BY <2>6 DEF vars, FM!vars, AbsCall, AbsRbuf
    <2> QED BY <2>1, <2>2, <2>3, <2>4, <2>5, <2>6 DEF Next
  <1>3. Init => CallSound
    BY DEF Init, CallSound, Stages
  <1>4. Inv /\ CallSound /\ [Next]_vars => CallSound'
    BY CallSoundStep
  <1> QED BY <1>1, <1>2, <1>3, <1>4, Invariance, PTL DEF Spec, FM!Spec, ImplementsFelMem

=============================================================================
