----------------------------- MODULE FelDevice -----------------------------
(***************************************************************************)
(* Which device sunxi-fel talks to: the options before the commands        *)
(* (main() of fel.c), the enumeration of FEL devices, and open, claim,     *)
(* release and close (fel_lib.c).                                          *)
(*                                                                         *)
(* A port stands for a pair of USB bus and device number, in the order of  *)
(* libusb's device list.  The bus changes while the tool runs: between two *)
(* looks at it a device can go, or another one can take over its numbers.  *)
(* A board is [fel, sid, busy, sid_base, rvbar, watchdog, spi]: whether    *)
(* its USB identifiers are those of FEL mode, its SID, whether another     *)
(* program has claimed its interface, and whether the tool knows the SID   *)
(* base, the RVBAR register, the watchdog and SPI0 of its SoC.             *)
(***************************************************************************)
EXTENDS Integers, Sequences, FiniteSetsExt, SequencesExt

CONSTANTS
    Ports,           \* a set of positive numbers
    Board,           \* [names of boards -> records as above]
    MaxBusChanges    \* bound: how often the bus changes

ASSUME PortsAssumption == Ports \subseteq Nat \ {0}

NoPort == -1
NoBoard == "(no board)"
NoSid == "(no sid)"
ZeroSid == "00000000:00000000:00000000:00000000"

VARIABLES
    pc,          \* where the tool is
    args,        \* the words left of the command line, argv[1] first
    opt,         \* busnum:devnum, sid_arg and the flags of main()
    bus,         \* [Ports -> a board or NoBoard]
    driver,      \* boards a kernel driver is attached to
    todo,        \* ports list_fel_devices() still has to open
    found,       \* what it has found: <<port, SID>> in order
    handle,      \* the open board, or NoBoard
    iface_detached,
    busChanges,
    driver0,     \* history: boards that had a driver when the tool started
    listed       \* history: bus changes when the enumeration began

devVars == <<opt, bus, driver, todo, found, handle, iface_detached,
             busChanges, driver0, listed>>

NoOptions == [dev |-> NoPort, sid |-> NoSid, list |-> FALSE, socs |-> FALSE,
              p |-> FALSE, v |-> FALSE]

\* A word of the command line: an option, a command, a file or a SID by its
\* name, a number or a "bus:devnum" by its value.  A word of kind "bare" is
\* an option written without its dashes.
Word(kind, name, num) == [kind |-> kind, name |-> name, num |-> num]

\* Options that may be written so.
Bare == {"--list", "--list-socs"}

\* usage() prints its text and exits with 0.
Exited == {"exit 0", "exit 1", "crashed", "usage"}
Exit(status) == pc' = status

DevInit(b, d, n) ==
    /\ opt = NoOptions /\ bus = b /\ driver = d /\ driver0 = d
    /\ todo = {} /\ found = <<>>
    /\ handle = NoBoard /\ iface_detached = FALSE
    /\ busChanges = n /\ listed = n

-----------------------------------------------------------------------------
(* Options come first; sscanf() of --dev wants two positive numbers.  Any  *)
(* other word ends them, and a later word with a dash ends the tool.       *)

HasOption(name) ==
    /\ pc = "options" /\ args # <<>> /\ args[1].name = name
    /\ args[1].kind = "opt" \/ (args[1].kind = "bare" /\ name \in Bare)

Flag(name, field) ==
    /\ HasOption(name)
    /\ opt' = [opt EXCEPT ![field] = TRUE]
    /\ args' = Tail(args)
    /\ UNCHANGED <<pc, bus, driver, todo, found, handle, iface_detached,
                   busChanges, driver0, listed>>

OptDev ==
    /\ HasOption("--dev")
    /\ IF Len(args) > 1 /\ args[2].kind = "port" /\ args[2].num > 0
       THEN /\ opt' = [opt EXCEPT !.dev = args[2].num]
            /\ args' = SubSeq(args, 3, Len(args))
            /\ UNCHANGED pc
       ELSE Exit("exit 1") /\ UNCHANGED <<opt, args>>
    /\ UNCHANGED <<bus, driver, todo, found, handle, iface_detached,
                   busChanges, driver0, listed>>

OptSid ==
    /\ HasOption("--sid") /\ Len(args) > 1
    /\ opt' = [opt EXCEPT !.sid = args[2].name]
    /\ args' = SubSeq(args, 3, Len(args))
    /\ UNCHANGED <<pc, bus, driver, todo, found, handle, iface_detached,
                   busChanges, driver0, listed>>

\* The tool was called without any argument.
NoArguments == args = <<>> /\ opt = NoOptions

Usage ==
    /\ pc = "options"
    /\ HasOption("--help") \/ NoArguments
    /\ Exit("usage")
    /\ UNCHANGED <<args, devVars>>

IsPrefixOption ==
    \/ \E o \in {"--help", "--verbose", "--progress", "--list", "--list-socs",
                "--dev"} : HasOption(o)
    \/ HasOption("--sid") /\ Len(args) > 1

OptEnd ==
    /\ pc = "options" /\ ~IsPrefixOption /\ ~NoArguments
    /\ pc' = IF \E i \in DOMAIN args : args[i].kind = "opt" THEN "exit 1"
             ELSE IF opt.list THEN "enumerate"
             ELSE IF opt.socs THEN "exit 0"
             ELSE IF opt.sid # NoSid THEN "enumerate" ELSE "open"
    /\ UNCHANGED <<args, devVars>>

-----------------------------------------------------------------------------
IsFel(b) == b # NoBoard /\ Board[b].fel

FelPorts(b) == {p \in Ports : IsFel(b[p])}

\* libusb_claim_interface() fails while a driver or another program has it.
\* feldev_claim() detaches the driver and tries once more.
Claimable(b) == ~Board[b].busy

feldev_claim(b) ==
    /\ driver' = driver \ {b}
    /\ iface_detached' = (b \in driver \/ ~Claimable(b))

feldev_release(b) ==
    driver' = IF iface_detached THEN driver \cup {b} ELSE driver

\* The boards feldev_open(busnum, devnum) may end up with: none, or one.
Candidates(port) ==
    IF port # NoPort THEN {bus[p] : p \in {q \in Ports : q = port}}
    ELSE IF FelPorts(bus) = {} THEN {} ELSE {bus[Min(FelPorts(bus))]}

Openable(port) == {b \in Candidates(port) : IsFel(b) /\ Claimable(b)}

\* A FEL board that cannot be claimed has lost its driver all the same.
Detached(port) == {b \in Candidates(port) : IsFel(b)}

\* What fel_read_sid() leaves in a zeroed buffer; it fails without a base.
fel_read_sid(b) == IF Board[b].sid_base THEN Board[b].sid ELSE ZeroSid

(***************************************************************************)
(* list_fel_devices(): the ports of all FEL devices are collected first;   *)
(* then each is looked up again, opened, asked for its SID and closed.  A  *)
(* device that cannot be opened ends the tool.                             *)
(***************************************************************************)
ListStart ==
    /\ pc = "enumerate"
    /\ todo' = FelPorts(bus)
    /\ listed' = busChanges /\ pc' = "listing"
    /\ UNCHANGED <<args, opt, bus, driver, found, handle, iface_detached,
                   busChanges, driver0>>

ListOpen ==
    /\ pc = "listing" /\ todo # {} /\ handle = NoBoard
    /\ IF Openable(Min(todo)) # {}
       THEN /\ handle' \in Openable(Min(todo)) /\ feldev_claim(handle')
            /\ UNCHANGED pc
       ELSE /\ Exit("exit 1") /\ driver' = driver \ Detached(Min(todo))
            /\ UNCHANGED <<handle, iface_detached>>
    /\ UNCHANGED <<args, opt, bus, todo, found, busChanges, driver0, listed>>

ListClose ==
    /\ pc = "listing" /\ handle # NoBoard
    /\ found' = Append(found, <<Min(todo), fel_read_sid(handle)>>)
    /\ todo' = todo \ {Min(todo)} /\ handle' = NoBoard
    /\ feldev_release(handle) /\ iface_detached' = FALSE
    /\ UNCHANGED <<pc, args, opt, bus, busChanges, driver0, listed>>

\* select_by_sid(): the first entry with that SID; without one busnum and
\* devnum stay what --dev made them.
select_by_sidFirst(sid, dev, l) == IF l = <<>> THEN dev ELSE l[1][1]
select_by_sid(sid, dev, l) ==
    LET i == SelectInSeq(l, LAMBDA e : e[2] = sid)
    IN  IF i = 0 THEN dev ELSE l[i][1]

ListEnd ==
    /\ pc = "listing" /\ todo = {} /\ handle = NoBoard
    /\ IF opt.list
       THEN /\ Exit(IF found # <<>> THEN "exit 0" ELSE "exit 1")
            /\ UNCHANGED opt
       ELSE /\ opt' = [opt EXCEPT !.dev = select_by_sid(opt.sid, @, found)]
            /\ pc' = IF opt'.dev <= 0 THEN "exit 1" ELSE "open"
    /\ UNCHANGED <<args, bus, driver, todo, found, handle, iface_detached,
                   busChanges, driver0, listed>>

\* feldev_open() of main().
Open ==
    /\ pc = "open"
    /\ IF Openable(opt.dev) # {}
       THEN /\ handle' \in Openable(opt.dev) /\ feldev_claim(handle')
            /\ pc' = "loop"
       ELSE /\ Exit("exit 1") /\ driver' = driver \ Detached(opt.dev)
            /\ UNCHANGED <<handle, iface_detached>>
    /\ UNCHANGED <<args, opt, bus, todo, found, busChanges, driver0, listed>>

\* feldev_done() at the end of main().
feldev_done ==
    /\ feldev_release(handle) /\ handle' = NoBoard
    /\ UNCHANGED <<opt, bus, todo, found, iface_detached, busChanges, driver0,
                   listed>>

\* The user plugs boards in and out while the tool looks for its device.
BusChange ==
    /\ pc \in {"options", "enumerate", "listing", "open"}
    /\ busChanges < MaxBusChanges
    /\ \E p \in Ports, b \in DOMAIN Board \cup {NoBoard} :
          /\ b # bus[p]
          /\ b # NoBoard => \A q \in Ports : bus[q] # b
          /\ bus[p] # handle \/ handle = NoBoard
          /\ bus' = [bus EXCEPT ![p] = b]
    /\ busChanges' = busChanges + 1
    /\ UNCHANGED <<pc, args, opt, driver, todo, found, handle, iface_detached,
                   driver0, listed>>

DevNext ==
    \/ Flag("--list", "list") \/ Flag("--list-socs", "socs")
    \/ Flag("--progress", "p") \/ Flag("--verbose", "v")
    \/ OptDev \/ OptSid \/ Usage \/ OptEnd
    \/ ListStart \/ ListOpen \/ ListClose \/ ListEnd
    \/ Open

-----------------------------------------------------------------------------
(***************************************************************************)
(* --sid opens the board with that SID.  Two things can go wrong, and no   *)
(* others: the bus changed after the enumeration had begun, or --dev was   *)
(* given as well and no board has that SID.  And a tool that ends well has *)
(* put every kernel driver it detached back (select_by_sid(), main(),      *)
(* feldev_open() and feldev_release()).                                    *)
(***************************************************************************)
RightDevice ==
    /\ pc = "loop" /\ opt.sid # NoSid =>
          \/ fel_read_sid(handle) = opt.sid
          \/ busChanges > listed
          \/ \A i \in DOMAIN found : found[i][2] # opt.sid
    /\ pc = "exit 0" => driver = driver0

(***************************************************************************)
(* --sid selects the device by its SID, by an exact match, as usage() has  *)
(* it (fel.c:1251): one that was found has it, and is the one in use.      *)
(***************************************************************************)
SidMatches ==
    opt.sid # NoSid /\ pc \in {"loop", "exit 0"} /\ ~opt.list /\ ~opt.socs =>
       /\ \E i \in DOMAIN found : found[i][2] = opt.sid
       /\ pc = "loop" => fel_read_sid(handle) = opt.sid

=============================================================================
