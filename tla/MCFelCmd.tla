------------------------------ MODULE MCFelCmd ------------------------------
(***************************************************************************)
(* Two parts of the same tool: device selection with a command or two, and *)
(* lines of up to three commands on one board.                             *)
(***************************************************************************)
EXTENDS FelCmd

MCBoard ==
    LET B(fel, sid, busy, sid_base, known) ==
          [fel |-> fel, sid |-> sid, busy |-> busy, sid_base |-> sid_base,
           rvbar |-> known, watchdog |-> known, spi |-> known]
    IN  ("a" :> B(TRUE, "sidA", FALSE, TRUE, TRUE)) @@
        ("b" :> B(TRUE, "sidB", FALSE, TRUE, FALSE)) @@
        ("old" :> B(TRUE, "sidC", FALSE, FALSE, FALSE)) @@
        ("busy" :> B(TRUE, "sidD", TRUE, TRUE, TRUE)) @@
        ("disk" :> B(FALSE, "none", FALSE, FALSE, FALSE))

MCPorts == {1, 2}

NoTail == [type |-> "invalid", load |-> 0, size |-> 0, hcrc |-> FALSE, dcrc |-> FALSE]
Firmware(load, size, dcrc) ==
    [type |-> "firmware", load |-> load, size |-> size, hcrc |-> TRUE, dcrc |-> dcrc]
Plain(type) ==
    [type |-> type, spl_len |-> 0, ver |-> 0, dt |-> NoName, tail |-> NoTail]
Spl(ver, dt, tail) ==
    [type |-> "invalid", spl_len |-> 2, ver |-> ver, dt |-> dt, tail |-> tail]

MCFileInfo ==
    ("kernel" :> Plain("data")) @@ ("scr" :> Plain("script")) @@
    ("env" :> Plain("uEnv")) @@
    ("boot0" :> Spl(0, NoName, NoTail)) @@ ("short" :> Spl(1, NoName, NoTail)) @@
    ("legacy" :> Spl(1, NoName, Firmware(6, 3, TRUE))) @@
    ("legacy2" :> Spl(2, "dtA", Firmware(12, 2, TRUE))) @@
    ("badcrc" :> Spl(1, NoName, Firmware(6, 3, FALSE))) @@
    ("fit" :> Spl(2, "dtA", [NoTail EXCEPT !.type = "flatdt"])) @@
    ("fitnodt" :> Spl(1, NoName, [NoTail EXCEPT !.type = "flatdt"]))

Sizes ==
    ("kernel" :> 2) @@ ("scr" :> 2) @@ ("env" :> 2) @@ ("boot0" :> 2) @@
    ("short" :> 3) @@ ("legacy" :> 8) @@ ("legacy2" :> 7) @@ ("badcrc" :> 8) @@
    ("fit" :> 6) @@ ("fitnodt" :> 6)
MCFiles == [n \in DOMAIN Sizes |-> Ones(n, Sizes[n])]

C(name) == Word("cmd", name, 0)
N(num) == Word("num", "", num)
F(name) == Word("file", name, 0)
O(name) == Word("opt", name, 0)

-----------------------------------------------------------------------------
(* FIT images: which images a configuration names, in which order. *)

Img(load, entry, name, n, os, arch, comp) ==
    [load |-> load, entry |-> entry, data |-> Ones(name, n), os |-> os,
     arch |-> arch, compression |-> comp]
SomeImages(scpEntry, ubootOs, comp) ==
    ("atf" :> Img(10, 10, "atf", 4, "arm-trusted-firmware", "arm64", NoName)) @@
    ("uboot" :> Img(13, 14, "uboot", 4, ubootOs, "arm", comp)) @@
    ("scp" :> Img(16, scpEntry, "scp", 1, "", "or1k", "none")) @@
    ("dtb" :> Img(NoProp, NoProp, "dtb", 2, "", "", "none"))
Config(name, desc, fw, loadables, fdt) ==
    [name |-> name, description |-> desc, firmware |-> fw,
     loadables |-> loadables, fdt |-> fdt]
Fit(conf, default, c1, images) ==
    [conf |-> conf, default |-> default, images |-> images,
     configs |-> <<c1, Config("c2", "dtB", "uboot", <<>>, "dtb")>>]

Orders == {<<>>, <<"uboot">>, <<"scp", "uboot">>, <<"uboot", "scp">>,
           <<"atf", "uboot">>, <<"uboot", "atf">>}
SomeFits ==
    {Fit(TRUE, NoName, Config("c1", "dtA", fw, l, fdt), SomeImages(se, os, comp)) :
        fw \in {"atf", "uboot", NoName, "missing"}, l \in Orders,
        fdt \in {NoName, "dtb"}, se \in {NoProp, 0}, os \in {"u-boot", "linux", ""},
        comp \in {NoName, "gzip"}}
    \cup {Fit(conf, default, Config("c1", desc, "atf", <<"uboot">>, "dtb"),
              SomeImages(NoProp, "u-boot", NoName)) :
        conf \in BOOLEAN, default \in {NoName, "c2", "c9"}, desc \in {"dtA", "dtC"}}
OneFit == Fit(TRUE, NoName, Config("c1", "dtA", "uboot", <<"atf">>, "dtb"),
              SomeImages(NoProp, "u-boot", NoName))
NoConfig == [OneFit EXCEPT !.conf = FALSE]

-----------------------------------------------------------------------------
Line(opts, cmds, b, d, n, f1, f2) ==
    [words |-> opts \o FlattenSeq(cmds), want |-> [i \in DOMAIN cmds |-> Len(cmds[i])],
     bus |-> b, driver |-> d, changes |-> n, files |-> MCFiles,
     fits |-> ("fit" :> f1) @@ ("fitnodt" :> f2)]

Menu ==
    {<<C("memmove"), N(7), N(0), N(1)>>, <<C("writel"), N(4), N(1)>>,
     <<C("exe"), N(6)>>, <<C("clear"), N(3), N(2)>>, <<C("fill"), N(4), N(4), N(7)>>,
     <<C("read"), N(6), N(2), F("kernel")>>, <<C("write"), N(15), F("kernel")>>,
     <<C("write"), N(7), F("scr")>>, <<C("write-with-progress"), N(0), F("scr")>>,
     <<C("multi"), N(2), N(0), F("env"), N(11), F("kernel")>>,
     <<C("spiflash-read"), N(0), N(2), F("scr")>>,
     <<C("spl"), F("boot0")>>, <<C("spl"), F("fit")>>, <<C("spl"), F("fitnodt")>>,
     <<C("uboot"), F("legacy")>>, <<C("uboot"), F("legacy2")>>,
     <<C("uboot"), F("fit")>>, <<C("uboot"), F("short")>>}
Rest ==
    {<<C("hex"), N(0), N(4)>>, <<C("readl"), N(0)>>, <<C("ver")>>, <<C("sid")>>,
     <<C("echo-gauge"), N(0)>>, <<C("spiflash-info")>>, <<C("wdreset")>>,
     <<C("spiflash-write"), N(0), F("kernel")>>, <<C("multi"), N(0)>>,
     <<C("clear"), N(3)>>, <<C("fill"), N(4), N(4)>>, <<C("write"), N(2)>>,
     <<C("reset64"), N(6)>>, <<C("uboot"), F("badcrc")>>, <<C("spl"), F("kernel")>>,
     <<C("multi"), N(3), N(0), F("env")>>}

Bus(x, y) == 1 :> x @@ 2 :> y
Commands ==
    {Line(<<>>, cs, Bus("a", NoBoard), {}, 1, OneFit, NoConfig) :
        cs \in {<<x>> : x \in Menu \cup Rest}
               \cup {<<x, y>> : x \in Menu \cup {<<C("multi"), N(0)>>}, y \in Menu \cup Rest}
               \cup {<<x, y, z>> : x \in Menu, y \in Menu, z \in Menu}}
    \cup {Line(<<O("--progress")>>, <<x, y>>, Bus(NoBoard, "b"), {"b"}, 1, OneFit, NoConfig) :
        x \in Menu, y \in Menu \cup Rest}
Loads ==
    {Line(<<>>, <<<<C("uboot"), F(n)>>>>, Bus("a", NoBoard), {}, 1, f, f) :
        n \in {"fit", "fitnodt"}, f \in SomeFits}
Options ==
    {<<>>, <<O("--list")>>, <<O("--list-socs")>>, <<O("--dev")>>, <<O("--what")>>,
     <<O("--help")>>, <<O("--verbose"), Word("bare", "--list", 0)>>,
     <<O("--verbose"), Word("bare", "--list-socs", 0)>>}
    \cup {<<O("--dev"), Word("port", "", p)>> : p \in 0..2}
    \cup {<<O("--sid"), Word("sid", s, 0)>> : s \in {"sidA", "sidB", ZeroSid, "sidX"}}
    \cup {<<O("--dev"), Word("port", "", 2), O("--sid"), Word("sid", s, 0)>> :
             s \in {"sidA", "sidB", "sidX"}}
\* Lines without a command: --sid takes whatever follows it.
OptionLines == (Options \X {<<<<C("ver")>>>>})
               \cup ({<<>>, <<O("--verbose")>>, <<O("--sid")>>, <<O("--sid"), C("ver")>>}
                        \X {<<>>})
Devices ==
    {Line(o[1], o[2], Bus(x, y), d, 0, OneFit, NoConfig) :
        o \in OptionLines, x \in {"a", "b", "busy", "disk", NoBoard},
        y \in {"a", "b", "old", NoBoard}, d \in {{}, {"a", "old", "disk"}}}

\* One line that everything goes wrong with that main() lets go wrong.
MCTextStarts ==
    {Line(<<O("--dev"), Word("port", "", 2), O("--sid"), Word("sid", "sidX", 0)>>,
          <<<<C("uboot"), F("legacy")>>, <<C("exe"), N(6)>>, <<C("ver")>>,
            <<C("spl"), F("fit")>>, <<C("write"), N(11), F("scr")>>,
            <<C("spiflash-read"), N(0), N(2), F("kernel")>>>>,
          Bus("a", "b"), {}, 1,
          Fit(TRUE, NoName, Config("c1", "dtA", "atf", <<"uboot">>, "dtb"),
              SomeImages(NoProp, "u-boot", NoName)), NoConfig)}

MCStarts == Commands \cup Loads
            \cup {s \in Devices : s.bus[1] # s.bus[2] \/ s.bus[1] = NoBoard}

=============================================================================
