------------------------------ MODULE FitImage ------------------------------
(***************************************************************************)
(* fit_image.c: the FIT images of a U-Boot file and the order in which     *)
(* they are written to the board.                                          *)
(*                                                                         *)
(* A FIT image is [conf, default, configs, images]: whether there is a     *)
(* /configurations node, its "default" property, its subnodes in order     *)
(* ([name, description, firmware, loadables, fdt]) and the subnodes of     *)
(* /images by name ([load, entry, data, os, arch, compression]).  data is  *)
(* a sequence of memory cells; whether it is embedded or appended to the   *)
(* blob makes no difference to what follows.                               *)
(***************************************************************************)
EXTENDS Integers, Sequences, FiniteSetsExt, SequencesExt

NoName == "(none)"           \* a missing string property
NoProp == -1                 \* ~0U, a missing number

Cell == STRING \X Nat        \* byte i of a file or image: <<its name, i>>

Images == [load : {NoProp} \cup Nat, entry : {NoProp} \cup Nat, data : Seq(Cell),
           os : STRING, arch : STRING, compression : STRING]
Configs == [name : STRING, description : STRING, firmware : STRING,
            loadables : Seq(STRING), fdt : STRING]

fit_parse_os(value) ==
    IF value \in {"u-boot", "linux", "arm-trusted-firmware", "efi"}
    THEN value ELSE "invalid"

fit_parse_arch(value) == IF value \in {"arm", "arm64"} THEN value ELSE "invalid"

\* fit_get_image_info() returns 0.
Valid(fit, name) ==
    /\ name \in DOMAIN fit.images
    /\ fit.images[name].compression \in {NoName, "none"}

fit_get_image_info(fit, name) ==
    LET i == fit.images[name]
    IN  [i EXCEPT !.os = fit_parse_os(@), !.arch = fit_parse_arch(@)]

\* One aw_fel_write_buffer(); progress says whether it counts as progress.
Upload(addr, data, progress) ==
    [addr |-> addr, data |-> data, progress |-> progress]

\* The configuration to use: 0, or its place among the subnodes.
Configuration(fit, dt_name) ==
    IF ~fit.conf THEN 0
    ELSE IF dt_name # NoName
         THEN SelectInSeq(fit.configs, LAMBDA c : c.description = dt_name)
         ELSE IF fit.default # NoName
              THEN SelectInSeq(fit.configs, LAMBDA c : c.name = fit.default)
              ELSE SelectInSeq(fit.configs, LAMBDA c : TRUE)

(***************************************************************************)
(* The locals and file-scope variables of a load: the uploads so far, the  *)
(* entry point, entry_arch and dtb_addr.                                   *)
(***************************************************************************)
NothingLoaded == [uploads |-> <<>>, entry |-> 0, arch |-> "invalid", dtb |-> 0]

\* A plausible slip: the DTB goes where U-Boot starts.
fit_load_imageDtbAtStart(st, img) ==
    [uploads |-> Append(st.uploads, Upload(img.load, img.data, TRUE)),
     entry   |-> IF img.entry \notin {NoProp, 0} THEN img.entry ELSE st.entry,
     arch    |-> IF img.entry # NoProp THEN img.arch ELSE st.arch,
     dtb     |-> IF \/ img.os = "u-boot"
                    \/ st.dtb = 0 /\ img.os = "invalid"
                 THEN img.load ELSE st.dtb]

fit_load_image(st, img) ==
    [uploads |-> Append(st.uploads, Upload(img.load, img.data, TRUE)),
     entry   |-> IF img.entry \notin {NoProp, 0} THEN img.entry ELSE st.entry,
     arch    |-> IF img.entry # NoProp THEN img.arch ELSE st.arch,
     dtb     |-> IF \/ img.os = "u-boot"
                    \/ st.dtb = 0 /\ img.os = "invalid"
                 THEN img.load + Len(img.data) ELSE st.dtb]

\* Images that cannot be used are skipped.
LoadNamed(fit, st, name) ==
    IF Valid(fit, name)
    THEN fit_load_image(st, fit_get_image_info(fit, name)) ELSE st

\* One after the other.
LoadAll(fit, names) ==
    LET st[i \in 0..Len(names)] ==
            IF i = 0 THEN NothingLoaded ELSE LoadNamed(fit, st[i - 1], names[i])
    IN  st[Len(names)]

NamesOf(c) == <<c.firmware>> \o c.loadables

\* A FIT image as mkimage makes it: an image that a configuration loads has a
\* load address, and does not end at address 0.
IsFitImage(fit) ==
    /\ fit.configs \in Seq(Configs)
    /\ fit.images \in [DOMAIN fit.images -> Images]
    /\ \A i \in DOMAIN fit.configs :
         LET names == NamesOf(fit.configs[i])
         IN  \A j \in DOMAIN names : Valid(fit, names[j]) =>
                /\ fit.images[names[j]].load # NoProp
                /\ fit.images[names[j]].load + Len(fit.images[names[j]].data) > 0

\* The firmware, the loadables in order, and the DTB behind U-Boot.
load_fit_images(fit, dt_name) ==
    LET c     == fit.configs[Configuration(fit, dt_name)]
        st    == LoadAll(fit, NamesOf(c))
        dtb   == IF st.dtb # 0 /\ Valid(fit, c.fdt)
                 THEN <<Upload(st.dtb, fit.images[c.fdt].data, FALSE)>>
                 ELSE <<>>
    IN  IF Configuration(fit, dt_name) = 0 THEN NothingLoaded
        ELSE [st EXCEPT !.uploads = @ \o dtb]

-----------------------------------------------------------------------------
(***************************************************************************)
(* What the comments in fit_image.c and the SPL of U-Boot promise, said    *)
(* without the loop.                                                       *)
(***************************************************************************)
\* The images of a list of names that can be used, by their places in it.
Usable(fit, names) ==
    [i \in {j \in 1..Len(names) : Valid(fit, names[j])} |->
        fit_get_image_info(fit, names[i])]

Chosen(fit, dt_name) ==
    Usable(fit, NamesOf(fit.configs[Configuration(fit, dt_name)]))

\* The image that is entered (its place in the list), or 0.
Entered(imgs) ==
    LET S == {i \in DOMAIN imgs : imgs[i].entry > 0}
    IN  IF S = {} THEN 0 ELSE Max(S)

\* The image that says whether 64-bit code is entered, or 0: the last one with
\* an entry point, even if that is 0.
Moded(imgs) ==
    LET S == {i \in DOMAIN imgs : imgs[i].entry # NoProp}
    IN  IF S = {} THEN 0 ELSE Max(S)

\* The image that holds U-Boot, or 0.
UBootAmong(imgs) ==
    LET named == {i \in DOMAIN imgs : imgs[i].os = "u-boot"}
        other == {i \in DOMAIN imgs : imgs[i].os = "invalid"}
    IN  IF named # {} THEN Max(named)
        ELSE IF other # {} THEN Min(other) ELSE 0

\* An image and byte a of memory; the first address behind it.
EndOf(img) == img.load + Len(img.data)
Holds(img, a) == img.load <= a /\ a < EndOf(img)

\* Where the DTB belongs, and what it is: nothing without a U-Boot.
DtbPlace(imgs) == IF UBootAmong(imgs) = 0 THEN 0 ELSE EndOf(imgs[UBootAmong(imgs)])
DtbOf(fit, c, imgs) ==
    IF UBootAmong(imgs) # 0 /\ Valid(fit, c.fdt)
    THEN fit.images[c.fdt].data ELSE <<>>

=============================================================================
