--------------------------- MODULE Configuration ---------------------------
(***************************************************************************)
(* The configuration file: apps/settings.c edits and saves it, kernel/     *)
(* boot.c loads it whenever a MiniOS starts, also while a save is under    *)
(* way.  Settings is started, left and killed at any time.  A number is    *)
(* written and read back as it is; a text is a sequence of words, of which *)
(* the loaders' %s reads the first, and none of which holds a "=".  The    *)
(* whole file fits a stdio buffer: one write saves it, one read gets it.   *)
(***************************************************************************)
EXTENDS Integers, Sequences, FiniteSets

CONSTANTS
    Layout,          \* the keys in the order save_config writes them
    Numbers,         \* those that hold a number
    Limit,           \* Limit[key]: an edit of the number accepts 1 .. Limit[key]
    Typed,           \* numbers the user types
    Texts,           \* sequences of words
    Shorter,         \* text -> what %s reads of it when a write stops inside it
    Default,         \* the defaults of both loaders
    Junk,            \* numbers an uninitialised Config may hold
    Glued,           \* numbers that the ends of two files can make together
    MaxVersions,     \* bound: configurations one boot gets to see
    NoFile, Off

Keys == {Layout[n] : n \in DOMAIN Layout}

ASSUME ConfigurationAssumption ==
    /\ Layout \in Seq(STRING) /\ Numbers \subseteq Keys
    /\ \A i, j \in DOMAIN Layout : Layout[i] = Layout[j] => i = j
    /\ Limit \in [Numbers -> Nat]
    /\ Default = [key \in Keys |-> Default[key]]
    /\ \A key \in Numbers : Default[key] \in 1 .. Limit[key]
    /\ \A key \in Keys \ Numbers : Default[key] \in Texts /\ Len(Default[key]) = 1
    /\ Texts \subseteq Seq(STRING)
    /\ \A text \in Texts : text # <<>> => <<Head(text)>> \in Texts
    /\ Shorter \in [Texts -> SUBSET {text \in Texts : Len(text) = 1}]
    /\ Typed \subseteq Int /\ Junk \subseteq Int /\ Glued \subseteq Int
    /\ MaxVersions \in Nat
    /\ NoFile \notin Seq(Keys \X (Int \union Texts))

VARIABLES
    config_file,     \* the lines "key=value" of CONFIG_FILE, or NoFile
    cfg,             \* the configuration in Settings
    settings,        \* next step of Settings
    boot,            \* load_system_config: "reading", or "behind" when the file was
                     \* written since its last read, or at its "end"; or "idle"
    booted,          \* what the MiniOS that starts has loaded, or Off
    saved,           \* history: the configuration of the save begun last
    whole,           \* history: that save wrote everything
    junk,            \* history: cfg was never initialised, or was saved so
    versions,        \* history: the configurations saved while it loads
    got              \* history: it got "all" of what it read, "part", or parts "mixed"

save_history == <<saved, whole, junk>>
boot_vars == <<boot, booted, versions, got>>
config_vars == <<config_file, cfg, settings, save_history, boot_vars>>

ConfigTypeOK ==
    /\ config_file = NoFile \/ \A n \in DOMAIN config_file : config_file[n][1] \in Keys
    /\ settings \in {"closed", "menu", "saving"}
    /\ \A key \in Numbers : cfg[key] \in Int /\ saved[key] \in Int
    /\ \A key \in Keys \ Numbers : cfg[key] \in Texts /\ saved[key] \in Texts
    /\ whole \in BOOLEAN /\ junk \in [cfg : BOOLEAN, file : BOOLEAN]
    /\ boot \in {"idle", "reading", "behind", "end"} /\ got \in {"all", "part", "mixed"}

-----------------------------------------------------------------------------
(* The file format *)

\* save_config: one line for every key.
Lines(config) == [n \in DOMAIN Layout |-> <<Layout[n], config[Layout[n]]>>]

\* The sscanf of the loaders: no value after "=" is no match.
Readable(line) == line[1] \in Numbers \/ line[2] # <<>>
Read(line) == IF line[1] \in Numbers THEN line[2] ELSE <<Head(line[2])>>

\* What the lines say, over what the configuration held.
Over(config, lines) ==
    [key \in Keys |->
        IF \E n \in DOMAIN lines : lines[n][1] = key /\ Readable(lines[n])
        THEN Read(lines[CHOOSE n \in DOMAIN lines : lines[n][1] = key /\ Readable(lines[n])])
        ELSE config[key]]

\* Both loaders begin with the defaults.
Load(lines) == Over(Default, lines)

\* The beginnings of a number as %d prints it, as atoi reads them.
Powers == {1, 10, 100, 1000, 10000, 100000, 1000000, 10000000, 100000000, 1000000000}
Beginnings(v) ==
    IF v > 0 THEN {v \div p : p \in Powers} \ {0}
    ELSE {0} \union {-((-v) \div p) : p \in Powers}

\* What a line can say when the write stops inside its value, the whole value
\* without the newline included.
Parts(key, value) == IF key \in Numbers THEN Beginnings(value) ELSE Shorter[value]

ConfigInit ==
    /\ config_file \in {NoFile, Lines(Default)}
    /\ cfg = Default /\ settings = "closed" /\ boot = "idle" /\ booted = Off
    /\ saved = Default /\ whole = TRUE /\ junk = [cfg |-> FALSE, file |-> FALSE]
    /\ versions = {} /\ got = "all"

-----------------------------------------------------------------------------
(* Settings *)

\* main loads the configuration.  If the file does not open, be there one or
\* not, load_config returns before it has set the defaults and main goes on with
\* whatever its stack held, saying that it uses the defaults.
SettingsStart ==
    /\ settings = "closed" /\ settings' = "menu"
    /\ \/ /\ config_file # NoFile
          /\ cfg' = Load(config_file) /\ junk' = [junk EXCEPT !.cfg = junk.file]
       \/ /\ \E number \in [Numbers -> Junk], text \in [Keys \ Numbers -> Texts] :
                cfg' = [key \in Keys |-> IF key \in Numbers THEN number[key] ELSE text[key]]
          /\ junk' = [junk EXCEPT !.cfg = TRUE]
    /\ UNCHANGED <<config_file, saved, whole, boot_vars>>

\* A reload; where the file does not open it keeps the configuration.
Reload ==
    /\ settings = "menu"
    /\ config_file # NoFile
    /\ cfg' = Load(config_file) /\ junk' = [junk EXCEPT !.cfg = junk.file]
    /\ UNCHANGED <<config_file, settings, saved, whole, boot_vars>>

\* Mutant: the lower end of the range is not tested.
Accepts_any_small(key, value) == value <= Limit[key]

Accepts(key, value) == value \in 1 .. Limit[key]

EditNumber(key, value) ==
    /\ settings = "menu"
    /\ Accepts(key, value)
    /\ cfg' = [cfg EXCEPT ![key] = value]
    /\ UNCHANGED <<config_file, settings, save_history, boot_vars>>

\* edit 1 and 2 take any line, blanks and nothing included.
EditText(key, text) ==
    /\ settings = "menu"
    /\ cfg' = [cfg EXCEPT ![key] = text]
    /\ UNCHANGED <<config_file, settings, save_history, boot_vars>>

Loads == boot \in {"reading", "behind"}

\* A save that begins while a MiniOS loads.
Begun == versions' = IF Loads THEN versions \union {cfg} ELSE versions

\* Mutant: the file is written over, not emptied.
SaveOpens_in_place ==
    /\ settings = "menu" /\ settings' = "saving"
    /\ config_file' = IF config_file = NoFile THEN <<>> ELSE config_file
    /\ saved' = cfg /\ whole' = FALSE /\ junk' = [junk EXCEPT !.file = junk.cfg]
    /\ Begun
    /\ UNCHANGED <<cfg, boot, booted, got>>

\* fopen with "w".  If it fails, save_config says so and nothing changes.
SaveOpens ==
    /\ settings = "menu" /\ settings' = "saving"
    /\ Loads => Cardinality(versions) < MaxVersions
    /\ config_file' = <<>>
    /\ saved' = cfg /\ whole' = FALSE /\ junk' = [junk EXCEPT !.file = junk.cfg]
    /\ Begun
    /\ UNCHANGED <<cfg, boot, booted, got>>

\* The file is closed and written, or on a full disk, which nobody looks at,
\* some of it: some first lines and perhaps a beginning of the next.
SaveCloses ==
    /\ settings = "saving" /\ settings' = "menu"
    /\ \/ config_file' = Lines(cfg) /\ whole' = TRUE
       \/ /\ \E n \in 0 .. Len(Layout) - 1 : config_file' = SubSeq(Lines(cfg), 1, n)
          /\ whole' = FALSE
       \/ /\ \E n \in DOMAIN Layout : \E part \in Parts(Layout[n], cfg[Layout[n]]) :
                config_file' = Append(SubSeq(Lines(cfg), 1, n - 1), <<Layout[n], part>>)
          /\ whole' = FALSE
    /\ boot' = IF boot = "reading" THEN "behind" ELSE boot
    /\ UNCHANGED <<cfg, saved, junk, booted, versions, got>>

\* exit, the end of the input, or the process is killed, also inside a save.
Leave ==
    /\ settings \in {"menu", "saving"} /\ settings' = "closed"
    /\ UNCHANGED <<config_file, cfg, save_history, boot_vars>>

-----------------------------------------------------------------------------
(* load_system_config of a MiniOS that starts.  fgets reads until a read of   *)
(* the file finds its end, so it may go on with a file saved meanwhile.       *)

\* Without a file, and when it does not open, the defaults.
BootFails ==
    /\ boot = "idle" /\ boot' = "end"
    /\ booted' = Default
    /\ versions' = {saved} /\ got' = IF config_file = NoFile THEN "all" ELSE "part"
    /\ UNCHANGED <<config_file, cfg, settings, save_history>>

\* The first read.  A file just emptied by a save is at its end.
BootOpens ==
    /\ boot = "idle" /\ config_file # NoFile
    /\ boot' = IF settings = "saving" THEN "end" ELSE "reading"
    /\ booted' = Load(config_file)
    /\ versions' = {saved} /\ got' = IF whole THEN "all" ELSE "part"
    /\ UNCHANGED <<config_file, cfg, settings, save_history>>

\* What the buffer ends with, when that is a part of a line, and what the next
\* read begins with are taken for one line, which can set any key to anything.
Joints ==
    {booted} \union
    IF got = "all" THEN {}
    ELSE {[booted EXCEPT ![key] = value] : key \in Numbers, value \in Glued}
         \union {[booted EXCEPT ![key] = text] : key \in Keys \ Numbers, text \in Texts}

\* A file saved since is longer than what was read: the next read gets its end.
\* A line of which that has only a part says nothing, no key ending in another.
BootReadsOn ==
    /\ boot = "behind" /\ config_file # <<>>
    /\ boot' = "reading"
    /\ \E n \in 1 .. Len(config_file) + 1, config \in Joints :
          booted' = Over(config, SubSeq(config_file, n, Len(config_file)))
    /\ got' = IF got # "all" THEN "mixed" ELSE IF whole THEN "all" ELSE "part"
    /\ UNCHANGED <<config_file, cfg, settings, save_history, versions>>

\* A read finds the end of the file and the system starts with what is loaded;
\* it keeps that, so the next one is looked at.
BootEnds ==
    /\ boot # "idle" /\ boot' = "idle"
    /\ booted' = Off /\ versions' = {} /\ got' = "all"
    /\ UNCHANGED <<config_file, cfg, settings, save_history>>

ConfigNext ==
    \/ SettingsStart \/ Reload \/ SaveOpens \/ SaveCloses \/ Leave
    \/ \E key \in Numbers, value \in Typed : EditNumber(key, value)
    \/ \E key \in Keys \ Numbers, text \in Texts : EditText(key, text)
    \/ BootFails \/ BootOpens \/ BootReadsOn \/ BootEnds

ConfigSpec == ConfigInit /\ [][ConfigNext]_config_vars

-----------------------------------------------------------------------------
\* A MiniOS never starts with a number outside its range, whatever Settings was
\* doing to the file, wherever a write stopped and however Settings ended, as
\* long as no configuration was saved that Settings had never initialised and
\* no line was made of the ends of two files.
BootInRange ==
    /\ ConfigTypeOK
    /\ booted # Off /\ ~junk.file /\ got # "mixed" =>
          \A key \in Numbers : booted[key] \in 1 .. Limit[key]

\* What the file format keeps of a configuration.
Kept(config) ==
    [key \in Keys |->
        IF key \in Numbers THEN config[key]
        ELSE IF config[key] = <<>> THEN Default[key] ELSE <<Head(config[key])>>]

\* Each value a boot gets is the saved one, but for the texts of which the first
\* word survives; so without a save meanwhile it gets the configuration that was
\* saved last.  Where a write stopped it gets a default or a beginning of the
\* value, and where saves came between two reads the values may be of several
\* configurations saved during that boot, but never of an older one.
BootCoherent ==
    booted # Off =>
       /\ got = "all" =>
             \A key \in Keys : \E config \in versions : booted[key] = Kept(config)[key]
       /\ got = "part" =>
             \A key \in Keys : \E config \in versions :
                booted[key] \in {Default[key], Kept(config)[key]} \union Parts(key, config[key])

=============================================================================
