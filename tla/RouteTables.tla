---------------------------- MODULE RouteTables ----------------------------
(***************************************************************************)
(* libnettools: route_info, which prints the routing tables of the address *)
(* families it is asked for.  A table is read line by line from /proc; the *)
(* columns are found by the titles in the first line, and addresses are    *)
(* printed by name.  A cell is [line, column]; names, titles and addresses *)
(* are abstract.                                                           *)
(***************************************************************************)
EXTENDS Integers, Sequences, FiniteSets

CONSTANTS
    Words,          \* what a user calls address families
    Options,        \* how route_info is called
    FibHeaders,     \* first lines of /proc/net/route: sequences of titles
    CacheHeaders,   \* first lines of /proc/net/rt_cache
    Addresses,      \* addresses in the tables, besides 0.0.0.0
    NameAnswers,    \* what the databases say of an address: names, or no name
    MaxCalls,       \* bound: calls of route_info
    MaxFamilies,    \* bound: families in afname
    MaxLines,       \* bound: lines of a table
    MaxLacking      \* bound: columns a line is short of

ASSUME RouteTablesAssumption ==
    /\ Options \subseteq [ext : 0 .. 3, numeric : BOOLEAN, fib : BOOLEAN, cache : BOOLEAN]
    /\ \A h \in FibHeaders \cup CacheHeaders : h \in Seq(STRING)
    /\ {MaxCalls, MaxFamilies, MaxLines, MaxLacking} \subseteq Nat

VARIABLES
    afname,         \* the families asked for
    routed,         \* getroute_init has been called
    calls,
    at,             \* where route_info is
    outcome,        \* its last result
    options,        \* its options: ext, numeric, fib and cache
    rest, found,    \* the families left, and whether one was found
    titles, header, \* of the table being read
    format,         \* the column each title is read from
    line,           \* lines read
    cell,           \* what the variable of each title holds
    printed,        \* the last line printed
    names,          \* INET_nn: what an address was found to be called
    said            \* what each address has first been called in print

tableVars == <<afname, routed, calls, at, outcome, options, rest, found, titles, header, format,
               line, cell, printed, names, said>>
callOnly == <<afname, routed, calls, options>>
tableOnly == <<titles, header, format, line, cell, printed, names, said>>

Nothing == [none |-> TRUE]
Unset == [line |-> 0, column |-> 0]
Letters == [line |-> 0, column |-> 1]   \* a text that happens to be eight hexadecimal digits

TablesInit ==
    /\ afname = << >> /\ routed = FALSE /\ calls = 0 /\ at = "idle" /\ outcome = "none"
    /\ options = Nothing /\ rest = << >> /\ found = FALSE
    /\ titles = << >> /\ header = << >> /\ format = << >> /\ line = 0 /\ cell = << >>
    /\ printed = Nothing /\ names = << >> /\ said = << >>

-----------------------------------------------------------------------------
(* af.c: which families there are.                                         *)

\* aftrans; the last three are not built.
Alias == [ax25 |-> "ax25", ip |-> "inet", inet |-> "inet", tcpip |-> "inet", ipx |-> "ipx",
          appletalk |-> "ddp", ddp |-> "ddp", netrom |-> "netrom", unix |-> "unix", x25 |-> "x25",
          ip6 |-> "inet6", inet6 |-> "inet6", econet |-> "ec", ash |-> "ash"]
Aftypes == {"unix", "inet", "ax25", "netrom", "ipx", "ddp", "x25", "unspec"}

\* getroute_init gives all but unix and unspec an rprint; x25 has one from the start.
Rprint == {"x25"} \cup (IF routed THEN Aftypes \ {"unix", "unspec"} ELSE {})

Translated(list) ==
    LET known == {n \in 0 .. Len(list) : \A i \in 1 .. n : list[i] \in DOMAIN Alias}
        n == CHOOSE n \in known : \A k \in known : k <= n
    IN [i \in 1 .. n |-> Alias[list[i]]]

\* A family that is not known ends the list.
AftransOpt ==
    /\ at = "idle"
    /\ \E n \in 1 .. MaxFamilies : \E list \in [1 .. n -> Words] :
          afname' = afname \o Translated(list)
    /\ Len(afname') <= MaxFamilies
    /\ UNCHANGED <<routed, calls, options, at, outcome, rest, found, tableOnly>>

\* The name of the program may say the family, and counts although it is not known.
AftransDef ==
    /\ at = "idle"
    /\ \/ afname' = <<"inet">>
       \/ \E w \in Words : afname' = <<IF w \in DOMAIN Alias THEN Alias[w] ELSE w>>
    /\ UNCHANGED <<routed, calls, options, at, outcome, rest, found, tableOnly>>

GetrouteInit ==
    /\ at = "idle" /\ routed' = TRUE
    /\ UNCHANGED <<afname, calls, options, at, outcome, rest, found, tableOnly>>

-----------------------------------------------------------------------------
(* route_info                                                              *)

RouteInfo ==
    /\ at = "idle" /\ calls < MaxCalls /\ calls' = calls + 1
    /\ options' \in Options
    /\ at' = "family" /\ rest' = afname /\ found' = FALSE /\ printed' = Nothing
    /\ UNCHANGED <<afname, routed, outcome, titles, header, format, line, cell, names, said>>

Ended(status) == at' = "idle" /\ outcome' = status /\ UNCHANGED <<rest, found, tableOnly, callOnly>>

\* INET_rprint: the cache after the other table.  The table of ddp is not supported.
TableOf(f) ==
    CASE f = "inet" -> IF options.fib THEN "open fib" ELSE IF options.cache THEN "open cache" ELSE "intern"
      [] f = "ddp" -> "error"
      [] OTHER -> "open other"

NextFamily ==
    /\ at = "family"
    /\ IF rest = << >> THEN Ended(IF found THEN "ok" ELSE "not found")
       ELSE IF Head(rest) \notin Aftypes \cap Rprint THEN Ended("option error")
       ELSE IF TableOf(Head(rest)) \in {"intern", "error"} THEN Ended(TableOf(Head(rest)))
       ELSE /\ at' = TableOf(Head(rest)) /\ rest' = Tail(rest) /\ found' = TRUE
            /\ UNCHANGED <<outcome, tableOnly, callOnly>>

-----------------------------------------------------------------------------
(* proc.c                                                                  *)

FibTitles == <<"Iface", "Destination", "Gateway", "Flags", "RefCnt", "Use", "Metric", "Mask",
               "MTU", "Window", "IRTT">>
OldTitles == <<"Iface", "Destination", "Gateway", "Flags", "RefCnt", "Use", "Metric", "Source",
               "MTU", "Window", "IRTT", "HH", "ARP">>
NewTitles == <<"Iface", "Destination", "Gateway", "Flags", "RefCnt", "Use", "Metric", "Source",
               "MTU", "Window", "IRTT", "TOS", "HHRef", "HHUptod", "SpecDst">>

Set(s) == {s[i] : i \in DOMAIN s}

\* proc_gen_fmt: how many of the titles ts the first k of the columns h are.
Matched(h, ts) ==
    LET m[k \in 0 .. Len(h)] ==
          IF k = 0 THEN 0
          ELSE LET before == m[k - 1]
               IN IF before < Len(ts) /\ h[k] = ts[before + 1] THEN before + 1 ELSE before
    IN m
Complete(h, ts) == Matched(h, ts)[Len(h)] = Len(ts)

\* A column that is no title's is skipped: %*s.
F_Format(h, ts) == [i \in 1 .. Len(ts) |-> i]               \* it is not
Format(h, ts) ==
    LET m == Matched(h, ts)
    IN [i \in 1 .. Len(ts) |-> CHOOSE k \in 1 .. Len(h) : m[k] = i /\ m[k - 1] = i - 1]

\* proc_guess_fmt looks for the titles anywhere in the line, so that HHRef is an HH too.
Layout(h) ==
    LET seen == (Set(h) \cap {"IRTT", "TOS", "HHRef", "HHUptod", "SpecDst", "ARP"})
                \cup (IF Set(h) \cap {"HH", "HHRef", "HHUptod"} # {} THEN {"HH"} ELSE {})
    IN CASE seen = {"IRTT", "TOS", "HHRef", "HHUptod", "SpecDst", "HH"} -> NewTitles
         [] seen = {"IRTT", "HH", "ARP"} -> OldTitles
         [] seen = {"IRTT"} -> OldTitles                     \* 1 and 2 are also the numbers of
         [] seen = {"TOS"} -> NewTitles                      \* the layouts
         [] OTHER -> << >>

-----------------------------------------------------------------------------
(* rprint_fib and rprint_cache                                             *)

Starts(h, ts, where) ==
    /\ at' = where /\ header' = h /\ titles' = ts /\ line' = 0
    /\ format' = (IF where = "fib" \/ where = "cache" THEN Format(h, ts) ELSE << >>)
    /\ cell' = [i \in 1 .. Len(ts) |-> Unset]
    /\ UNCHANGED <<outcome, rest, found, printed, names, said, callOnly>>

\* A table without the columns is an error.
OpenFib ==
    /\ at = "open fib"
    /\ \/ Ended("error")
       \/ \E h \in FibHeaders : IF Complete(h, FibTitles) THEN Starts(h, FibTitles, "fib") ELSE Ended("error")

\* A cache with other columns is said to be an error and read none the less, the first
\* line too.  One without the columns in order is read with no format.
OpenCache ==
    /\ at = "open cache"
    /\ \/ Ended("error")
       \/ at' = "exited" /\ UNCHANGED <<outcome, rest, found, tableOnly, callOnly>>
       \/ \E h \in CacheHeaders :
             Starts(h, Layout(h), IF Layout(h) = << >> THEN "unknown"
                                  ELSE IF Complete(h, Layout(h)) THEN "cache" ELSE "no format")

\* INET_rresolve: a name is looked up once for an address as a host or as a network, and
\* so is that there is none.
F_Cached == {}                                              \* INET_nn = NULL, which is there in #if 0
Cached == DOMAIN names
LooksUp(keys) ==
    IF options.numeric THEN UNCHANGED names
    ELSE \E answers \in [keys -> NameAnswers] :
            names' = [k \in DOMAIN names \cup keys |-> IF k \in Cached THEN names[k] ELSE
                         IF k \in keys THEN answers[k] ELSE names[k]]

\* The three forms of a line.
Forms(ext) ==
    LET common == {"Iface", "Destination", "Gateway", "Flags", "Mask", "Source"}
    IN CASE ext = 0 -> {}
         [] ext = 1 -> common \cup {"RefCnt", "Use", "Metric"}
         [] ext = 2 -> common \cup {"MTU", "Window", "IRTT"}
         [] ext = 3 -> Set(titles)

Prints(shown, keys) ==
    IF shown = {} THEN UNCHANGED <<printed, said>>
    ELSE LET called == IF options.numeric THEN << >> ELSE [k \in keys |-> names'[k]]
         IN /\ printed' = [line |-> line', names |-> called,
                           cell |-> [i \in {j \in DOMAIN titles : titles[j] \in shown} |-> cell'[i]]]
            /\ said' = [k \in DOMAIN said \cup DOMAIN called |->
                           IF k \in DOMAIN said THEN said[k] ELSE called[k]]

\* sscanf: a line may be short of columns.  Variables that are not read keep their value.
Scanned(n) == {i \in DOMAIN titles : format[i] <= n}
Scans(n, kept) ==
    /\ line < MaxLines /\ line' = line + 1
    /\ cell' = [i \in DOMAIN titles |-> IF i \in Scanned(n) THEN [line |-> line', column |-> format[i]]
                                        ELSE kept[i]]
    /\ UNCHANGED <<at, outcome, rest, found, titles, header, format, callOnly>>

\* The gateway of a rejecting route, and what goes with it, is not printed.
Rejecting == {"Destination", "Mask", "Flags"} \cup (IF options.ext = 2 THEN {} ELSE {"Metric", "Use"})

FibLine ==
    /\ at = "fib"
    /\ \E n \in (Len(header) - MaxLacking) .. Len(header), flags \in SUBSET {"up", "host", "reject"},
          keys \in SUBSET (Addresses \X BOOLEAN) :
         /\ Scans(n, cell)
         /\ IF Cardinality(Scanned(n)) < 10 \/ "up" \notin flags
            THEN keys = {} /\ UNCHANGED <<printed, names, said>>
            ELSE \* a destination that is a network's or a host's, and a gateway
                 \* (one with bits outside its mask is a host's too)
                 /\ \E d, g \in SUBSET (Addresses \X BOOLEAN) :
                       /\ Cardinality(d) <= 1 /\ Cardinality(g) <= 1 /\ keys = d \cup g
                       /\ \A k \in d : "host" \in flags => k[2]
                       /\ \A k \in g : k[2]
                 /\ LooksUp(keys)
                 /\ Prints(IF "reject" \in flags THEN Forms(options.ext) \cap Rejecting ELSE Forms(options.ext),
                           keys)

\* The text of SpecDst is overwritten with its name, and is parsed again when a line lacks
\* it.  When that fails the address parsed last stays, which is Source; it does not fail
\* for a name, or what the variable held at first, that begins with eight hexadecimal
\* digits.
At(title) == {i \in DOMAIN titles : titles[i] = title}
Reparsed ==
    {[line |-> line + 1, column |-> format[i]] : i \in At("Source")}
    \cup (IF options.numeric /\ \A i \in At("SpecDst") : cell[i] # Unset THEN {} ELSE {Letters})
KeptText(c) == [i \in DOMAIN titles |-> IF titles[i] = "SpecDst" THEN c ELSE cell[i]]

\* The mask its addresses are looked up with has the bytes the other way round: all hosts.
CacheLine ==
    /\ at = "cache"
    /\ \E n \in (Len(header) - MaxLacking) .. Len(header), keys \in SUBSET (Addresses \X {TRUE}) :
         IF Cardinality(Scanned(n)) < 12
         THEN Scans(n, cell) /\ keys = {} /\ UNCHANGED <<printed, names, said>>
         ELSE /\ \E c \in Reparsed : Scans(n, KeptText(c))
              /\ LooksUp(keys) /\ Prints(Forms(options.ext), keys)

\* Whatever the variables hold is printed, with whatever it is called.
UnknownLine ==
    /\ at = "unknown" /\ line < MaxLines /\ line' = line + 1
    /\ \E keys \in SUBSET (Addresses \X {TRUE}) :
          LooksUp(keys) /\ Prints(Forms(options.ext), keys)
    /\ UNCHANGED <<at, outcome, rest, found, titles, header, format, cell, callOnly>>

NoFormatLine ==
    /\ at = "no format" /\ at' = "crashed" /\ UNCHANGED <<outcome, rest, found, tableOnly, callOnly>>

EndOfTable ==
    /\ at \in {"fib", "cache", "unknown", "no format"}
    /\ at' = IF at = "fib" /\ options.cache THEN "open cache" ELSE "family"
    /\ titles' = << >> /\ header' = << >> /\ format' = << >> /\ cell' = << >> /\ line' = 0
    /\ printed' = Nothing
    /\ UNCHANGED <<outcome, rest, found, names, said, callOnly>>

-----------------------------------------------------------------------------
(* The tables of ipx, ax25, x25 and netrom: every line is printed, of ipx  *)
(* those with three words; netrom reads its neighbours again for each one. *)
OtherTable ==
    /\ at = "open other"
    /\ \/ Ended("error")
       \/ at' = "family" /\ UNCHANGED <<outcome, rest, found, tableOnly, callOnly>>

TablesNext ==
    \/ AftransOpt \/ AftransDef \/ GetrouteInit \/ RouteInfo \/ NextFamily
    \/ OpenFib \/ OpenCache \/ FibLine \/ CacheLine \/ UnknownLine \/ NoFormatLine \/ EndOfTable
    \/ OtherTable

TablesSpec == TablesInit /\ [][TablesNext]_tableVars

-----------------------------------------------------------------------------
(* Properties.                                                             *)

\* A table is read only when it has all its columns, in order, whatever other columns
\* are between them.  Then what is printed under a title is in the column of that title in
\* the line that is read.  Only the columns after the tenth (of the cache the twelfth) of
\* a line that is short may differ: they show an earlier line's, or what the variable
\* began with, and SpecDst shows the Source of the line, or the letters of a name.
ColumnsFound ==
    at \in {"fib", "cache"} =>
        /\ \A i \in DOMAIN titles : /\ header[format[i]] = titles[i]
                                    /\ i > 1 => format[i - 1] < format[i]
        /\ printed # Nothing => \A i \in DOMAIN printed.cell :
              LET c == printed.cell[i]
              IN \/ c.line = printed.line /\ header[c.column] = titles[i]
                 \/ /\ i > (IF at = "fib" THEN 10 ELSE 12)
                    /\ IF titles[i] = "SpecDst"
                       THEN c = Letters \/ (c.line = printed.line /\ header[c.column] = "Source")
                       ELSE c.line < printed.line

\* An address is called the same as long as the program runs, in every table, whatever
\* the databases say by then.
NamesStay == printed # Nothing => \A k \in DOMAIN printed.names : printed.names[k] = said[k]
=============================================================================
