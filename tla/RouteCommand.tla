---------------------------- MODULE RouteCommand ----------------------------
(***************************************************************************)
(* libnettools: a route command (route_edit), read word by word, and what  *)
(* the kernel is told.  An address or a mask is the set of its one bits,   *)
(* numbered from the lowest.  The words, the answers of the resolver and   *)
(* those of the kernel are chosen when they are read.                      *)
(***************************************************************************)
EXTENDS Integers, Sequences

CONSTANTS
    Width,          \* bits of an address
    Quads,          \* addresses given as numbers
    HostOf, NetOf,  \* hosts and networks databases: name -> address
    Devices,
    Numbers,        \* values of metric, mss, window and irtt, without a sign
    Digits25,       \* lengths of an X.25 address, and of its significant part
    Garbage25,      \* digits that may lie where an X.25 address ends without a terminator
    MaxWords        \* bound: options of a command

ASSUME RouteCommandAssumption ==
    /\ Width \in Nat \ {0} /\ Numbers \subseteq Nat /\ Digits25 \subseteq Nat
    /\ Garbage25 \subseteq Nat /\ MaxWords \in Nat
    /\ Quads \subseteq SUBSET (0 .. Width - 1)
    /\ \A x \in DOMAIN HostOf : HostOf[x] \subseteq 0 .. Width - 1
    /\ \A x \in DOMAIN NetOf : NetOf[x] \subseteq 0 .. Width - 1
    /\ "no device" \notin Devices

Bits == 0 .. Width - 1
NoDevice == "no device"
Families == {"inet", "x25", "ipx", "netrom", "ax25", "unknown"}

VARIABLES
    family, command, \* what was asked for: the address family; add, del, flush or help
    stage,           \* start, target, words, last, socket, tell, done or crashed
    result,          \* the exit status
    rt,              \* the route being put together
    given,           \* the words read, each with what it was resolved to
    told,            \* the routes the kernel was told: one or none
    sockets          \* sockets open

routeVars == <<family, command, stage, result, rt, given, told, sockets>>

Empty == [dst |-> {}, genmask |-> {}, gateway |-> {}, flags |-> {}, metric |-> 0, mss |-> 0,
          window |-> 0, irtt |-> 0, dev |-> NoDevice, length |-> 0, sigdigits |-> 0]

RouteInit ==
    /\ family \in Families /\ command \in {"add", "del", "flush", "help"}
    /\ stage = "start" /\ result = 0 /\ rt = Empty /\ given = << >>
    /\ told = {} /\ sockets = 0

With(r, field, value) == [r EXCEPT ![field] = value]
Ends(status) == stage' = "done" /\ result' = status /\ UNCHANGED <<rt, given, told, sockets>>
Usage == Ends("usage")
Asked == <<family, command>>

-----------------------------------------------------------------------------
(* route_edit, and the checks of INET_rinput and X25_rinput.  The cache    *)
(* can not be changed; ax25 has no rinput; those of ipx and netrom are     *)
(* still to be written, and succeed.                                       *)
RouteEdit ==
    /\ stage = "start"
    /\ IF family \in {"unknown", "ax25"} THEN Ends("option error")
       ELSE IF family \in {"ipx", "netrom"} THEN Ends("ok")
       ELSE \/ Usage                                       \* FLAG_CACHE, or no words
            \/ /\ command \notin {"flush", "help"} /\ stage' = "target"
               /\ UNCHANGED <<result, rt, given, told, sockets>>
    /\ UNCHANGED Asked

-----------------------------------------------------------------------------
(* INET_resolve.  A text is "default", a number or a name; the network     *)
(* database is asked first unless a host is expected.  The name server may *)
(* not answer.                                                             *)
Texts == [kind : {"default"}] \cup [kind : {"number"}, address : Quads]
         \cup [kind : {"name"}, name : DOMAIN HostOf \cup DOMAIN NetOf]

Found(net, address) == [net |-> net, address |-> address]
AsHost(t, answers) == IF answers /\ t.name \in DOMAIN HostOf THEN {Found(FALSE, HostOf[t.name])} ELSE {}
AsNet(t) == IF t.name \in DOMAIN NetOf THEN {Found(TRUE, NetOf[t.name])} ELSE {}

\* At most one result.
Resolve(t, hostFirst, answers) ==
    IF t.kind = "default" THEN {Found(TRUE, {})}
    ELSE IF t.kind = "number" THEN {Found(FALSE, t.address)}
    ELSE IF (hostFirst /\ AsHost(t, answers) # {}) \/ AsNet(t) = {} THEN AsHost(t, answers)
    ELSE AsNet(t)

\* INET_getnetmask: ~(0xffffffff >> prefix).  From Width on the shift is undefined: the
\* processor shifts by the remainder, or all bits out.  -1 is no prefix.
Prefix(n) == {i \in Bits : i >= Width - n}
MasksOf(n) == IF n = -1 THEN {{}} ELSE IF n < Width THEN {Prefix(n)} ELSE {Prefix(n % Width), Bits}

TargetFlags(net) == IF net THEN {"up"} ELSE {"up", "host"}

\* RTF_HOST goes by what the name was found as, unless it is said.
ReadsTarget(flag, f, mask) ==
    /\ rt' = With(With(With(rt, "dst", f.address), "genmask", mask),
                  "flags", TargetFlags(flag = "#net" \/ (flag = "none" /\ f.net)))
    /\ given' = <<[word |-> flag, as |-> f, mask |-> mask]>>
    /\ stage' = "words" /\ UNCHANGED <<result, told, sockets>>

\* #net, #host or nothing; a target; perhaps a prefix.
Target ==
    /\ stage = "target" /\ family = "inet" /\ UNCHANGED Asked
    /\ \/ Usage                                             \* no target, or no number after /
       \/ \E flag \in {"#net", "#host", "none"}, t \in Texts, answers \in BOOLEAN :
            \/ Resolve(t, flag = "#host", answers) = {} /\ Ends("error")
            \/ \E prefix \in -1 .. Width + 1 :
                  \E f \in Resolve(t, flag = "#host", answers), mask \in MasksOf(prefix) :
                     ReadsTarget(flag, f, mask)

-----------------------------------------------------------------------------
(* The options of INET_setroute, one step each.                            *)

Reads(word, value, route) ==
    /\ rt' = route /\ given' = Append(given, [word |-> word, value |-> value])
    /\ UNCHANGED <<stage, result, told, sockets>>

Flagged(f) == With(rt, "flags", rt.flags \cup {f})

\* netmask: refused once there is a mask, and none of zero counts as one.
Netmask(mask) ==
    IF rt.genmask # {} THEN Usage
    ELSE Reads("netmask", mask, With(rt, "genmask", mask))

\* What the gateway was found as does not change what the target is.
F_Gateway(f) ==
    Reads("gw", f.address, With(With(rt, "gateway", f.address), "flags", rt.flags \cup {"gateway", "host"}))
Gateway(f) ==
    IF "gateway" \in rt.flags THEN Usage
    ELSE IF f.net THEN Ends("option error")
    ELSE Reads("gw", f.address, With(Flagged("gateway"), "gateway", f.address))

\* Only while MaxWords allows.
Reading == stage = "words" /\ family = "inet" /\ Len(given) <= MaxWords /\ UNCHANGED Asked

NoValue == Reading /\ Usage                                \* an option without its value
\* rt_metric is a short, rt_irtt an unsigned short: what does not fit wraps.
Short(n) == ((n + 32768) % 65536) - 32768
UnsignedShort(n) == n % 65536
Metric == Reading /\ \E n \in Numbers : Reads("metric", n, With(rt, "metric", Short(n + 1)))
MssRefused(n) == n < 64 \/ n > 65536
Mss == Reading /\ \E n \in Numbers :
           IF MssRefused(n) THEN Ends("option error")
           ELSE Reads("mss", n, With(Flagged("mss"), "mss", n))
Window == Reading /\ \E n \in Numbers :
              IF n < 128 THEN Ends("option error")
              ELSE Reads("window", n, With(Flagged("window"), "window", n))
Irtt == Reading /\ \E n \in Numbers :
            Reads("irtt", n, With(Flagged("irtt"), "irtt", UnsignedShort(n)))
Flag == Reading /\ \E f \in {"reject", "mod", "dyn", "reinstate"} : Reads(f, f, Flagged(f))
NetmaskWord == Reading /\ \E t \in Texts, answers \in BOOLEAN :
                   \/ Resolve(t, FALSE, answers) = {} /\ Ends("lookup")
                   \/ \E f \in Resolve(t, FALSE, answers) : Netmask(f.address)
GatewayWord == Reading /\ \E t \in Texts, answers \in BOOLEAN :
                   \/ Resolve(t, TRUE, answers) = {} /\ Ends("lookup")
                   \/ \E f \in Resolve(t, TRUE, answers) : Gateway(f)
Device == Reading /\ \E d \in Devices :
              IF rt.dev # NoDevice THEN Usage ELSE Reads("dev", d, With(rt, "dev", d))

Word == NoValue \/ Metric \/ Mss \/ Window \/ Irtt \/ Flag \/ NetmaskWord \/ GatewayWord \/ Device

\* A device without dev must be the last word.
Bare ==
    /\ stage = "words" /\ family = "inet" /\ rt.dev = NoDevice
    /\ \E d \in Devices : /\ rt' = With(rt, "dev", d)
                          /\ given' = Append(given, [word |-> "dev", value |-> d])
    /\ \/ stage' = "last" /\ UNCHANGED result
       \/ stage' = "done" /\ result' = "usage"
    /\ UNCHANGED <<told, sockets, Asked>>

Contiguous(mask) == \E k \in 0 .. Width : mask = k .. Width - 1

\* The sanity checks: no mask goes with a host route.
F_Sane(route) == route.genmask # {} => Contiguous(route.genmask) /\ route.dst \subseteq route.genmask
Sane(route) ==
    route.genmask # {} => /\ "host" \notin route.flags
                          /\ Contiguous(route.genmask) /\ route.dst \subseteq route.genmask

LastWord ==
    /\ stage \in {"words", "last"} /\ family = "inet"
    /\ IF Sane(rt)
       THEN /\ stage' = "socket"
            /\ rt' = With(With(rt, "dev", IF "reject" \in rt.flags /\ rt.dev = NoDevice THEN "lo" ELSE rt.dev),
                       "genmask", IF command = "add" /\ "host" \in rt.flags THEN Bits ELSE rt.genmask)
            /\ UNCHANGED <<result, given, told, sockets>>
       ELSE Ends("option error")
    /\ UNCHANGED Asked

-----------------------------------------------------------------------------
(* X25_setroute and X25_input.  The digits of an address are their number. *)

\* An address that is too long or has too few digits is an error; without a slash
\* X25_input then writes through a null pointer.  Only significant + 1 characters are
\* copied, into a variable nobody initialised: of a longer address the kernel is told one
\* digit more than counts, and then whatever is there.
Copied(length, significant) == IF significant = length THEN {length} ELSE {significant + 1 + g : g \in Garbage25}
Target25 ==
    /\ stage = "target" /\ family = "x25"
    /\ \E length \in Digits25, slash \in BOOLEAN, digits \in Digits25 :
         LET significant == IF slash THEN digits ELSE length
         IN \/ length > 18 /\ Ends("error")
            \/ /\ length <= 18
               /\ IF length \in 1 .. 15 /\ significant <= length
                  THEN /\ \E copied \in Copied(length, significant) :
                             rt' = With(With(rt, "length", copied), "sigdigits", significant)
                       /\ given' = <<[word |-> "none", as |-> length, mask |-> significant]>>
                       /\ stage' = "words" /\ UNCHANGED <<result, told, sockets>>
                  ELSE IF slash THEN Ends("error")
                       ELSE stage' = "crashed" /\ UNCHANGED <<result, rt, given, told, sockets>>
    /\ UNCHANGED Asked

\* [dev] If, once.
Word25 ==
    /\ stage = "words" /\ family = "x25"
    /\ \/ Usage
       \/ \E d \in Devices : /\ rt.dev = NoDevice
                             /\ Reads("dev", d, With(rt, "dev", d))
    /\ UNCHANGED Asked

LastWord25 ==
    /\ stage = "words" /\ family = "x25"
    /\ IF rt.dev = NoDevice THEN Usage
       ELSE IF rt.sigdigits > 15 \/ rt.sigdigits > rt.length THEN Ends("option error")
       ELSE stage' = "socket" /\ UNCHANGED <<result, rt, given, told, sockets>>
    /\ UNCHANGED Asked

-----------------------------------------------------------------------------
OpenSocket ==
    /\ stage = "socket"
    /\ \/ Ends("socket error")
       \/ stage' = "tell" /\ sockets' = sockets + 1 /\ UNCHANGED <<result, rt, given, told>>
    /\ UNCHANGED Asked

\* The kernel may refuse.
Tell ==
    /\ stage = "tell" /\ told' = {rt}
    /\ result' \in {"ok", "socket error"} /\ sockets' = sockets - 1 /\ stage' = "done"
    /\ UNCHANGED <<rt, given, Asked>>

RouteNext == RouteEdit \/ Target \/ Word \/ Bare \/ LastWord \/ Target25 \/ Word25 \/ LastWord25
             \/ OpenSocket \/ Tell

RouteSpec == RouteInit /\ [][RouteNext]_routeVars

-----------------------------------------------------------------------------
(* Properties.                                                             *)

InetFits(r) ==
    /\ "host" \in r.flags => r.genmask = (IF command = "add" THEN Bits ELSE {})
    /\ "host" \notin r.flags /\ r.genmask # {} => Contiguous(r.genmask) /\ r.dst \subseteq r.genmask
    /\ "reject" \in r.flags => r.dev # NoDevice
    /\ "mss" \in r.flags => r.mss >= 64 /\ r.mss <= 65536
    /\ "window" \in r.flags => r.window >= 128
X25Fits(r) == r.sigdigits <= r.length /\ r.sigdigits <= 15 /\ r.dev # NoDevice

\* Whatever the words, what the kernel is told fits together: a host route has the mask
\* its command needs, a network's mask is contiguous and covers the target, a rejecting
\* route has a device, mss and window are in range, an X.25 route compares no more
\* digits than it is told; and no way out of the command leaves a socket open.
RouteFits ==
    /\ family = "inet" => \A r \in told : InetFits(r)
    /\ family = "x25" => \A r \in told : X25Fits(r)
    /\ stage \in {"done", "crashed"} => sockets = 0

Said(word) == {i \in 2 .. Len(given) : given[i].word = word}
LastSaid(word, default) ==
    IF Said(word) = {} THEN default
    ELSE given[CHOOSE i \in Said(word) : \A k \in Said(word) : k <= i].value

AsGiven(r) ==
    LET target == given[1]
        net == IF target.word = "none" THEN target.as.net ELSE target.word = "#net"
        masks == ({target.mask} \cup {given[i].value : i \in Said("netmask")}) \ {{}}
    IN /\ r.dst = target.as.address
       /\ r.flags = {"up"} \cup (IF net THEN {} ELSE {"host"})
             \cup {f \in {"reject", "mod", "dyn", "reinstate", "mss", "window", "irtt"} : Said(f) # {}}
             \cup (IF Said("gw") # {} THEN {"gateway"} ELSE {})
       /\ net => r.genmask = LastSaid("netmask", target.mask)
       /\ \A a, b \in masks : a = b
       /\ \A w \in {"gw", "dev"} : \A i, k \in Said(w) : i = k
       /\ Said("gw") # {} => r.gateway = LastSaid("gw", {})
       /\ r.metric = (IF Said("metric") = {} THEN 0 ELSE Short(LastSaid("metric", 0) + 1))
       /\ r.mss = LastSaid("mss", 0) /\ r.window = LastSaid("window", 0)
       /\ r.irtt = UnsignedShort(LastSaid("irtt", 0))
       /\ r.dev = LastSaid("dev", IF Said("reject") # {} THEN "lo" ELSE NoDevice)

\* The kernel is told what the words say, read together and not one by one: the target
\* is a host or a network as the flag or else the database says, whatever a later name
\* was found as; the last value of an option counts, metric and irtt as far as sixteen bits
\* hold them (metric 65535 and irtt 65536 are told as 0); a mask that is not zero, a
\* gateway and a device are said once.
RouteAsGiven == family = "inet" => \A r \in told : AsGiven(r)
=============================================================================
