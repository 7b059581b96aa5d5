---------------------------- MODULE RouteProofs ----------------------------
(***************************************************************************)
(* libnettools.  Whatever the words of a route command, what the kernel is *)
(* told fits together and is what they say; whatever the header and the    *)
(* lines of a table, what is printed under a title is from its column,     *)
(* with the exceptions ColumnsFound names; and an address is called the    *)
(* same in every table.                                                    *)
(***************************************************************************)
EXTENDS RouteCommand, RouteTables, WellFoundedInduction, FiniteSetTheorems, TLAPS

Flags == {"up", "host", "gateway", "mss", "window", "irtt", "reject", "mod", "dyn", "reinstate"}

Route == [dst : SUBSET Bits, genmask : SUBSET Bits, gateway : SUBSET Bits, flags : SUBSET Flags,
          metric : Int, mss : Nat, window : Nat, irtt : Nat, dev : Devices \cup {NoDevice, "lo"},
          length : Nat, sigdigits : Nat]

\* The options of a route are checked as they are read; the rest once, before there is a
\* socket.
Checked(r) == /\ "mss" \in r.flags => r.mss >= 64 /\ r.mss <= 65536
              /\ "window" \in r.flags => r.window >= 128

Fits == (family = "inet" => InetFits(rt)) /\ (family = "x25" => X25Fits(rt))

Stages == {"start", "target", "words", "last", "socket", "tell", "done", "crashed"}

RouteInv ==
    /\ rt \in Route /\ stage \in Stages
    /\ sockets = IF stage = "tell" THEN 1 ELSE 0
    /\ told # {} => stage = "done" /\ told = {rt} /\ Fits
    /\ stage \in {"start", "target", "words", "last"} => Checked(rt)
    /\ stage \in {"start", "target"} => rt.flags = {}
    /\ stage \in {"socket", "tell"} => Fits

LEMMA RouteInvFits == RouteInv => RouteFits
BY DEF RouteInv, RouteFits, Fits

LEMMA RouteInvInit == RouteInit => RouteInv
<1> SUFFICES ASSUME RouteInit PROVE RouteInv  OBVIOUS
<1>1. rt \in Route  BY DEF RouteInit, Empty, Route
<1>2. rt.flags = {}  BY DEF RouteInit, Empty
<1> QED  BY <1>1, <1>2 DEF RouteInit, RouteInv, Checked, Stages

-----------------------------------------------------------------------------
(* What setting a field keeps.                                             *)

LEMMA WithMetric ==
    ASSUME NEW r \in Route, NEW n \in Int
    PROVE  /\ With(r, "metric", n) \in Route
           /\ With(r, "metric", n).flags = r.flags
           /\ With(r, "metric", n).mss = r.mss /\ With(r, "metric", n).window = r.window
BY Zenon DEF Route, With

LEMMA WithNumber ==
    ASSUME NEW r \in Route, NEW f \in {"irtt", "length", "sigdigits"}, NEW n \in Nat
    PROVE  /\ With(r, f, n) \in Route
           /\ With(r, f, n).flags = r.flags
           /\ With(r, f, n).mss = r.mss /\ With(r, f, n).window = r.window
BY Zenon DEF Route, With

LEMMA WithMss ==
    ASSUME NEW r \in Route, NEW n \in Nat
    PROVE  /\ With(r, "mss", n) \in Route
           /\ With(r, "mss", n).flags = r.flags
           /\ With(r, "mss", n).mss = n /\ With(r, "mss", n).window = r.window
BY Zenon DEF Route, With

LEMMA WithWindow ==
    ASSUME NEW r \in Route, NEW n \in Nat
    PROVE  /\ With(r, "window", n) \in Route
           /\ With(r, "window", n).flags = r.flags
           /\ With(r, "window", n).mss = r.mss /\ With(r, "window", n).window = n
BY Zenon DEF Route, With

LEMMA WithFlags ==
    ASSUME NEW r \in Route, NEW flags \in SUBSET Flags
    PROVE  /\ With(r, "flags", flags) \in Route
           /\ With(r, "flags", flags).flags = flags
           /\ With(r, "flags", flags).mss = r.mss /\ With(r, "flags", flags).window = r.window
BY Zenon DEF Route, With

LEMMA WithAddress ==
    ASSUME NEW r \in Route, NEW f \in {"dst", "genmask", "gateway"}, NEW a \in SUBSET Bits
    PROVE  /\ With(r, f, a) \in Route
           /\ With(r, f, a).flags = r.flags
           /\ With(r, f, a).mss = r.mss /\ With(r, f, a).window = r.window
           /\ With(r, f, a).dev = r.dev
BY Zenon DEF Route, With

LEMMA WithDevice ==
    ASSUME NEW r \in Route, NEW d \in Devices \cup {NoDevice, "lo"}
    PROVE  /\ With(r, "dev", d) \in Route
           /\ With(r, "dev", d).flags = r.flags
           /\ With(r, "dev", d).mss = r.mss /\ With(r, "dev", d).window = r.window
           /\ With(r, "dev", d).dev = d /\ With(r, "dev", d).dst = r.dst
BY Zenon DEF Route, With

LEMMA WithFlag ==
    ASSUME rt \in Route, NEW f \in Flags
    PROVE  /\ Flagged(f) \in Route
           /\ Flagged(f).flags = rt.flags \cup {f}
           /\ Flagged(f).mss = rt.mss /\ Flagged(f).window = rt.window
<1>1. rt.flags \cup {f} \in SUBSET Flags  BY DEF Route
<1> QED  BY <1>1, WithFlags DEF Flagged

\* What a name is resolved to is an address.
LEMMA ResolvedIsAddress ==
    ASSUME NEW t \in Texts, NEW h, NEW a, NEW f \in Resolve(t, h, a)
    PROVE  f.address \in SUBSET Bits
<1>1. CASE t.kind = "default"  BY <1>1 DEF Resolve, Found
<1>2. CASE t.kind = "number"
  <2>1. f.address = t.address  BY <1>2 DEF Resolve, Found
  <2>2. t.address \in Quads  BY <1>2 DEF Texts
  <2> QED  BY <2>1, <2>2, RouteCommandAssumption DEF Bits
<1>3. CASE t.kind = "name"
  <2>1. f \in AsHost(t, a) \cup AsNet(t)  BY <1>3 DEF Resolve
  <2>2. CASE f \in AsHost(t, a)
    <3>1. t.name \in DOMAIN HostOf /\ f.address = HostOf[t.name]  BY <2>2 DEF AsHost, Found
    <3> QED  BY <3>1, RouteCommandAssumption DEF Bits
  <2>3. CASE f \in AsNet(t)
    <3>1. t.name \in DOMAIN NetOf /\ f.address = NetOf[t.name]  BY <2>3 DEF AsNet, Found
    <3> QED  BY <3>1, RouteCommandAssumption DEF Bits
  <2> QED  BY <2>1, <2>2, <2>3
<1> QED  BY <1>1, <1>2, <1>3 DEF Texts

-----------------------------------------------------------------------------
(* The steps.                                                              *)

LEMMA FitsStays ==
    ASSUME Fits, rt' = rt, UNCHANGED Asked
    PROVE  Fits'
BY DEF Fits, Asked, InetFits, X25Fits

LEMMA RouteInvEnds ==
    ASSUME RouteInv, NEW s, Ends(s), UNCHANGED Asked, stage \notin {"tell", "done"}
    PROVE  RouteInv'
<1>1. told' = {} /\ stage' = "done" /\ rt' = rt /\ sockets' = sockets  BY DEF RouteInv, Ends
<1>2. rt \in Route /\ sockets = 0  BY DEF RouteInv
<1> QED  BY <1>1, <1>2 DEF RouteInv, Stages

\* Any step that reads on.
LEMMA RouteInvReadsOn ==
    ASSUME RouteInv, stage \in {"start", "target", "words"}, rt' \in Route, Checked(rt'),
           stage' \in {"words", "last", "done"}, UNCHANGED <<told, sockets>>
    PROVE  RouteInv'
<1>1. told' = {} /\ sockets' = 0  BY DEF RouteInv
<1>2. Checked(rt)'  BY DEF Checked
<1> QED  BY <1>1, <1>2 DEF RouteInv, Stages

LEMMA RouteInvReads ==
    ASSUME RouteInv, NEW w, NEW v, NEW r \in Route, stage = "words", Reads(w, v, r), Checked(r)
    PROVE  RouteInv'
BY RouteInvReadsOn DEF Reads

LEMMA RouteInvTarget == RouteInv /\ Target => RouteInv'
<1> SUFFICES ASSUME RouteInv, Target PROVE RouteInv'  OBVIOUS
<1>0. stage = "target" /\ UNCHANGED Asked  BY DEF Target
<1>1. rt \in Route  BY DEF RouteInv
<1>2. ASSUME NEW s, Ends(s) PROVE RouteInv'  BY <1>0, <1>2, RouteInvEnds
<1>3. ASSUME NEW flag, NEW f, f.address \in SUBSET Bits, NEW mask \in SUBSET Bits,
             ReadsTarget(flag, f, mask)
      PROVE  RouteInv'
  <2> DEFINE flags == TargetFlags(flag = "#net" \/ (flag = "none" /\ f.net))
  <2>1. flags \in SUBSET Flags /\ "mss" \notin flags /\ "window" \notin flags
        BY DEF TargetFlags, Flags
  <2>2. /\ rt' = With(With(With(rt, "dst", f.address), "genmask", mask), "flags", flags)
        /\ stage' = "words" /\ UNCHANGED <<told, sockets>>
        BY <1>3 DEF ReadsTarget
  <2> HIDE DEF flags
  <2>3. With(rt, "dst", f.address) \in Route  BY <1>1, <1>3, WithAddress
  <2>4. With(With(rt, "dst", f.address), "genmask", mask) \in Route  BY <1>3, <2>3, WithAddress
  <2>5. rt' \in Route /\ rt'.flags = flags  BY <2>1, <2>2, <2>4, WithFlags
  <2>6. Checked(rt')  BY <2>1, <2>5 DEF Checked
  <2> QED  BY <1>0, <2>2, <2>5, <2>6, RouteInvReadsOn
<1>4. ASSUME NEW n \in -1 .. Width + 1, NEW mask \in MasksOf(n) PROVE mask \in SUBSET Bits
      BY <1>4 DEF MasksOf, Prefix
<1>5. CASE Usage  BY <1>2, <1>5 DEF Usage
<1>6. CASE ~Usage
  <2>1. PICK flag \in {"#net", "#host", "none"}, t \in Texts, answers \in BOOLEAN :
            \/ Ends("error")
            \/ \E prefix \in -1 .. Width + 1 :
                  \E f \in Resolve(t, flag = "#host", answers), mask \in MasksOf(prefix) :
                     ReadsTarget(flag, f, mask)
        BY <1>6, Zenon DEF Target
  <2>2. CASE Ends("error")  BY <1>2, <2>2
  <2>3. CASE ~Ends("error")
    <3>1. PICK prefix \in -1 .. Width + 1 :
             \E f \in Resolve(t, flag = "#host", answers), mask \in MasksOf(prefix) :
                ReadsTarget(flag, f, mask)
          BY <2>1, <2>3, Zenon
    <3>2. PICK f \in Resolve(t, flag = "#host", answers), mask \in MasksOf(prefix) :
             ReadsTarget(flag, f, mask)
          BY <3>1, Zenon
    <3>3. f.address \in SUBSET Bits  BY <3>2, ResolvedIsAddress, Zenon
    <3>4. mask \in SUBSET Bits  BY <1>4, <3>2, Zenon
    <3> QED  BY <1>3, <3>2, <3>3, <3>4, Zenon
  <2> QED  BY <2>2, <2>3
<1> QED  BY <1>5, <1>6

LEMMA RouteInvWord == RouteInv /\ Word => RouteInv'
<1> SUFFICES ASSUME RouteInv, Word PROVE RouteInv'  OBVIOUS
<1>0. Reading
      BY Zenon DEF Word, NoValue, Metric, Mss, Window, Irtt, Flag, NetmaskWord, GatewayWord, Device
<1>1. stage = "words" /\ UNCHANGED Asked  BY <1>0, Zenon DEF Reading
<1>2. rt \in Route /\ Checked(rt)  BY <1>1 DEF RouteInv
<1>3. ASSUME NEW s, Ends(s) PROVE RouteInv'  BY <1>1, <1>3, RouteInvEnds
<1>4. ASSUME NEW n \in Numbers PROVE n \in Nat  BY <1>4, RouteCommandAssumption
<1>5. CASE NoValue  BY <1>3, <1>5 DEF NoValue, Usage
<1>6. CASE Metric
  <2>1. PICK n \in Numbers : Reads("metric", n, With(rt, "metric", Short(n + 1)))  BY <1>6, Zenon DEF Metric
  <2> DEFINE v == Short(n + 1)
  <2>2. v \in Int  BY <1>4 DEF Short
  <2>3. Reads("metric", n, With(rt, "metric", v))  BY <2>1
  <2> HIDE DEF v
  <2>4. /\ With(rt, "metric", v) \in Route /\ With(rt, "metric", v).flags = rt.flags
        /\ With(rt, "metric", v).mss = rt.mss /\ With(rt, "metric", v).window = rt.window
        BY <1>2, <2>2, WithMetric, Zenon
  <2>5. Checked(With(rt, "metric", v))  BY <1>2, <2>4 DEF Checked
  <2> QED  BY <1>1, <2>3, <2>4, <2>5, RouteInvReads
<1>7. CASE Mss
  <2>1. PICK n \in Numbers : IF MssRefused(n) THEN Ends("option error")
                             ELSE Reads("mss", n, With(Flagged("mss"), "mss", n))
        BY <1>7, Zenon DEF Mss
  <2>2. CASE MssRefused(n)  BY <1>3, <2>1, <2>2
  <2>3. CASE ~MssRefused(n)
    <3>1. n \in Nat /\ n >= 64 /\ n <= 65536  BY <1>4, <2>3 DEF MssRefused
    <3>2. Flagged("mss") \in Route /\ Flagged("mss").window = rt.window
          /\ Flagged("mss").flags = rt.flags \cup {"mss"}
          BY <1>2, WithFlag DEF Flags
    <3>a. n \in Nat  BY <3>1
    <3>3. With(Flagged("mss"), "mss", n) \in Route  BY <3>a, <3>2, WithMss, Zenon
    <3>4. /\ With(Flagged("mss"), "mss", n).flags = rt.flags \cup {"mss"}
          /\ With(Flagged("mss"), "mss", n).mss = n
          /\ With(Flagged("mss"), "mss", n).window = rt.window
          BY <3>a, <3>2, WithMss, Zenon
    <3>5. Checked(With(Flagged("mss"), "mss", n))  BY <1>2, <3>1, <3>4 DEF Checked
    <3> QED  BY <1>1, <2>1, <2>3, <3>3, <3>5, RouteInvReads
  <2> QED  BY <2>2, <2>3
<1>8. CASE Window
  <2>1. PICK n \in Numbers : IF n < 128 THEN Ends("option error")
                             ELSE Reads("window", n, With(Flagged("window"), "window", n))
        BY <1>8, Zenon DEF Window
  <2>2. CASE n < 128  BY <1>3, <2>1, <2>2
  <2>3. CASE ~(n < 128)
    <3>1. n \in Nat /\ n >= 128  BY <1>4, <2>3
    <3>2. Flagged("window") \in Route /\ Flagged("window").mss = rt.mss
          /\ Flagged("window").flags = rt.flags \cup {"window"}
          BY <1>2, WithFlag DEF Flags
    <3>3. With(Flagged("window"), "window", n) \in Route  BY <3>1, <3>2, WithWindow, Zenon
    <3>4. /\ With(Flagged("window"), "window", n).flags = rt.flags \cup {"window"}
          /\ With(Flagged("window"), "window", n).window = n
          /\ With(Flagged("window"), "window", n).mss = rt.mss
          BY <3>1, <3>2, WithWindow, Zenon
    <3>5. Checked(With(Flagged("window"), "window", n))  BY <1>2, <3>1, <3>4 DEF Checked
    <3> QED  BY <1>1, <2>1, <2>3, <3>3, <3>5, RouteInvReads
  <2> QED  BY <2>2, <2>3
<1>9. CASE Irtt
  <2>1. PICK n \in Numbers : Reads("irtt", n, With(Flagged("irtt"), "irtt", UnsignedShort(n)))
        BY <1>9, Zenon DEF Irtt
  <2> DEFINE v == UnsignedShort(n)
  <2>2. v \in Nat  BY <1>4 DEF UnsignedShort
  <2>a. Reads("irtt", n, With(Flagged("irtt"), "irtt", v))  BY <2>1
  <2> HIDE DEF v
  <2>3. /\ Flagged("irtt") \in Route /\ Flagged("irtt").flags = rt.flags \cup {"irtt"}
        /\ Flagged("irtt").mss = rt.mss /\ Flagged("irtt").window = rt.window
        BY <1>2, WithFlag DEF Flags
  <2>4. With(Flagged("irtt"), "irtt", v) \in Route  BY <2>2, <2>3, WithNumber, Zenon
  <2>5. /\ With(Flagged("irtt"), "irtt", v).flags = rt.flags \cup {"irtt"}
        /\ With(Flagged("irtt"), "irtt", v).mss = rt.mss
        /\ With(Flagged("irtt"), "irtt", v).window = rt.window
        BY <2>2, <2>3, WithNumber, Zenon
  <2>6. Checked(With(Flagged("irtt"), "irtt", v))  BY <1>2, <2>5 DEF Checked
  <2> QED  BY <1>1, <2>a, <2>4, <2>6, RouteInvReads
<1>10. CASE Flag
  <2>1. PICK f \in {"reject", "mod", "dyn", "reinstate"} : Reads(f, f, Flagged(f))
        BY <1>10, Zenon DEF Flag
  <2>2. f \in Flags /\ f \notin {"mss", "window"}  BY DEF Flags
  <2>3. Flagged(f) \in Route /\ Checked(Flagged(f))  BY <1>2, <2>2, WithFlag DEF Checked
  <2> QED  BY <1>1, <2>1, <2>3, RouteInvReads
<1>11. ASSUME NEW mask \in SUBSET Bits, Netmask(mask) PROVE RouteInv'
  <2>1. With(rt, "genmask", mask) \in Route /\ Checked(With(rt, "genmask", mask))
        BY <1>2, <1>11, WithAddress DEF Checked
  <2> QED  BY <1>1, <1>3, <1>11, <2>1, RouteInvReads DEF Netmask, Usage
<1>12. CASE NetmaskWord
  <2>1. PICK t \in Texts, answers \in BOOLEAN :
           Ends("lookup") \/ \E f \in Resolve(t, FALSE, answers) : Netmask(f.address)
        BY <1>12, Zenon DEF NetmaskWord
  <2>2. CASE \E f \in Resolve(t, FALSE, answers) : Netmask(f.address)
        BY <1>11, <2>2, ResolvedIsAddress, Zenon
  <2> QED  BY <1>3, <2>1, <2>2
<1>13. ASSUME NEW f, f.address \in SUBSET Bits, Gateway(f) PROVE RouteInv'
  <2>1. /\ Flagged("gateway") \in Route /\ Flagged("gateway").flags = rt.flags \cup {"gateway"}
        /\ Flagged("gateway").mss = rt.mss /\ Flagged("gateway").window = rt.window
        BY <1>2, WithFlag DEF Flags
  <2>2. With(Flagged("gateway"), "gateway", f.address) \in Route  BY <1>13, <2>1, WithAddress, Zenon
  <2>3. /\ With(Flagged("gateway"), "gateway", f.address).flags = rt.flags \cup {"gateway"}
        /\ With(Flagged("gateway"), "gateway", f.address).mss = rt.mss
        /\ With(Flagged("gateway"), "gateway", f.address).window = rt.window
        BY <1>13, <2>1, WithAddress, Zenon
  <2>4. Checked(With(Flagged("gateway"), "gateway", f.address))  BY <1>2, <2>3 DEF Checked
  <2> QED  BY <1>1, <1>3, <1>13, <2>2, <2>4, RouteInvReads DEF Gateway, Usage
<1>14. CASE GatewayWord
  <2>1. PICK t \in Texts, answers \in BOOLEAN :
           Ends("lookup") \/ \E f \in Resolve(t, TRUE, answers) : Gateway(f)
        BY <1>14, Zenon DEF GatewayWord
  <2>2. CASE \E f \in Resolve(t, TRUE, answers) : Gateway(f)
        BY <1>13, <2>2, ResolvedIsAddress, Zenon
  <2> QED  BY <1>3, <2>1, <2>2
<1>15. CASE Device
  <2>1. PICK d \in Devices : Usage \/ Reads("dev", d, With(rt, "dev", d))  BY <1>15, Zenon DEF Device
  <2>2. With(rt, "dev", d) \in Route /\ Checked(With(rt, "dev", d))
        BY <1>2, WithDevice DEF Checked
  <2> QED  BY <1>1, <1>3, <2>1, <2>2, RouteInvReads DEF Usage
<1> QED  BY <1>5, <1>6, <1>7, <1>8, <1>9, <1>10, <1>12, <1>14, <1>15 DEF Word

LEMMA RouteInvBare == RouteInv /\ Bare => RouteInv'
<1> SUFFICES ASSUME RouteInv, Bare PROVE RouteInv'  OBVIOUS
<1>1. PICK d \in Devices : rt' = With(rt, "dev", d)  BY DEF Bare
<1>2. rt \in Route /\ Checked(rt) /\ stage = "words"  BY DEF RouteInv, Bare
<1>3. rt' \in Route /\ Checked(rt')  BY <1>1, <1>2, WithDevice DEF Checked
<1>4. stage' \in {"last", "done"} /\ UNCHANGED <<told, sockets>>  BY DEF Bare
<1> QED  BY <1>2, <1>3, <1>4, RouteInvReadsOn

LEMMA RouteInvLastWord == RouteInv /\ LastWord => RouteInv'
<1> SUFFICES ASSUME RouteInv, LastWord PROVE RouteInv'  OBVIOUS
<1>0. stage \in {"words", "last"} /\ UNCHANGED Asked /\ family = "inet"  BY DEF LastWord
<1>1. CASE ~Sane(rt)  BY <1>0, <1>1, RouteInvEnds DEF LastWord
<1>2. CASE Sane(rt)
  <2>1. rt \in Route /\ Checked(rt) /\ told = {} /\ sockets = 0  BY <1>0 DEF RouteInv
  <2> DEFINE dev == IF "reject" \in rt.flags /\ rt.dev = NoDevice THEN "lo" ELSE rt.dev
             mask == IF command = "add" /\ "host" \in rt.flags THEN Bits ELSE rt.genmask
             q == With(rt, "dev", dev)
  <2>2. rt' = With(q, "genmask", mask) /\ stage' = "socket" /\ UNCHANGED <<told, sockets>>
        BY <1>2 DEF LastWord
  <2>3. dev \in Devices \cup {NoDevice, "lo"} /\ mask \in SUBSET Bits  BY <2>1 DEF Route
  <2>4. "reject" \in rt.flags => dev # NoDevice  BY DEF NoDevice
  <2>5. /\ "host" \in rt.flags => mask = (IF command = "add" THEN Bits ELSE rt.genmask)
        /\ "host" \notin rt.flags => mask = rt.genmask
        OBVIOUS
  <2> HIDE DEF dev, mask
  <2>6. /\ q \in Route /\ q.flags = rt.flags /\ q.mss = rt.mss /\ q.window = rt.window
        /\ q.dev = dev /\ q.dst = rt.dst
        BY <2>1, <2>3, WithDevice
  <2> HIDE DEF q
  <2>7. /\ rt' \in Route /\ rt'.flags = q.flags /\ rt'.mss = q.mss /\ rt'.window = q.window
        /\ rt'.dev = q.dev
        BY <2>2, <2>3, <2>6, WithAddress
  <2>8. rt'.genmask = mask /\ rt'.dst = q.dst  BY <2>2, <2>6, Zenon DEF Route, With
  <2>9. "host" \in rt'.flags => rt'.genmask = (IF command = "add" THEN Bits ELSE {})
        BY <1>2, <2>5, <2>6, <2>7, <2>8 DEF Sane
  <2>10. "host" \notin rt'.flags /\ rt'.genmask # {} =>
            Contiguous(rt'.genmask) /\ rt'.dst \subseteq rt'.genmask
        BY <1>2, <2>5, <2>6, <2>7, <2>8 DEF Sane
  <2>11. "reject" \in rt'.flags => rt'.dev # NoDevice  BY <2>4, <2>6, <2>7
  <2>12. Checked(rt')  BY <2>1, <2>6, <2>7 DEF Checked
  <2>13. command' = command /\ family' = family  BY <1>0 DEF Asked
  <2>14. InetFits(rt)'
         BY <2>9, <2>10, <2>11, <2>12, <2>13 DEF InetFits, Checked, Contiguous
  <2>15. Fits'  BY <1>0, <2>13, <2>14 DEF Fits
  <2> QED  BY <2>1, <2>2, <2>7, <2>15 DEF RouteInv, Stages
<1> QED  BY <1>1, <1>2

LEMMA RouteInvX25 == RouteInv /\ (Target25 \/ Word25 \/ LastWord25) => RouteInv'
<1> SUFFICES ASSUME RouteInv, Target25 \/ Word25 \/ LastWord25 PROVE RouteInv'  OBVIOUS
<1>0. stage \in {"target", "words"} /\ UNCHANGED Asked  BY DEF Target25, Word25, LastWord25
<1>1. rt \in Route /\ Checked(rt) /\ told = {} /\ sockets = 0  BY <1>0 DEF RouteInv
<1>2. ASSUME NEW s, Ends(s) PROVE RouteInv'  BY <1>0, <1>2, RouteInvEnds
<1>3. CASE Target25
  <2>1. \/ Ends("error")
        \/ stage' = "crashed" /\ UNCHANGED <<rt, told, sockets>>
        \/ \E length, s \in Digits25 : \E copied \in Copied(length, s) :
              /\ rt' = With(With(rt, "length", copied), "sigdigits", s)
              /\ stage' = "words" /\ UNCHANGED <<told, sockets>>
        BY <1>3, Zenon DEF Target25
  <2>2. CASE stage' = "crashed" /\ UNCHANGED <<rt, told, sockets>>
        BY <1>1, <2>2 DEF RouteInv, Stages
  <2>3. ASSUME NEW length \in Digits25, NEW s \in Digits25, NEW copied \in Copied(length, s),
               rt' = With(With(rt, "length", copied), "sigdigits", s),
               stage' = "words", UNCHANGED <<told, sockets>> PROVE RouteInv'
    <3>1. copied \in Nat /\ s \in Nat
      <4>1. length \in Nat /\ s \in Nat /\ \A g \in Garbage25 : g \in Nat
            BY RouteCommandAssumption
      <4>2. copied = length \/ \E g \in Garbage25 : copied = s + 1 + g  BY DEF Copied
      <4> QED  BY <4>1, <4>2
    <3> DEFINE q == With(rt, "length", copied)
    <3>a. rt \in Route /\ Checked(rt)  BY <1>1
    <3>b. q \in Route /\ q.flags = rt.flags /\ q.mss = rt.mss /\ q.window = rt.window
          BY <3>a, <3>1, WithNumber, Zenon
    <3>2. q \in Route /\ Checked(q)  BY <3>a, <3>b DEF Checked
    <3> HIDE DEF q
    <3>3. rt' = With(q, "sigdigits", s)  BY <2>3 DEF q
    <3>c. rt' \in Route /\ rt'.flags = q.flags /\ rt'.mss = q.mss /\ rt'.window = q.window
          BY <3>1, <3>2, <3>3, WithNumber, Zenon
    <3>4. rt' \in Route /\ Checked(rt')  BY <3>2, <3>c DEF Checked
    <3> QED  BY <1>0, <2>3, <3>4, RouteInvReadsOn
  <2> QED  BY <1>2, <2>1, <2>2, <2>3
<1>4. CASE Word25
  <2>1. CASE Usage  BY <1>2, <2>1 DEF Usage
  <2>2. ASSUME NEW d \in Devices, Reads("dev", d, With(rt, "dev", d)) PROVE RouteInv'
    <3>1. With(rt, "dev", d) \in Route /\ Checked(With(rt, "dev", d))
          BY <1>1, <2>2, WithDevice DEF Checked
    <3>2. stage = "words"  BY <1>4 DEF Word25
    <3> QED  BY <2>2, <3>1, <3>2, RouteInvReads
  <2> QED  BY <1>4, <2>1, <2>2 DEF Word25
<1>5. CASE LastWord25
  <2>1. CASE rt.dev = NoDevice  BY <1>2, <1>5, <2>1 DEF LastWord25, Usage
  <2>2. CASE rt.dev # NoDevice /\ (rt.sigdigits > 15 \/ rt.sigdigits > rt.length)
        BY <1>2, <1>5, <2>2 DEF LastWord25
  <2>3. CASE rt.dev # NoDevice /\ ~(rt.sigdigits > 15 \/ rt.sigdigits > rt.length)
    <3>1. X25Fits(rt)  BY <1>1, <2>3 DEF X25Fits, Route
    <3>2. stage' = "socket" /\ UNCHANGED <<rt, told, sockets>> /\ family = "x25"
          BY <1>5, <2>3 DEF LastWord25
    <3>3. Fits'  BY <1>0, <3>1, <3>2, FitsStays DEF Fits
    <3> QED  BY <1>1, <3>2, <3>3 DEF RouteInv, Stages
  <2> QED  BY <2>1, <2>2, <2>3
<1> QED  BY <1>3, <1>4, <1>5

LEMMA RouteInvSocket == RouteInv /\ (OpenSocket \/ Tell) => RouteInv'
<1> SUFFICES ASSUME RouteInv, OpenSocket \/ Tell PROVE RouteInv'  OBVIOUS
<1>1. UNCHANGED Asked /\ stage \in {"socket", "tell"}  BY DEF OpenSocket, Tell
<1>2. rt \in Route /\ Fits /\ told = {}  BY <1>1 DEF RouteInv
<1>3. CASE OpenSocket
  <2>1. CASE Ends("socket error")  BY <1>1, <1>3, <2>1, RouteInvEnds DEF OpenSocket
  <2>2. CASE ~Ends("socket error")
    <3>1. stage = "socket" /\ stage' = "tell" /\ sockets' = sockets + 1 /\ UNCHANGED <<rt, told>>
          BY <1>3, <2>2 DEF OpenSocket
    <3>2. sockets' = 1  BY <3>1 DEF RouteInv
    <3>3. Fits'  BY <1>1, <1>2, <3>1, FitsStays
    <3> QED  BY <1>2, <3>1, <3>2, <3>3 DEF RouteInv, Stages
  <2> QED  BY <2>1, <2>2
<1>4. CASE Tell
  <2>1. stage = "tell" /\ stage' = "done" /\ sockets' = sockets - 1 /\ rt' = rt /\ told' = {rt}
        BY <1>4 DEF Tell
  <2>2. sockets' = 0  BY <2>1 DEF RouteInv
  <2>3. Fits'  BY <1>1, <1>2, <2>1, FitsStays
  <2> QED  BY <1>2, <2>1, <2>2, <2>3 DEF RouteInv, Stages
<1> QED  BY <1>3, <1>4

LEMMA RouteInvEdit == RouteInv /\ RouteEdit => RouteInv'
<1> SUFFICES ASSUME RouteInv, RouteEdit PROVE RouteInv'  OBVIOUS
<1>1. stage = "start" /\ UNCHANGED Asked  BY DEF RouteEdit
<1>2. ASSUME NEW s, Ends(s) PROVE RouteInv'  BY <1>1, <1>2, RouteInvEnds
<1>3. CASE stage' = "target" /\ UNCHANGED <<rt, told, sockets>>
  <2>1. rt \in Route /\ Checked(rt) /\ rt.flags = {} /\ told = {} /\ sockets = 0  BY <1>1 DEF RouteInv
  <2>2. Checked(rt)'  BY <1>3, <2>1 DEF Checked
  <2> QED  BY <1>3, <2>1, <2>2 DEF RouteInv, Stages
<1>4. \/ Ends("option error") \/ Ends("ok") \/ Ends("usage")
      \/ stage' = "target" /\ UNCHANGED <<rt, told, sockets>>
      BY DEF RouteEdit, Usage
<1> QED  BY <1>2, <1>3, <1>4

LEMMA RoutesTyped == RouteSpec => []RouteInv
<1>1. RouteInv /\ [RouteNext]_routeVars => RouteInv'
  <2> SUFFICES ASSUME RouteInv, [RouteNext]_routeVars PROVE RouteInv'  OBVIOUS
  <2>1. CASE UNCHANGED routeVars
    <3>1. Fits => Fits'  BY <2>1, FitsStays DEF routeVars, Asked
    <3>2. Checked(rt)' <=> Checked(rt)  BY <2>1 DEF routeVars, Checked
    <3> QED  BY <2>1, <3>1, <3>2 DEF routeVars, RouteInv
  <2> QED  BY <2>1, RouteInvEdit, RouteInvTarget, RouteInvWord, RouteInvBare, RouteInvLastWord,
              RouteInvX25, RouteInvSocket DEF RouteNext
<1> QED  BY <1>1, RouteInvInit, PTL DEF RouteSpec

\* A command in any family, with any words, names, devices and width of addresses, tells
\* the kernel a route that fits together or none (route_edit, INET_setroute,
\* X25_setroute), and leaves no socket open.
THEOREM RoutesFit == RouteSpec => []RouteFits
<1> QED  BY RoutesTyped, RouteInvFits, PTL

-----------------------------------------------------------------------------
(* RouteCommand, what the words say.  While they are read, the route is    *)
(* what has been said so far.                                              *)

Fields == {"dst", "genmask", "gateway", "flags", "metric", "mss", "window", "irtt", "dev", "length",
           "sigdigits"}
FlagWords == {"reject", "mod", "dyn", "reinstate", "mss", "window", "irtt"}

First == given[1]
IsNet == IF First.word = "none" THEN First.as.net ELSE First.word = "#net"
ValuesSaid == {given[i].value : i \in Said("netmask")}
MasksSaid == ({First.mask} \cup ValuesSaid) \ {{}}

AsRead ==
    /\ \E S : given \in Seq(S)
    /\ Len(given) >= 1
    /\ rt.dst = First.as.address
    /\ rt.flags = {"up"} \cup (IF IsNet THEN {} ELSE {"host"}) \cup {f \in FlagWords : Said(f) # {}}
                     \cup (IF Said("gw") # {} THEN {"gateway"} ELSE {})
    /\ rt.genmask = LastSaid("netmask", First.mask)
    /\ MasksSaid \subseteq {rt.genmask}
    /\ \A w \in {"gw", "dev"} : \A i, k \in Said(w) : i = k
    /\ Said("gw") # {} => rt.gateway = LastSaid("gw", {})
    /\ rt.metric = (IF Said("metric") = {} THEN 0 ELSE Short(LastSaid("metric", 0) + 1))
    /\ \A w \in {"mss", "window"} : rt[w] = LastSaid(w, 0)
    /\ rt.irtt = UnsignedShort(LastSaid("irtt", 0))
    /\ rt.dev = LastSaid("dev", NoDevice)
    /\ Said("dev") # {} => rt.dev # NoDevice

GivenInv ==
    family = "inet" =>
        /\ stage \in {"start", "target"} => rt = Empty
        /\ stage \in {"words", "last"} => AsRead
        /\ stage \in {"socket", "tell"} => AsGiven(rt)
        /\ told # {} => AsGiven(rt)

LEMMA LeastNumber ==
    ASSUME NEW A \in SUBSET Nat, A # {}
    PROVE  \E n \in A : \A k \in A : n <= k
<1> DEFINE less == {p \in Nat \X Nat : p[1] < p[2]}
<1>1. IsWellFoundedOn(less, Nat)  BY NatLessThanWellFounded, Zenon DEF OpToRel
<1>2. PICK n \in A : \A k \in A : <<k, n>> \notin less
  <2> HIDE DEF less
  <2> QED  BY <1>1, WFMin
<1>3. \A k \in A : k < n => <<k, n>> \in less  OBVIOUS
<1>4. \A k \in A : ~(k < n)
  <2> HIDE DEF less
  <2> QED  BY <1>2, <1>3
<1> QED  BY <1>4

\* Positions of a word among those read.
LEMMA GreatestNumber ==
    ASSUME NEW n \in Nat, NEW A \in SUBSET (0 .. n), A # {}
    PROVE  \E i \in A : \A k \in A : k <= i
<1> DEFINE B == {n - i : i \in A}
<1>1. B \in SUBSET Nat /\ B # {}
  <2>1. \A i \in A : n - i \in Nat  OBVIOUS
  <2> QED  BY <2>1
<1>2. PICK b \in B : \A c \in B : b <= c
  <2> HIDE DEF B
  <2> QED  BY <1>1, LeastNumber
<1>3. PICK i \in A : b = n - i  BY <1>2
<1>4. ASSUME NEW k \in A PROVE k <= i
  <2>1. n - k \in B  OBVIOUS
  <2>2. n - i <= n - k  BY <1>2, <1>3, <2>1
  <2> QED  BY <1>3, <2>2
<1> QED  BY <1>4

LEMMA OneMore ==
    ASSUME NEW S, NEW s \in Seq(S), NEW e
    PROVE  /\ Append(s, e) \in Seq(S \cup {e}) /\ Len(s) \in Nat /\ Len(Append(s, e)) = Len(s) + 1
           /\ \A i \in 1 .. Len(s) : Append(s, e)[i] = s[i]
           /\ Append(s, e)[Len(s) + 1] = e
<1>1. s \in Seq(S \cup {e}) /\ e \in S \cup {e}
  <2>1. Len(s) \in Nat /\ s \in [1 .. Len(s) -> S \cup {e}]  OBVIOUS
  <2> QED  BY <2>1
<1> QED  BY <1>1

\* Saying a word once more.
LEMMA SaidMore ==
    ASSUME NEW S, given \in Seq(S), Len(given) >= 1, NEW w, NEW v,
           given' = Append(given, [word |-> w, value |-> v])
    PROVE  /\ \E Q : given' \in Seq(Q)
           /\ Len(given') >= 1 /\ given'[1] = given[1]
           /\ Said(w)' = Said(w) \cup {Len(given) + 1}
           /\ \A u : u # w => Said(u)' = Said(u)
           /\ \A i \in Said(w) : given'[i] = given[i]
           /\ given'[Len(given) + 1].value = v
           /\ \A d : LastSaid(w, d)' = v
           /\ \A u, d : u # w => LastSaid(u, d)' = LastSaid(u, d)
<1> DEFINE n == Len(given)
           e == [word |-> w, value |-> v]
<1>1. /\ n \in Nat /\ Len(given') = n + 1 /\ given' \in Seq(S \cup {e})
      /\ \A i \in 1 .. n : given'[i] = given[i]
      /\ given'[n + 1] = e
      BY OneMore
<1>2. e.word = w /\ e.value = v  OBVIOUS
<1> HIDE DEF e
<1>3. \A u : Said(u)' = Said(u) \cup (IF u = w THEN {n + 1} ELSE {})
  <2>1. \A u : Said(u)' = {i \in 2 .. (n + 1) : given'[i].word = u}  BY <1>1 DEF Said
  <2>2. \A i \in 2 .. (n + 1) : i \in 2 .. n \/ i = n + 1  BY <1>1
  <2>3. \A i \in 2 .. n : i \in 2 .. (n + 1) /\ given'[i] = given[i] /\ i # n + 1  BY <1>1
  <2>4. n + 1 \in 2 .. (n + 1) /\ given'[n + 1].word = w  BY <1>1, <1>2
  <2> HIDE DEF n
  <2> QED  BY <2>1, <2>2, <2>3, <2>4 DEF Said, n
<1>4. \A u : Said(u) \in SUBSET (0 .. n) /\ \A i \in Said(u) : i \in 1 .. n  BY <1>1 DEF Said
<1>5. ASSUME NEW d PROVE LastSaid(w, d)' = v
  <2> DEFINE last == CHOOSE i \in Said(w)' : \A k \in Said(w)' : k <= i
  <2>1. n + 1 \in Said(w)' /\ \A k \in Said(w)' : k <= n + 1 /\ k \in Int  BY <1>1, <1>3, <1>4
  <2>2. last \in Said(w)' /\ \A k \in Said(w)' : k <= last  BY <2>1
  <2>3. last = n + 1
    <3> HIDE DEF last
    <3> QED  BY <1>1, <2>1, <2>2
  <2>4. LastSaid(w, d)' = given'[last].value  BY <2>1 DEF LastSaid
  <2> QED  BY <1>1, <1>2, <2>3, <2>4
<1>6. ASSUME NEW u, NEW d, u # w PROVE LastSaid(u, d)' = LastSaid(u, d)
  <2>1. Said(u)' = Said(u)  BY <1>3, <1>6
  <2>2. CASE Said(u) = {}  BY <2>1, <2>2 DEF LastSaid
  <2>3. CASE Said(u) # {}
    <3> DEFINE last == CHOOSE i \in Said(u) : \A k \in Said(u) : k <= i
    <3>1. last \in Said(u)
      <4>1. \E i \in Said(u) : \A k \in Said(u) : k <= i  BY <1>1, <1>4, <2>3, GreatestNumber
      <4> QED  BY <4>1
    <3>2. LastSaid(u, d) = given[last].value  BY <2>3 DEF LastSaid
    <3>3. LastSaid(u, d)' = given'[last].value  BY <2>1, <2>3 DEF LastSaid
    <3> HIDE DEF last
    <3> QED  BY <1>1, <1>4, <3>1, <3>2, <3>3
  <2> QED  BY <2>2, <2>3
<1>7. \A i \in Said(w) : given'[i] = given[i]  BY <1>1, <1>4
<1>8. given'[1] = given[1] /\ Len(given') >= 1  BY <1>1
<1>9. \E Q : given' \in Seq(Q)  BY <1>1
<1>10. Said(w)' = Said(w) \cup {n + 1} /\ \A u : u # w => Said(u)' = Said(u)  BY <1>3
<1>11. given'[n + 1].value = v  BY <1>1, <1>2
<1> QED  BY <1>5, <1>6, <1>7, <1>8, <1>9, <1>10, <1>11

\* What reading a word does to the route.
ReadsAs(w, v) ==
    /\ rt'.dst = rt.dst
    /\ rt'.flags = rt.flags \cup (IF w \in FlagWords THEN {w} ELSE {}) \cup (IF w = "gw" THEN {"gateway"} ELSE {})
    /\ rt'.genmask = (IF w = "netmask" THEN v ELSE rt.genmask)
    /\ rt'.gateway = (IF w = "gw" THEN v ELSE rt.gateway)
    /\ rt'.metric = (IF w = "metric" THEN Short(v + 1) ELSE rt.metric)
    /\ rt'.irtt = (IF w = "irtt" THEN UnsignedShort(v) ELSE rt.irtt)
    /\ \A u \in {"mss", "window", "dev"} : rt'[u] = (IF w = u THEN v ELSE rt[u])

\* One word, its value, and what is said once.
OneWord(w, v) ==
    /\ given' = Append(given, [word |-> w, value |-> v])
    /\ ReadsAs(w, v)
    /\ w = "netmask" => rt.genmask = {}
    /\ w = "gw" => "gateway" \notin rt.flags
    /\ w = "dev" => rt.dev = NoDevice /\ v # NoDevice

OptionWords == FlagWords \cup {"metric", "netmask", "gw", "dev"}

LEMMA AsReadStep ==
    ASSUME AsRead, NEW w \in OptionWords, NEW v, OneWord(w, v)
    PROVE  AsRead'
<1>0. /\ given' = Append(given, [word |-> w, value |-> v]) /\ ReadsAs(w, v)
      /\ w = "netmask" => rt.genmask = {}
      /\ w = "gw" => "gateway" \notin rt.flags
      /\ w = "dev" => rt.dev = NoDevice /\ v # NoDevice
      BY DEF OneWord
<1>1. /\ \E Q : given' \in Seq(Q)
      /\ Len(given') >= 1 /\ given'[1] = given[1]
      /\ Said(w)' = Said(w) \cup {Len(given) + 1}
      /\ \A u : u # w => Said(u)' = Said(u)
      /\ \A i \in Said(w) : given'[i] = given[i]
      /\ given'[Len(given) + 1].value = v
      /\ \A d : LastSaid(w, d)' = v
      /\ \A u, d : u # w => LastSaid(u, d)' = LastSaid(u, d)
  <2>1. PICK S : given \in Seq(S)  BY DEF AsRead
  <2>2. Len(given) >= 1  BY DEF AsRead
  <2> QED  BY <1>0, <2>1, <2>2, SaidMore
<1>2. First' = First /\ IsNet' = IsNet  BY <1>1 DEF First, IsNet
<1>3. rt'.dst = First'.as.address  BY <1>0, <1>2 DEF AsRead, ReadsAs
<1>5. rt'.flags = ({"up"} \cup (IF IsNet THEN {} ELSE {"host"}) \cup {f \in FlagWords : Said(f) # {}}
                     \cup (IF Said("gw") # {} THEN {"gateway"} ELSE {}))'
  <2>1. {f \in FlagWords : Said(f)' # {}} = {f \in FlagWords : Said(f) # {}} \cup (IF w \in FlagWords THEN {w} ELSE {})
        BY <1>1
  <2>2. (IF Said("gw")' # {} THEN {"gateway"} ELSE {}) = (IF Said("gw") # {} THEN {"gateway"} ELSE {})
                                                         \cup (IF w = "gw" THEN {"gateway"} ELSE {})
        BY <1>1
  <2>3. rt.flags = {"up"} \cup (IF IsNet THEN {} ELSE {"host"}) \cup {f \in FlagWords : Said(f) # {}}
                     \cup (IF Said("gw") # {} THEN {"gateway"} ELSE {})
        BY DEF AsRead
  <2>4. rt'.flags = rt.flags \cup (IF w \in FlagWords THEN {w} ELSE {}) \cup (IF w = "gw" THEN {"gateway"} ELSE {})
        BY <1>0 DEF ReadsAs
  <2> QED  BY <1>2, <2>1, <2>2, <2>3, <2>4
<1>6. rt'.genmask = LastSaid("netmask", First.mask)' /\ MasksSaid' \subseteq {rt'.genmask}
  <2>1. rt.genmask = LastSaid("netmask", First.mask) /\ MasksSaid \subseteq {rt.genmask}  BY DEF AsRead
  <2>2. CASE w = "netmask"
    <3>1. MasksSaid = {} /\ rt'.genmask = v  BY <1>0, <2>1, <2>2 DEF ReadsAs, MasksSaid
    <3>2. \A i \in Said("netmask")' : \/ given'[i].value = v
                                      \/ i \in Said("netmask") /\ given'[i] = given[i]
          BY <1>1, <2>2
    <3>3. ValuesSaid' \subseteq ValuesSaid \cup {v}  BY <3>2 DEF ValuesSaid
    <3>4. MasksSaid' \subseteq MasksSaid \cup {v}  BY <1>2, <3>3 DEF MasksSaid
    <3> QED  BY <1>1, <2>2, <3>1, <3>4
  <2>3. CASE w # "netmask"
    <3>1. rt'.genmask = rt.genmask /\ Said("netmask")' = Said("netmask")  BY <1>0, <1>1, <2>3 DEF ReadsAs
    <3>2. LastSaid("netmask", First.mask)' = LastSaid("netmask", First.mask)
          BY <1>1, <1>2, <2>3
    <3>3. \A i \in Said("netmask") : given'[i] = given[i]
      <4>1. PICK S : given \in Seq(S)  BY DEF AsRead
      <4> QED  BY <1>0, <4>1, OneMore DEF Said
    <3>4. ValuesSaid' = ValuesSaid  BY <3>1, <3>3 DEF ValuesSaid
    <3>5. MasksSaid' = MasksSaid  BY <1>2, <3>4 DEF MasksSaid
    <3> QED  BY <2>1, <3>1, <3>2, <3>5
  <2> QED  BY <2>2, <2>3
<1>7. ASSUME NEW u \in {"gw", "dev"} PROVE \A i, k \in Said(u)' : i = k
  <2>1. \A i, k \in Said(u) : i = k  BY DEF AsRead
  <2>2. CASE w # u  BY <1>1, <2>1, <2>2
  <2>3. CASE w = u
    <3>1. Said(u) = {}
      <4>1. CASE u = "gw"  BY <1>0, <2>3, <4>1 DEF AsRead
      <4>2. CASE u = "dev"  BY <1>0, <2>3, <4>2 DEF AsRead
      <4> QED  BY <4>1, <4>2
    <3> QED  BY <1>1, <2>3, <3>1
  <2> QED  BY <2>2, <2>3
<1>8. Said("gw")' # {} => rt'.gateway = LastSaid("gw", {})'
      BY <1>0, <1>1 DEF AsRead, ReadsAs
<1>9. rt'.metric = (IF Said("metric")' = {} THEN 0 ELSE Short(LastSaid("metric", 0)' + 1))
      BY <1>0, <1>1 DEF AsRead, ReadsAs
<1>10. /\ \A u \in {"mss", "window"} : rt'[u] = LastSaid(u, 0)'
       /\ rt'.irtt = UnsignedShort(LastSaid("irtt", 0)')
       BY <1>0, <1>1 DEF AsRead, ReadsAs
<1>11. rt'.dev = LastSaid("dev", NoDevice)' /\ (Said("dev")' # {} => rt'.dev # NoDevice)
       BY <1>0, <1>1 DEF AsRead, ReadsAs
<1> QED  BY <1>1, <1>3, <1>5, <1>6, <1>7, <1>8, <1>9, <1>10, <1>11 DEF AsRead

LEMMA WithField ==
    ASSUME NEW r \in Route, NEW f \in Fields, NEW v
    PROVE  \A g \in Fields : With(r, f, v)[g] = IF g = f THEN v ELSE r[g]
<1>1. DOMAIN r = Fields  BY DEF Route, Fields
<1> QED  BY <1>1 DEF With

LEMMA WordReads ==
    ASSUME rt \in Route, Word
    PROVE  \/ \E s : Ends(s)
           \/ UNCHANGED <<stage, told>> /\ \E w \in OptionWords : \E v : OneWord(w, v)
<1> USE DEF OptionWords
<1>1. ASSUME NEW f \in Flags
      PROVE  /\ Flagged(f) \in Route /\ Flagged(f).flags = rt.flags \cup {f}
             /\ \A g \in Fields \ {"flags"} : Flagged(f)[g] = rt[g]
  <2>1. Flagged(f) \in Route /\ Flagged(f).flags = rt.flags \cup {f}  BY <1>1, WithFlag
  <2>2. "flags" \in Fields  BY DEF Fields
  <2>3. \A g \in Fields \ {"flags"} : Flagged(f)[g] = rt[g]  BY <2>2, WithField DEF Flagged
  <2> QED  BY <2>1, <2>3
<1>2. ASSUME NEW s, Usage \/ Ends(s) PROVE \E x : Ends(x)  BY <1>2 DEF Usage
<1>3. CASE NoValue  BY <1>2, <1>3 DEF NoValue
<1>4. ASSUME NEW w \in OptionWords, NEW v, NEW r, Reads(w, v, r), rt' = r => ReadsAs(w, v),
             w = "netmask" => rt.genmask = {}, w = "gw" => "gateway" \notin rt.flags,
             w = "dev" => rt.dev = NoDevice /\ v # NoDevice
      PROVE  UNCHANGED <<stage, told>> /\ OneWord(w, v)
      BY <1>4, Zenon DEF Reads, OneWord
<1>5. CASE Metric
  <2>1. PICK n \in Numbers : Reads("metric", n, With(rt, "metric", Short(n + 1)))  BY <1>5, Zenon DEF Metric
  <2>2. "metric" \in Fields /\ "metric" \in OptionWords  BY DEF Fields
  <2>3. rt' = With(rt, "metric", Short(n + 1)) => ReadsAs("metric", n)
        BY <2>2, WithField DEF ReadsAs, Fields, FlagWords
  <2> QED  BY <1>4, <2>1, <2>2, <2>3
<1>6. ASSUME NEW w \in {"mss", "window", "irtt"}, NEW n, NEW kept,
             kept = IF w = "irtt" THEN UnsignedShort(n) ELSE n,
             Reads(w, n, With(Flagged(w), w, kept))
      PROVE  UNCHANGED <<stage, told>> /\ \E u \in OptionWords : \E x : OneWord(u, x)
  <2>1. w \in OptionWords /\ w \in Fields /\ w \in Flags  BY DEF Fields, FlagWords, Flags
  <2>2. \A g \in Fields : With(Flagged(w), w, kept)[g] = IF g = w THEN kept ELSE Flagged(w)[g]
        BY <1>1, <2>1, WithField
  <2>3. rt' = With(Flagged(w), w, kept) => ReadsAs(w, n)
        BY <1>1, <1>6, <2>1, <2>2 DEF ReadsAs, Fields, FlagWords
  <2> QED  BY <1>4, <1>6, <2>1, <2>3
<1>7. CASE Mss  BY <1>2, <1>6, <1>7 DEF Mss
<1>8. CASE Window  BY <1>2, <1>6, <1>8 DEF Window
<1>9. CASE Irtt  BY <1>6, <1>9 DEF Irtt
<1>10. CASE Flag
  <2>1. PICK f \in {"reject", "mod", "dyn", "reinstate"} : Reads(f, f, Flagged(f))  BY <1>10, Zenon DEF Flag
  <2>2. f \in OptionWords /\ f \in Flags  BY DEF Flags, FlagWords
  <2>3. rt' = Flagged(f) => ReadsAs(f, f)  BY <1>1, <2>2 DEF ReadsAs, Fields, FlagWords
  <2> QED  BY <1>4, <2>1, <2>2, <2>3
<1>11. ASSUME NEW mask, Netmask(mask), ~Usage
       PROVE  UNCHANGED <<stage, told>> /\ \E u \in OptionWords : \E x : OneWord(u, x)
  <2>1. rt.genmask = {} /\ Reads("netmask", mask, With(rt, "genmask", mask))  BY <1>11, Zenon DEF Netmask
  <2>2. "netmask" \in OptionWords /\ "genmask" \in Fields  BY DEF Fields
  <2>3. rt' = With(rt, "genmask", mask) => ReadsAs("netmask", mask)
        BY <2>2, WithField DEF ReadsAs, Fields, FlagWords
  <2> QED  BY <1>4, <2>1, <2>2, <2>3
<1>12. CASE NetmaskWord  BY <1>2, <1>11, <1>12, Zenon DEF NetmaskWord
<1>13. ASSUME NEW f, Gateway(f), \A s : ~Ends(s)
       PROVE  UNCHANGED <<stage, told>> /\ \E u \in OptionWords : \E x : OneWord(u, x)
  <2>1. "gateway" \notin rt.flags /\ Reads("gw", f.address, With(Flagged("gateway"), "gateway", f.address))
        BY <1>13, Zenon DEF Gateway, Usage
  <2>2. "gw" \in OptionWords /\ "gateway" \in Fields /\ "gateway" \in Flags  BY DEF Fields, Flags
  <2>3. \A g \in Fields : With(Flagged("gateway"), "gateway", f.address)[g]
                             = IF g = "gateway" THEN f.address ELSE Flagged("gateway")[g]
        BY <1>1, <2>2, WithField
  <2>4. rt' = With(Flagged("gateway"), "gateway", f.address) => ReadsAs("gw", f.address)
        BY <1>1, <2>2, <2>3 DEF ReadsAs, Fields, FlagWords
  <2> QED  BY <1>4, <2>1, <2>2, <2>4
<1>14. CASE GatewayWord  BY <1>2, <1>13, <1>14, Zenon DEF GatewayWord
<1>15. CASE Device
  <2>1. PICK d \in Devices : IF rt.dev # NoDevice THEN Usage ELSE Reads("dev", d, With(rt, "dev", d))
        BY <1>15, Zenon DEF Device
  <2>2. "dev" \in OptionWords /\ "dev" \in Fields /\ d # NoDevice
        BY RouteCommandAssumption DEF Fields, NoDevice
  <2>3. rt' = With(rt, "dev", d) => ReadsAs("dev", d)
        BY <2>2, WithField DEF ReadsAs, Fields, FlagWords
  <2> QED  BY <1>2, <1>4, <2>1, <2>2, <2>3
<1> QED  BY <1>3, <1>5, <1>7, <1>8, <1>9, <1>10, <1>12, <1>14, <1>15 DEF Word

\* The first word: the target.
LEMMA TargetRead ==
    ASSUME rt = Empty, NEW flag \in {"#net", "#host", "none"}, NEW f, NEW mask,
           f.net \in BOOLEAN, ReadsTarget(flag, f, mask)
    PROVE  AsRead'
<1> DEFINE e == [word |-> flag, as |-> f, mask |-> mask]
           net == flag = "#net" \/ (flag = "none" /\ f.net)
<1>1. given' = <<e>> /\ rt' = With(With(With(rt, "dst", f.address), "genmask", mask), "flags", TargetFlags(net))
      BY DEF ReadsTarget
<1>2. e.word = flag /\ e.as = f /\ e.mask = mask  OBVIOUS
<1> HIDE DEF e
<1>3. given' \in Seq({e}) /\ Len(given') = 1 /\ given'[1] = e  BY <1>1
<1>4. \A u : Said(u)' = {}  BY <1>3 DEF Said
<1>5. \A u, d : LastSaid(u, d)' = d  BY <1>4 DEF LastSaid
<1>6. First' = e /\ IsNet' = (IF flag = "none" THEN f.net ELSE flag = "#net")
      BY <1>2, <1>3 DEF First, IsNet
<1>7. /\ rt'.dst = f.address /\ rt'.genmask = mask /\ rt'.flags = TargetFlags(net)
      /\ rt'.metric = 0 /\ rt'.mss = 0 /\ rt'.window = 0 /\ rt'.irtt = 0 /\ rt'.dev = NoDevice
  <2> HIDE DEF net
  <2> QED  BY <1>1 DEF With, Empty
<1>8. rt'.flags = {"up"} \cup (IF IsNet' THEN {} ELSE {"host"})  BY <1>6, <1>7 DEF TargetFlags
<1>9. {u \in FlagWords : Said(u)' # {}} = {}  BY <1>4
<1>10. MasksSaid' \subseteq {mask}
  <2>1. ValuesSaid' = {}  BY <1>4 DEF ValuesSaid
  <2> QED  BY <1>2, <1>6, <2>1 DEF MasksSaid
<1>11. rt'.genmask = LastSaid("netmask", First.mask)'  BY <1>2, <1>5, <1>6, <1>7
<1>12. rt'.dst = First'.as.address  BY <1>2, <1>6, <1>7
<1>13. /\ \A w \in {"mss", "window"} : rt'[w] = LastSaid(w, 0)'
       /\ rt'.irtt = UnsignedShort(LastSaid("irtt", 0)')
  <2>1. UnsignedShort(0) = 0  BY DEF UnsignedShort
  <2> QED  BY <1>5, <1>7, <2>1
<1>14. rt'.flags = ({"up"} \cup (IF IsNet THEN {} ELSE {"host"}) \cup {u \in FlagWords : Said(u) # {}}
                      \cup (IF Said("gw") # {} THEN {"gateway"} ELSE {}))'
       BY <1>4, <1>8, <1>9
<1>15. rt'.metric = 0 /\ rt'.dev = LastSaid("dev", NoDevice)'  BY <1>5, <1>7
<1> QED  BY <1>3, <1>4, <1>7, <1>10, <1>11, <1>12, <1>13, <1>14, <1>15 DEF AsRead

\* AsGiven, in these terms.
Parts(r) ==
    /\ r.dst = First.as.address
    /\ r.flags = {"up"} \cup (IF IsNet THEN {} ELSE {"host"}) \cup {f \in FlagWords : Said(f) # {}}
                  \cup (IF Said("gw") # {} THEN {"gateway"} ELSE {})
    /\ IsNet => r.genmask = LastSaid("netmask", First.mask)
    /\ \A a, b \in MasksSaid : a = b
    /\ \A w \in {"gw", "dev"} : \A i, k \in Said(w) : i = k
    /\ Said("gw") # {} => r.gateway = LastSaid("gw", {})
    /\ r.metric = (IF Said("metric") = {} THEN 0 ELSE Short(LastSaid("metric", 0) + 1))
    /\ r.mss = LastSaid("mss", 0) /\ r.window = LastSaid("window", 0)
    /\ r.irtt = UnsignedShort(LastSaid("irtt", 0))
    /\ r.dev = LastSaid("dev", IF Said("reject") # {} THEN "lo" ELSE NoDevice)

LEMMA PartsGiven == Parts(rt)' => AsGiven(rt)'
BY Zenon DEF Parts, AsGiven, First, IsNet, MasksSaid, ValuesSaid, FlagWords

LEMMA NothingSaid ==
    ASSUME UNCHANGED given, NEW u, NEW d
    PROVE  Said(u)' = Said(u) /\ LastSaid(u, d)' = LastSaid(u, d)
<1>1. Said(u)' = Said(u)  BY DEF Said
<1> DEFINE last == CHOOSE i \in Said(u) : \A k \in Said(u) : k <= i
<1>2. LastSaid(u, d) = IF Said(u) = {} THEN d ELSE given[last].value  BY DEF LastSaid
<1>3. LastSaid(u, d)' = IF Said(u)' = {} THEN d ELSE given'[last].value  BY <1>1 DEF LastSaid
<1> HIDE DEF last
<1> QED  BY <1>1, <1>2, <1>3

\* After the last word.
LEMMA ReadIsGiven ==
    ASSUME RouteInv, AsRead, LastWord, ~Ends("option error")
    PROVE  AsGiven(rt)'
<1> DEFINE dev == IF "reject" \in rt.flags /\ rt.dev = NoDevice THEN "lo" ELSE rt.dev
           mask == IF command = "add" /\ "host" \in rt.flags THEN Bits ELSE rt.genmask
<1>1. rt' = With(With(rt, "dev", dev), "genmask", mask) /\ given' = given
      BY Zenon DEF LastWord
<1>2. rt \in Route  BY DEF RouteInv
<1>3. dev \in Devices \cup {NoDevice, "lo"}  BY <1>2 DEF Route
<1> HIDE DEF dev, mask
<1>4. With(rt, "dev", dev) \in Route /\ "dev" \in Fields /\ "genmask" \in Fields
      BY <1>2, <1>3, WithDevice DEF Fields
<1>5. \A g \in Fields : rt'[g] = IF g = "genmask" THEN mask ELSE IF g = "dev" THEN dev ELSE rt[g]
  <2>1. DOMAIN rt = Fields  BY <1>2 DEF Route, Fields
  <2> QED  BY <1>1, <2>1 DEF With
<1>6. /\ rt'.dst = rt.dst /\ rt'.flags = rt.flags /\ rt'.gateway = rt.gateway /\ rt'.metric = rt.metric
      /\ \A w \in {"mss", "window", "irtt"} : rt'[w] = rt[w]
      /\ rt'.genmask = mask /\ rt'.dev = dev
      BY <1>5 DEF Fields
<1>7. (\A u : Said(u)' = Said(u)) /\ \A u, d : LastSaid(u, d)' = LastSaid(u, d)
      BY <1>1, NothingSaid
<1>8. rt'.flags = {"up"} \cup (IF IsNet THEN {} ELSE {"host"}) \cup {f \in FlagWords : Said(f) # {}}
                    \cup (IF Said("gw") # {} THEN {"gateway"} ELSE {})
      BY <1>6 DEF AsRead
<1>9. IsNet => rt'.genmask = LastSaid("netmask", First.mask)
  <2>1. IsNet => "host" \notin rt.flags  BY DEF AsRead, FlagWords
  <2> QED  BY <1>6, <2>1 DEF AsRead, mask
<1>10. \A a, b \in MasksSaid : a = b  BY DEF AsRead
<1>11. rt'.dev = LastSaid("dev", IF Said("reject") # {} THEN "lo" ELSE NoDevice)
  <2>1. CASE Said("dev") # {}
    <3>1. rt.dev = LastSaid("dev", NoDevice) /\ rt.dev # NoDevice  BY <2>1 DEF AsRead
    <3> QED  BY <1>6, <2>1, <3>1 DEF LastSaid, dev
  <2>2. CASE Said("dev") = {}
    <3>1. rt.dev = NoDevice  BY <2>2 DEF AsRead, LastSaid
    <3>2. "reject" \in rt.flags <=> Said("reject") # {}  BY DEF AsRead, FlagWords
    <3> QED  BY <1>6, <2>2, <3>1, <3>2 DEF LastSaid, dev
  <2> QED  BY <2>1, <2>2
<1>12. /\ rt'.dst = First.as.address
       /\ \A w \in {"gw", "dev"} : \A i, k \in Said(w) : i = k
       /\ Said("gw") # {} => rt'.gateway = LastSaid("gw", {})
       /\ rt'.metric = (IF Said("metric") = {} THEN 0 ELSE Short(LastSaid("metric", 0) + 1))
       /\ rt'.mss = LastSaid("mss", 0) /\ rt'.window = LastSaid("window", 0)
       /\ rt'.irtt = UnsignedShort(LastSaid("irtt", 0))
       BY <1>6 DEF AsRead
<1>13. First' = First /\ IsNet' = IsNet /\ MasksSaid' = MasksSaid
       BY <1>1, <1>7 DEF First, IsNet, MasksSaid, ValuesSaid
<1>14. Parts(rt)'
       BY <1>7, <1>8, <1>9, <1>10, <1>11, <1>12, <1>13 DEF Parts
<1> QED  BY <1>14, PartsGiven

LEMMA ResolvedIsNet ==
    ASSUME NEW t, NEW h, NEW a, NEW f \in Resolve(t, h, a)
    PROVE  f.net \in BOOLEAN
<1>2. ASSUME NEW x, NEW b \in BOOLEAN, f = Found(b, x) PROVE f.net \in BOOLEAN  BY <1>2, Zenon DEF Found
<1>3. f \in AsHost(t, a) \/ f \in AsNet(t) => \E x : f = Found(FALSE, x) \/ f = Found(TRUE, x)
      BY DEF AsHost, AsNet
<1>4. f = Found(TRUE, {}) \/ f = Found(FALSE, t.address) \/ f \in AsHost(t, a) \/ f \in AsNet(t)
      BY DEF Resolve
<1> QED  BY <1>2, <1>3, <1>4

LEMMA GivenStep ==
    ASSUME RouteInv, GivenInv, [RouteNext]_routeVars
    PROVE  GivenInv'
<1> SUFFICES ASSUME family' = "inet" PROVE GivenInv'  BY DEF GivenInv
<1>0. UNCHANGED Asked
      BY DEF RouteNext, routeVars, Asked, RouteEdit, Target, Word, NoValue, Metric, Mss, Window, Irtt, Flag,
             NetmaskWord, GatewayWord, Device, Reading, Bare, LastWord, Target25, Word25, LastWord25,
             OpenSocket, Tell
<1>1. family = "inet" /\ rt \in Route  BY <1>0 DEF Asked, RouteInv
<1>2. ASSUME UNCHANGED <<rt, given>> PROVE (AsRead' <=> AsRead) /\ (AsGiven(rt)' <=> AsGiven(rt))
      BY <1>2 DEF AsRead, AsGiven, Said, LastSaid, First, IsNet, MasksSaid, ValuesSaid
<1>3. told # {} => stage = "done"  BY DEF RouteInv
<1>4. CASE UNCHANGED routeVars  BY <1>2, <1>4 DEF routeVars, GivenInv
<1>5. ASSUME NEW s, Ends(s), stage # "done" PROVE GivenInv'
      BY <1>3, <1>5 DEF GivenInv, Ends
<1>6. CASE RouteEdit
  <2>1. stage = "start" /\ rt = Empty  BY <1>1, <1>6 DEF RouteEdit, GivenInv
  <2>2. CASE stage' = "target" /\ UNCHANGED <<rt, told>>  BY <1>3, <2>1, <2>2 DEF GivenInv
  <2> QED  BY <1>1, <1>5, <1>6, <2>1, <2>2 DEF RouteEdit, Usage
<1>7. CASE Target
  <2>1. stage = "target" /\ rt = Empty /\ told = {}  BY <1>1, <1>3, <1>7 DEF Target, GivenInv
  <2>2. ASSUME NEW flag \in {"#net", "#host", "none"}, NEW f, NEW mask, f.net \in BOOLEAN,
               ReadsTarget(flag, f, mask)
        PROVE  GivenInv'
    <3>1. AsRead'  BY <2>1, <2>2, TargetRead
    <3>2. stage' = "words" /\ told' = {}  BY <2>1, <2>2 DEF ReadsTarget
    <3> QED  BY <3>1, <3>2 DEF GivenInv
  <2>4. \/ \E s : Ends(s)
        \/ \E flag \in {"#net", "#host", "none"}, t \in Texts, answers \in BOOLEAN :
             \E f \in Resolve(t, flag = "#host", answers) : \E mask : ReadsTarget(flag, f, mask)
        BY <1>7, Zenon DEF Target, Usage
  <2>5. CASE \E s : Ends(s)  BY <1>5, <2>1, <2>5
  <2>6. CASE \E flag \in {"#net", "#host", "none"}, t \in Texts, answers \in BOOLEAN :
                \E f \in Resolve(t, flag = "#host", answers) : \E mask : ReadsTarget(flag, f, mask)
    <3>1. PICK flag \in {"#net", "#host", "none"}, t \in Texts, answers \in BOOLEAN :
                \E f \in Resolve(t, flag = "#host", answers) : \E mask : ReadsTarget(flag, f, mask)
          BY <2>6, Zenon
    <3>2. PICK f \in Resolve(t, flag = "#host", answers) : \E mask : ReadsTarget(flag, f, mask)
          BY <3>1, Zenon
    <3>3. PICK mask : ReadsTarget(flag, f, mask)  BY <3>2, Zenon
    <3>4. f.net \in BOOLEAN  BY <3>2, ResolvedIsNet, Zenon
    <3> QED  BY <2>2, <3>3, <3>4
  <2> QED  BY <2>4, <2>5, <2>6
<1>8. CASE Word
  <2>1. stage = "words"
        BY <1>8, Zenon DEF Word, NoValue, Metric, Mss, Window, Irtt, Flag, NetmaskWord, GatewayWord,
                           Device, Reading
  <2>2. AsRead /\ told = {}  BY <1>1, <1>3, <2>1 DEF GivenInv
  <2>3. CASE \E s : Ends(s)  BY <1>5, <2>1, <2>3
  <2>4. ASSUME NEW w \in OptionWords, NEW v, OneWord(w, v), UNCHANGED <<stage, told>> PROVE GivenInv'
    <3>1. AsRead'  BY <2>2, <2>4, AsReadStep
    <3>2. stage' = "words" /\ told' = {}  BY <2>1, <2>2, <2>4
    <3> QED  BY <3>1, <3>2 DEF GivenInv
  <2> QED  BY <1>1, <1>8, <2>3, <2>4, WordReads
<1>9. CASE Bare
  <2>1. stage = "words" /\ AsRead /\ told = {} /\ rt.dev = NoDevice
        BY <1>1, <1>3, <1>9 DEF Bare, GivenInv
  <2>2. PICK d \in Devices : rt' = With(rt, "dev", d) /\ given' = Append(given, [word |-> "dev", value |-> d])
        BY <1>9 DEF Bare
  <2>3. "dev" \in OptionWords /\ "dev" \in Fields /\ d # NoDevice
        BY RouteCommandAssumption DEF Fields, OptionWords, NoDevice
  <2>4. ReadsAs("dev", d)  BY <1>1, <2>2, <2>3, WithField DEF ReadsAs, Fields, FlagWords
  <2>5. stage' \in {"last", "done"} /\ told' = {}  BY <1>9, <2>1 DEF Bare
  <2>6. OneWord("dev", d)  BY <2>1, <2>2, <2>3, <2>4 DEF OneWord
  <2>7. AsRead'  BY <2>1, <2>3, <2>6, AsReadStep
  <2> QED  BY <2>5, <2>7 DEF GivenInv
<1>10. CASE LastWord
  <2>1. stage \in {"words", "last"} /\ AsRead /\ told = {}  BY <1>1, <1>3, <1>10 DEF LastWord, GivenInv
  <2>2. CASE Ends("option error")  BY <1>5, <2>1, <2>2
  <2>3. CASE ~Ends("option error")
    <3>1. AsGiven(rt)'  BY <1>10, <2>1, <2>3, ReadIsGiven
    <3>2. stage' = "socket"  BY <1>10, <2>3 DEF LastWord
    <3> QED  BY <3>1, <3>2 DEF GivenInv
  <2> QED  BY <2>2, <2>3
<1>11. CASE OpenSocket \/ Tell
  <2>1. stage \in {"socket", "tell"} /\ UNCHANGED <<rt, given>> /\ stage' \in {"tell", "done"}
        BY <1>11 DEF OpenSocket, Tell, Ends
  <2>2. AsGiven(rt)'  BY <1>1, <1>2, <2>1 DEF GivenInv
  <2> QED  BY <2>1, <2>2 DEF GivenInv
<1> QED  BY <1>1, <1>4, <1>6, <1>7, <1>8, <1>9, <1>10, <1>11 DEF RouteNext, Target25, Word25, LastWord25

\* With any words in any order, any names in the databases and any answers of the name
\* server, the route the kernel is told is the one the words of the command say together,
\* metric and irtt modulo 2^16 in the range of their fields (INET_setroute, INET_resolve).
THEOREM RoutesAsGiven == RouteSpec => []RouteAsGiven
<1>1. RouteInit => GivenInv  BY DEF RouteInit, GivenInv
<1>2. RouteInv /\ GivenInv => RouteAsGiven  BY DEF RouteInv, GivenInv, RouteAsGiven
<1> QED  BY <1>1, <1>2, GivenStep, RoutesTyped, PTL DEF RouteSpec

-----------------------------------------------------------------------------
(* RouteTables.  What an address is called is never forgotten: said is a   *)
(* part of names, and the last line printed agrees with it.                *)

NamesInv ==
    /\ DOMAIN said \subseteq DOMAIN names
    /\ \A k \in DOMAIN said : said[k] = names[k]
    /\ printed # Nothing => \A k \in DOMAIN printed.names : k \in DOMAIN said /\ printed.names[k] = said[k]

LEMMA NamesGrow ==
    ASSUME NEW keys, LooksUp(keys)
    PROVE  /\ DOMAIN names \subseteq DOMAIN names'
           /\ \A k \in DOMAIN names : names'[k] = names[k]
           /\ ~options.numeric => keys \subseteq DOMAIN names'
<1>1. CASE options.numeric  BY <1>1 DEF LooksUp
<1>2. CASE ~options.numeric
  <2>1. PICK answers \in [keys -> NameAnswers] :
            names' = [k \in DOMAIN names \cup keys |-> IF k \in Cached THEN names[k] ELSE
                         IF k \in keys THEN answers[k] ELSE names[k]]
        BY <1>2, Zenon DEF LooksUp
  <2>2. DOMAIN names' = DOMAIN names \cup keys  BY <2>1
  <2>3. ASSUME NEW k \in DOMAIN names PROVE names'[k] = names[k]  BY <2>1 DEF Cached
  <2> QED  BY <2>2, <2>3
<1> QED  BY <1>1, <1>2

LEMMA NamesPrinted ==
    ASSUME NamesInv, NEW shown, NEW keys, LooksUp(keys), Prints(shown, keys)
    PROVE  NamesInv'
<1>1. /\ DOMAIN names \subseteq DOMAIN names'
      /\ \A k \in DOMAIN names : names'[k] = names[k]
      BY NamesGrow
<1>2. CASE shown = {}  BY <1>1, <1>2 DEF Prints, NamesInv
<1>3. CASE shown # {}
  <2> DEFINE called == IF options.numeric THEN << >> ELSE [k \in keys |-> names'[k]]
  <2>1. DOMAIN called \subseteq DOMAIN names' /\ \A k \in DOMAIN called : called[k] = names'[k]
    <3>1. CASE options.numeric
      <4>1. DOMAIN << >> = {}  OBVIOUS
      <4> QED  BY <3>1, <4>1
    <3>2. CASE ~options.numeric
      <4>1. keys \subseteq DOMAIN names'  BY <3>2, NamesGrow
      <4> QED  BY <3>2, <4>1
    <3> QED  BY <3>1, <3>2
  <2>2. /\ said' = [k \in DOMAIN said \cup DOMAIN called |-> IF k \in DOMAIN said THEN said[k] ELSE called[k]]
        /\ printed'.names = called
        BY <1>3 DEF Prints
  <2> HIDE DEF called
  <2>3. DOMAIN said' = DOMAIN said \cup DOMAIN called  BY <2>2
  <2>4. ASSUME NEW k \in DOMAIN said' PROVE said'[k] = names'[k]
        BY <1>1, <2>1, <2>2, <2>3 DEF NamesInv
  <2> QED  BY <1>1, <2>1, <2>2, <2>3, <2>4 DEF NamesInv
<1> QED  BY <1>2, <1>3

\* As long as the program runs, route_info calls an address what it has first called it
\* (the cache of INET_rresolve), whatever tables, names and lookups there are.
THEOREM NamesAreKept == TablesSpec => []NamesStay
<1>1. TablesInit => NamesInv
  <2> SUFFICES ASSUME TablesInit PROVE NamesInv  OBVIOUS
  <2>1. said = << >> /\ names = << >> /\ printed = Nothing  BY DEF TablesInit
  <2>2. DOMAIN << >> = {}  OBVIOUS
  <2> QED  BY <2>1, <2>2 DEF NamesInv
<1>2. NamesInv /\ [TablesNext]_tableVars => NamesInv'
  <2> SUFFICES ASSUME NamesInv, [TablesNext]_tableVars PROVE NamesInv'  OBVIOUS
  <2>1. CASE UNCHANGED <<names, said>> /\ (printed' = printed \/ printed' = Nothing)
        BY <2>1 DEF NamesInv
  <2>2. CASE \/ UNCHANGED tableVars \/ AftransOpt \/ AftransDef \/ GetrouteInit \/ RouteInfo
             \/ NextFamily \/ OpenFib \/ OpenCache \/ NoFormatLine \/ EndOfTable \/ OtherTable
        BY <2>1, <2>2 DEF tableVars, tableOnly, AftransOpt, AftransDef, GetrouteInit, RouteInfo, NextFamily,
                          OpenFib, OpenCache, NoFormatLine, EndOfTable, OtherTable, Ended, Starts
  <2>3. ASSUME FibLine \/ CacheLine \/ UnknownLine PROVE NamesInv'
    <3>1. \/ UNCHANGED <<printed, names, said>>
          \/ \E keys, shown : LooksUp(keys) /\ Prints(shown, keys)
      <4>1. CASE FibLine  BY <4>1, Zenon DEF FibLine
      <4>2. CASE CacheLine  BY <4>2, Zenon DEF CacheLine
      <4>3. CASE UnknownLine  BY <4>3, Zenon DEF UnknownLine
      <4> QED  BY <2>3, <4>1, <4>2, <4>3
    <3> QED  BY <2>1, <3>1, NamesPrinted
  <2> QED  BY <2>2, <2>3 DEF TablesNext
<1>3. NamesInv => NamesStay  BY DEF NamesInv, NamesStay
<1> QED  BY <1>1, <1>2, <1>3, PTL DEF TablesSpec

-----------------------------------------------------------------------------
(* What a recursive function computes, by induction over the numbers.      *)

LEMMA Induction ==
    ASSUME NEW A \in SUBSET Nat, 0 \in A, \A n \in A : n + 1 \in A
    PROVE  A = Nat
<1>1. ASSUME Nat \ A # {} PROVE FALSE
  <2>1. PICK n \in Nat \ A : \A k \in Nat \ A : n <= k  BY <1>1, LeastNumber
  <2>2. n - 1 \in A /\ (n - 1) + 1 = n  BY <2>1
  <2> QED  BY <2>1, <2>2
<1> QED  BY <1>1

\* One column more: how many titles have been found after it.
Counts(h, ts, before, k) == IF before < Len(ts) /\ h[k] = ts[before + 1] THEN before + 1 ELSE before

\* m counts the titles in the first p columns.
IsCount(m, h, ts, p) ==
    /\ m \in [0 .. p -> 0 .. Len(ts)] /\ m[0] = 0
    /\ \A k \in 1 .. p : m[k] = Counts(h, ts, m[k - 1], k)

LEMMA CountExists ==
    ASSUME NEW h \in Seq(STRING), NEW ts, Len(ts) \in Nat, NEW n \in Nat
    PROVE  \E m : IsCount(m, h, ts, n)
<1> DEFINE A == {p \in Nat : \E m : IsCount(m, h, ts, p)}
<1>0. Len(ts) \in Nat  OBVIOUS
<1>1. 0 \in A
  <2> DEFINE m == [k \in 0 .. 0 |-> 0]
  <2>1. IsCount(m, h, ts, 0)  BY <1>0 DEF IsCount
  <2> QED  BY <2>1
<1>2. ASSUME NEW p \in A PROVE p + 1 \in A
  <2>1. PICK m : IsCount(m, h, ts, p)  BY <1>2
  <2>2. p \in Nat /\ m \in [0 .. p -> 0 .. Len(ts)]  BY <2>1 DEF IsCount
  <2> DEFINE last == Counts(h, ts, m[p], p + 1)
             q == [k \in 0 .. (p + 1) |-> IF k = p + 1 THEN last ELSE m[k]]
  <2>3. last \in 0 .. Len(ts)
    <3>1. m[p] \in 0 .. Len(ts)  BY <2>2
    <3> QED  BY <1>0, <3>1 DEF Counts
  <2>4. q \in [0 .. (p + 1) -> 0 .. Len(ts)]
    <3> HIDE DEF last
    <3> QED  BY <2>2, <2>3
  <2>5. q[0] = 0  BY <2>1, <2>2 DEF IsCount
  <2>6. ASSUME NEW k \in 1 .. (p + 1) PROVE q[k] = Counts(h, ts, q[k - 1], k)
    <3>1. q[k - 1] = m[k - 1]  BY <2>2
    <3>2. CASE k = p + 1  BY <2>2, <3>1, <3>2
    <3>3. CASE k # p + 1
      <4>1. k \in 1 .. p /\ q[k] = m[k]  BY <2>2, <3>3
      <4> QED  BY <2>1, <3>1, <4>1 DEF IsCount
    <3> QED  BY <3>2, <3>3
  <2>7. IsCount(q, h, ts, p + 1)
    <3> HIDE DEF q
    <3> QED  BY <2>4, <2>5, <2>6 DEF IsCount
  <2> QED  BY <2>2, <2>7
<1>3. A = Nat
  <2> HIDE DEF A
  <2>1. A \in SUBSET Nat  BY DEF A
  <2> QED  BY <1>1, <1>2, <2>1, Induction
<1> QED  BY <1>3

\* Matched is such a count.
LEMMA MatchedCounts ==
    ASSUME NEW h \in Seq(STRING), NEW ts, Len(ts) \in Nat
    PROVE  IsCount(Matched(h, ts), h, ts, Len(h))
<1> DEFINE n == Len(h)
           step(m) == [k \in 0 .. n |->
                         IF k = 0 THEN 0
                         ELSE LET before == m[k - 1]
                              IN IF before < Len(ts) /\ h[k] = ts[before + 1] THEN before + 1 ELSE before]
<1>0. n \in Nat /\ Len(ts) \in Nat  OBVIOUS
<1>1. PICK c : IsCount(c, h, ts, n)  BY <1>0, CountExists
<1>2. c = step(c)
  <2>1. c \in [0 .. n -> 0 .. Len(ts)]  BY <1>1 DEF IsCount
  <2>2. ASSUME NEW k \in 0 .. n PROVE c[k] = step(c)[k]
    <3>1. CASE k = 0  BY <1>1, <3>1 DEF IsCount
    <3>2. CASE k # 0
      <4>1. k \in 1 .. n  BY <1>0, <3>2
      <4> QED  BY <1>1, <3>2, <4>1 DEF IsCount, Counts
    <3> QED  BY <3>1, <3>2
  <2>3. DOMAIN step(c) = 0 .. n  OBVIOUS
  <2> HIDE DEF step
  <2>4. step(c) = [k \in 0 .. n |-> step(c)[k]]  BY <2>3 DEF step
  <2> QED  BY <2>1, <2>2, <2>4
<1>3. Matched(h, ts) = CHOOSE m : m = step(m)  BY Zenon DEF Matched
<1>4. PICK m : m = Matched(h, ts) /\ m = step(m)
  <2> HIDE DEF step
  <2> QED  BY <1>2, <1>3
<1>5. /\ DOMAIN m = 0 .. n /\ m[0] = 0
      /\ \A k \in 1 .. n : m[k] = Counts(h, ts, m[k - 1], k)
  <2>1. \A k \in 0 .. n : m[k] = step(m)[k]
    <3> HIDE DEF step
    <3> QED  BY <1>4
  <2>2. DOMAIN m = 0 .. n
    <3>1. DOMAIN step(m) = 0 .. n  OBVIOUS
    <3> HIDE DEF step
    <3> QED  BY <1>4, <3>1
  <2>3. m[0] = 0  BY <1>0, <2>1
  <2>4. ASSUME NEW k \in 1 .. n PROVE m[k] = Counts(h, ts, m[k - 1], k)
        BY <1>0, <2>1 DEF Counts
  <2> QED  BY <2>2, <2>3, <2>4
<1> DEFINE A == {k \in Nat : k <= n => m[k] \in 0 .. Len(ts)}
<1>6. \A k \in A : k + 1 \in A
  <2> SUFFICES ASSUME NEW k \in A, k + 1 <= n PROVE m[k + 1] \in 0 .. Len(ts)  OBVIOUS
  <2>1. m[k] \in 0 .. Len(ts) /\ m[k + 1] = Counts(h, ts, m[k], k + 1)  BY <1>0, <1>5
  <2> QED  BY <1>0, <2>1 DEF Counts
<1>7. A = Nat
  <2>1. 0 \in A  BY <1>0, <1>5
  <2> HIDE DEF A
  <2>2. A \in SUBSET Nat  BY DEF A
  <2> QED  BY <1>6, <2>1, <2>2, Induction
<1>8. m \in [0 .. n -> 0 .. Len(ts)]
  <2>1. \A k \in 0 .. n : m[k] \in 0 .. Len(ts)  BY <1>0, <1>7
  <2>2. m = [k \in 0 .. n |-> m[k]]
    <3>1. step(m) = [k \in 0 .. n |-> step(m)[k]]  OBVIOUS
    <3> HIDE DEF step
    <3> QED  BY <1>4, <3>1
  <2> QED  BY <2>1, <2>2
<1> QED  BY <1>4, <1>5, <1>8 DEF IsCount

\* The count only grows.
LEMMA CountGrows ==
    ASSUME NEW h \in Seq(STRING), NEW ts, Len(ts) \in Nat, NEW m, IsCount(m, h, ts, Len(h)),
           NEW j \in 0 .. Len(h), NEW k \in 0 .. Len(h), j <= k
    PROVE  m[j] <= m[k]
<1> DEFINE n == Len(h)
           A == {d \in Nat : j + d <= n => m[j] <= m[j + d]}
<1>0. n \in Nat /\ Len(ts) \in Nat /\ \A i \in 0 .. n : m[i] \in 0 .. Len(ts)  BY DEF IsCount
<1>1. \A i \in 1 .. n : m[i] = m[i - 1] \/ m[i] = m[i - 1] + 1  BY DEF IsCount, Counts
<1>2. A \in SUBSET Nat  OBVIOUS
<1>3. 0 \in A
  <2>1. j + 0 = j  BY <1>0
  <2> QED  BY <1>0, <2>1
<1>4. ASSUME NEW d \in A PROVE d + 1 \in A
  <2> SUFFICES ASSUME j + (d + 1) <= n PROVE m[j] <= m[j + (d + 1)]  OBVIOUS
  <2>1. j + d \in 0 .. n /\ j + (d + 1) \in 1 .. n /\ (j + (d + 1)) - 1 = j + d  BY <1>0
  <2>2. m[j] <= m[j + d]  BY <1>4, <2>1
  <2>3. m[j + (d + 1)] = m[j + d] \/ m[j + (d + 1)] = m[j + d] + 1  BY <1>1, <2>1
  <2>4. m[j] \in Nat /\ m[j + d] \in Nat  BY <1>0, <2>1
  <2> QED  BY <2>2, <2>3, <2>4
<1>5. A = Nat
  <2> HIDE DEF A
  <2> QED  BY <1>2, <1>3, <1>4, Induction
<1>6. k - j \in Nat /\ j + (k - j) = k  BY <1>0
<1>7. k - j \in A
  <2> HIDE DEF A
  <2> QED  BY <1>5, <1>6
<1> QED  BY <1>0, <1>6, <1>7

\* Of a line with all the titles, Format finds each in a column of its own, in order.
LEMMA FormatFinds ==
    ASSUME NEW h \in Seq(STRING), NEW ts, Len(ts) \in Nat, Complete(h, ts)
    PROVE  /\ Format(h, ts) \in [1 .. Len(ts) -> 1 .. Len(h)]
           /\ \A i \in 1 .. Len(ts) : h[Format(h, ts)[i]] = ts[i]
           /\ \A i, j \in 1 .. Len(ts) : i < j => Format(h, ts)[i] < Format(h, ts)[j]
<1> DEFINE m == Matched(h, ts)
           n == Len(h)
           f == Format(h, ts)
<1>1. IsCount(m, h, ts, n)  BY MatchedCounts
<1>2. n \in Nat /\ Len(ts) \in Nat /\ m[n] = Len(ts)  BY DEF Complete
<1>3. ASSUME NEW i \in 1 .. Len(ts)
      PROVE  \E k \in 1 .. n : m[k] = i /\ m[k - 1] = i - 1
  <2> HIDE DEF m
  <2> DEFINE A == {k \in 0 .. n : m[k] >= i}
  <2>1. A \in SUBSET Nat /\ n \in A  BY <1>2
  <2>2. PICK k \in A : \A l \in A : k <= l
    <3> HIDE DEF A
    <3> QED  BY <2>1, LeastNumber
  <2>3. k # 0  BY <1>1, <1>3, <2>2 DEF IsCount
  <2>4. k \in 1 .. n /\ k - 1 \in 0 .. n /\ k - 1 \notin A  BY <1>2, <2>2, <2>3
  <2>5. m[k - 1] \in Nat /\ m[k - 1] < i /\ m[k] >= i  BY <1>1, <1>2, <2>2, <2>4 DEF IsCount
  <2>6. m[k] = m[k - 1] \/ m[k] = m[k - 1] + 1  BY <1>1, <2>4 DEF IsCount, Counts
  <2> QED  BY <2>4, <2>5, <2>6
<1>4. ASSUME NEW i \in 1 .. Len(ts)
      PROVE  f[i] \in 1 .. n /\ m[f[i]] = i /\ m[f[i] - 1] = i - 1
  <2>1. f[i] = CHOOSE k \in 1 .. n : m[k] = i /\ m[k - 1] = i - 1  BY DEF Format
  <2> HIDE DEF m, n, f
  <2> QED  BY <1>3, <2>1
<1>5. f \in [1 .. Len(ts) -> 1 .. n]
  <2>1. f = [i \in 1 .. Len(ts) |-> f[i]]  BY DEF Format
  <2> HIDE DEF m, n, f
  <2> QED  BY <1>4, <2>1
<1>6. ASSUME NEW i \in 1 .. Len(ts) PROVE h[f[i]] = ts[i]
  <2> HIDE DEF m, f
  <2>1. m[f[i]] = Counts(h, ts, m[f[i] - 1], f[i])  BY <1>1, <1>4 DEF IsCount
  <2>2. (i - 1) + 1 = i /\ i # i - 1  BY <1>2
  <2> QED  BY <1>4, <2>1, <2>2 DEF Counts
<1>7. ASSUME NEW i \in 1 .. Len(ts), NEW j \in 1 .. Len(ts), i < j PROVE f[i] < f[j]
  <2> SUFFICES ASSUME f[j] <= f[i] PROVE FALSE
    <3> HIDE DEF m, f
    <3> QED  BY <1>2, <1>4
  <2> HIDE DEF m, f
  <2>1. f[i] \in 0 .. n /\ f[j] \in 0 .. n  BY <1>2, <1>4
  <2>2. m[f[j]] <= m[f[i]]  BY <1>1, <2>1, CountGrows
  <2> QED  BY <1>2, <1>4, <1>7, <2>2
<1> QED
  <2> HIDE DEF m
  <2> QED  BY <1>5, <1>6, <1>7

-----------------------------------------------------------------------------
(* RouteTables.  A cell that is printed is from the line, or an earlier    *)
(* line lent it.                                                           *)

\* The tables whose lines are read with a format.
Formatted(h, ts) == /\ h \in Seq(STRING) /\ Complete(h, ts) /\ format = Format(h, ts)
                    /\ ts = IF at = "fib" THEN FibTitles ELSE Layout(h)
                    /\ ts # << >>

Lent == IF at = "fib" THEN 10 ELSE 12

\* A cell was never read, or is in the column of its title.  What SpecDst holds from
\* earlier lines is overwritten before it is printed.
CellOK(i) == titles[i] # "SpecDst" =>
             /\ cell[i].line \in Nat /\ cell[i].line <= line
             /\ cell[i].line # 0 => cell[i].column = format[i]

\* A cell that is printed.
OfLine(c, i, now) ==
    \/ c.line = now /\ c.column = format[i]
    \/ /\ i > Lent
       /\ IF titles[i] = "SpecDst"
          THEN c = Letters \/ \E k \in At("Source") : c.line = now /\ c.column = format[k]
          ELSE c.line < now

PrintedOK ==
    /\ printed.line \in 1 .. line
    /\ \A i \in DOMAIN printed.cell :
          i \in DOMAIN titles /\ OfLine(printed.cell[i], i, printed.line)

TablesInv ==
    /\ at \in {"fib", "cache"} =>
          /\ Formatted(header, titles)
          /\ line \in Nat /\ DOMAIN cell = DOMAIN titles /\ \A i \in DOMAIN titles : CellOK(i)
          /\ printed # Nothing => PrintedOK
    /\ at \in {"family", "open fib", "open cache", "open other"} => printed = Nothing

\* The titles of a table are a sequence.
LEMMA TitlesType ==
    ASSUME NEW h
    PROVE  /\ Len(FibTitles) \in Nat /\ DOMAIN FibTitles = 1 .. Len(FibTitles)
           /\ Len(Layout(h)) \in Nat /\ DOMAIN Layout(h) = 1 .. Len(Layout(h))
<1>1. Len(FibTitles) = 11 /\ DOMAIN FibTitles = 1 .. 11  BY DEF FibTitles
<1>2. /\ Len(OldTitles) = 13 /\ DOMAIN OldTitles = 1 .. 13
      /\ Len(NewTitles) = 15 /\ DOMAIN NewTitles = 1 .. 15
      BY DEF OldTitles, NewTitles
<1>3. Len(<< >>) = 0 /\ DOMAIN << >> = 1 .. 0  OBVIOUS
<1>4. Layout(h) = NewTitles \/ Layout(h) = OldTitles \/ Layout(h) = << >>  BY DEF Layout
<1> QED  BY <1>1, <1>2, <1>3, <1>4

LEMMA FormatOfTable ==
    ASSUME Formatted(header, titles)
    PROVE  /\ Len(titles) \in Nat /\ DOMAIN titles = 1 .. Len(titles) /\ Len(header) \in Nat
           /\ format \in [1 .. Len(titles) -> 1 .. Len(header)]
           /\ \A i \in DOMAIN titles : header[format[i]] = titles[i]
           /\ \A i, j \in DOMAIN titles : i < j => format[i] < format[j]
<1>1. /\ Len(titles) \in Nat /\ DOMAIN titles = 1 .. Len(titles)
      /\ header \in Seq(STRING)
      BY TitlesType DEF Formatted
<1>2. format = Format(header, titles) /\ Complete(header, titles)  BY DEF Formatted
<1>3. Len(header) \in Nat  BY <1>1
<1> QED  BY <1>1, <1>2, <1>3, FormatFinds

\* What sscanf did not reach is at the end.
LEMMA NotScanned ==
    ASSUME Formatted(header, titles), NEW n \in Int, NEW least \in Nat,
           ~(Cardinality(Scanned(n)) < least), NEW i \in DOMAIN titles, i \notin Scanned(n)
    PROVE  i > least
<1>1. /\ Len(titles) \in Nat /\ DOMAIN titles = 1 .. Len(titles) /\ Len(header) \in Nat
      /\ format \in [1 .. Len(titles) -> 1 .. Len(header)]
      /\ \A k, j \in DOMAIN titles : k < j => format[k] < format[j]
      BY FormatOfTable
<1>2. Scanned(n) \subseteq 1 .. (i - 1)
  <2>1. ASSUME NEW k \in Scanned(n) PROVE k < i
    <3>1. k \in 1 .. Len(titles) /\ format[k] <= n /\ ~(format[i] <= n) /\ k # i  BY <1>1 DEF Scanned
    <3>2. i < k => format[i] < format[k]  BY <1>1, <3>1
    <3>3. format[i] \in Int /\ format[k] \in Int  BY <1>1, <3>1
    <3> QED  BY <1>1, <3>1, <3>2, <3>3
  <2> QED  BY <1>1, <2>1 DEF Scanned
<1>3. i \in Nat /\ IsFiniteSet(1 .. (i - 1)) /\ Cardinality(1 .. (i - 1)) = i - 1
  <2>1. i \in Nat /\ i >= 1  BY <1>1
  <2>2. \A b \in Int : Cardinality(1 .. b) = IF 1 > b THEN 0 ELSE b - 1 + 1  BY FS_Interval
  <2>3. IsFiniteSet(1 .. (i - 1))  BY <2>1, FS_Interval
  <2> QED  BY <2>1, <2>2, <2>3
<1>4. Cardinality(Scanned(n)) \in Nat /\ Cardinality(Scanned(n)) <= i - 1
      BY <1>2, <1>3, FS_Subset, FS_CardinalityType
<1> QED  BY <1>3, <1>4

\* What the variables hold when a line is read: their last value, but for SpecDst.
Kept(kept) ==
    \A i \in DOMAIN titles :
        IF titles[i] = "SpecDst" THEN kept[i] = cell[i] \/ kept[i] \in Reparsed ELSE kept[i] = cell[i]

LEMMA TextKept == ASSUME NEW c \in Reparsed PROVE Kept(KeptText(c))
BY DEF Kept, KeptText

\* A line that is read: what is printed of it afterwards is right.
LEMMA LineRead ==
    ASSUME TablesInv, at \in {"fib", "cache"}, NEW n \in Int, NEW kept, Kept(kept), Scans(n, kept)
    PROVE  /\ at' = at /\ Formatted(header, titles)' /\ titles' = titles /\ format' = format
           /\ line \in Nat /\ line' = line + 1
           /\ DOMAIN cell' = DOMAIN titles /\ \A i \in DOMAIN titles : CellOK(i)'
           /\ \A i \in DOMAIN titles : i \notin Scanned(n) => cell'[i] = kept[i]
           /\ \A i \in Scanned(n) : cell'[i] = [line |-> line', column |-> format[i]]
<1>1. /\ line' = line + 1 /\ UNCHANGED <<at, titles, header, format>>
      /\ cell' = [i \in DOMAIN titles |-> IF i \in Scanned(n) THEN [line |-> line', column |-> format[i]]
                                          ELSE kept[i]]
      BY DEF Scans
<1>2. Formatted(header, titles) /\ line \in Nat /\ \A i \in DOMAIN titles : CellOK(i)  BY DEF TablesInv
<1>3. Formatted(header, titles)'  BY <1>1, <1>2 DEF Formatted
<1>4. Scanned(n) \subseteq DOMAIN titles  BY DEF Scanned
<1>5. ASSUME NEW i \in DOMAIN titles, titles[i] # "SpecDst" PROVE CellOK(i)'
  <2>1. CASE i \in Scanned(n)
    <3>1. cell'[i].line = line' /\ cell'[i].column = format[i]  BY <1>1, <2>1
    <3> QED  BY <1>1, <1>2, <3>1 DEF CellOK
  <2>2. CASE i \notin Scanned(n)
    <3>1. cell'[i] = cell[i]  BY <1>1, <1>5, <2>2 DEF Kept
    <3> QED  BY <1>1, <1>2, <3>1 DEF CellOK
  <2> QED  BY <2>1, <2>2
<1>6. \A i \in DOMAIN titles : CellOK(i)'  BY <1>1, <1>5 DEF CellOK
<1> QED  BY <1>1, <1>2, <1>3, <1>4, <1>6

\* ... and so it is of what is printed now, if enough was read of it.
LEMMA LinePrinted ==
    ASSUME TablesInv, at \in {"fib", "cache"}, NEW n \in Int, NEW kept, Kept(kept), Scans(n, kept),
           \A i \in DOMAIN titles : titles[i] = "SpecDst" => kept[i] \in Reparsed,
           NEW shown, NEW keys, ~(Cardinality(Scanned(n)) < Lent), Prints(shown, keys)
    PROVE  printed' = printed \/ PrintedOK'
<1>1. SUFFICES ASSUME shown # {} PROVE PrintedOK'  BY DEF Prints
<1>2. /\ at' = at /\ titles' = titles /\ format' = format /\ line \in Nat /\ line' = line + 1
      /\ \A i \in DOMAIN titles : i \notin Scanned(n) => cell'[i] = kept[i]
      /\ \A i \in Scanned(n) : cell'[i] = [line |-> line', column |-> format[i]]
      BY LineRead
<1>3. /\ printed'.line = line'
      /\ printed'.cell = [i \in {j \in DOMAIN titles : titles[j] \in shown} |-> cell'[i]]
      BY <1>1 DEF Prints
<1>4. ASSUME NEW i \in DOMAIN printed'.cell
      PROVE  i \in DOMAIN titles /\ OfLine(printed'.cell[i], i, line')
  <2>1. i \in DOMAIN titles /\ printed'.cell[i] = cell'[i]  BY <1>3
  <2>2. CASE i \in Scanned(n)
    <3>1. printed'.cell[i] = [line |-> line', column |-> format[i]]  BY <1>2, <2>1, <2>2
    <3> QED  BY <2>1, <3>1 DEF OfLine
  <2>3. CASE i \notin Scanned(n)
    <3>1. printed'.cell[i] = kept[i]  BY <1>2, <2>1, <2>3
    <3>2. Lent \in Nat /\ Formatted(header, titles)  BY DEF Lent, TablesInv
    <3>3. i > Lent  BY <2>1, <2>3, <3>2, NotScanned
    <3>4. CASE titles[i] = "SpecDst"
      <4>1. kept[i] \in Reparsed  BY <2>1, <3>4
      <4>2. \/ kept[i] = Letters
            \/ \E k \in At("Source") : kept[i] = [line |-> line + 1, column |-> format[k]]
            BY <4>1 DEF Reparsed
      <4>3. ASSUME NEW k \in At("Source"), kept[i] = [line |-> line + 1, column |-> format[k]]
            PROVE  kept[i].line = line' /\ kept[i].column = format[k]
        <5>1. kept[i].line = line + 1 /\ kept[i].column = format[k]  BY <4>3
        <5> QED  BY <1>2, <5>1
      <4> QED  BY <2>1, <3>1, <3>3, <3>4, <4>2, <4>3, Zenon DEF OfLine
    <3>5. CASE titles[i] # "SpecDst"
      <4>1. kept[i] = cell[i] /\ cell[i].line \in Nat /\ cell[i].line <= line
            BY <2>1, <3>5 DEF TablesInv, CellOK, Kept
      <4> QED  BY <1>2, <2>1, <3>1, <3>3, <3>5, <4>1 DEF OfLine
    <3> QED  BY <3>4, <3>5
  <2> QED  BY <2>2, <2>3
<1>5. \A c, i, now : OfLine(c, i, now)' <=> OfLine(c, i, now)  BY <1>2 DEF OfLine, Lent, At
<1>6. line' \in 1 .. line'  BY <1>2
<1> QED  BY <1>2, <1>3, <1>4, <1>5, <1>6 DEF PrintedOK

LEMMA NotRead ==
    ASSUME NEW i, cell'[i].line = 0, line' = 0
    PROVE  CellOK(i)'
BY DEF CellOK

LEMMA TableStarts ==
    ASSUME NEW h \in Seq(STRING), NEW ts, NEW where \in {"fib", "cache", "no format", "unknown"},
           Starts(h, ts, where), at \in {"open fib", "open cache"}, TablesInv,
           where = "fib" => ts = FibTitles /\ Complete(h, ts),
           where = "cache" => ts = Layout(h) /\ Layout(h) # << >> /\ Complete(h, ts)
    PROVE  TablesInv'
<1>1. printed' = Nothing /\ at' = where /\ header' = h /\ titles' = ts /\ line' = 0  BY DEF Starts, TablesInv
<1>2. SUFFICES ASSUME where \in {"fib", "cache"} PROVE TablesInv'  BY <1>1 DEF TablesInv
<1>3. format' = Format(h, ts) /\ cell' = [i \in 1 .. Len(ts) |-> Unset]  BY <1>2 DEF Starts
<1>4. FibTitles # << >>  BY DEF FibTitles
<1>5. Formatted(header, titles)'  BY <1>1, <1>2, <1>3, <1>4 DEF Formatted
<1>6. DOMAIN ts = 1 .. Len(ts)  BY <1>2, TitlesType
<1>7. ASSUME NEW i \in DOMAIN ts PROVE CellOK(i)'
  <2>1. cell'[i].line = 0  BY <1>3, <1>6 DEF Unset
  <2>2. line' = 0  BY <1>1
  <2> QED  BY <2>1, <2>2, NotRead
<1> QED  BY <1>1, <1>3, <1>5, <1>6, <1>7 DEF TablesInv

LEMMA TablesStep ==
    ASSUME TablesInv, [TablesNext]_tableVars
    PROVE  TablesInv'
<1>1. CASE UNCHANGED <<at, tableOnly>>
  <2>1. UNCHANGED <<at, titles, header, format, line, cell, printed>>  BY <1>1 DEF tableOnly
  <2>2. Formatted(header, titles)' <=> Formatted(header, titles)  BY <2>1 DEF Formatted
  <2>3. \A i : CellOK(i)' <=> CellOK(i)  BY <2>1 DEF CellOK
  <2>4. PrintedOK' <=> PrintedOK  BY <2>1 DEF PrintedOK, OfLine, At, Lent
  <2> QED  BY <2>1, <2>2, <2>3, <2>4 DEF TablesInv
\* What is not the start of a table, or a line of it.
<1>2. ASSUME at' \notin {"fib", "cache"}, at' \in {"family", "open fib", "open cache", "open other"} => printed' = Nothing
      PROVE  TablesInv'
      BY <1>2 DEF TablesInv
<1>3. ASSUME NEW status, Ended(status) PROVE TablesInv'  BY <1>2, <1>3 DEF Ended
<1>4. CASE AftransOpt \/ AftransDef \/ GetrouteInit
      BY <1>1, <1>4 DEF AftransOpt, AftransDef, GetrouteInit
<1>5. CASE RouteInfo \/ EndOfTable  BY <1>2, <1>5 DEF RouteInfo, EndOfTable
<1>6. CASE NextFamily
  <2>1. printed' = printed /\ printed = Nothing  BY <1>6 DEF NextFamily, TablesInv, Ended, tableOnly
  <2>2. at' \notin {"fib", "cache"}  BY <1>6 DEF NextFamily, Ended, TableOf
  <2> QED  BY <1>2, <2>1, <2>2
<1>7. CASE OpenFib
  <2>1. ASSUME NEW h \in FibHeaders, Complete(h, FibTitles), Starts(h, FibTitles, "fib") PROVE TablesInv'
    <3>1. h \in Seq(STRING) /\ at = "open fib"  BY <1>7, RouteTablesAssumption DEF OpenFib
    <3> QED  BY <2>1, <3>1, TableStarts
  <2> QED  BY <1>3, <1>7, <2>1 DEF OpenFib
<1>8. CASE OpenCache
  <2>1. CASE at' = "exited"  BY <1>2, <2>1
  <2>2. ASSUME NEW h \in CacheHeaders,
               Starts(h, Layout(h), IF Layout(h) = << >> THEN "unknown"
                                    ELSE IF Complete(h, Layout(h)) THEN "cache" ELSE "no format")
        PROVE  TablesInv'
    <3>1. h \in Seq(STRING) /\ at = "open cache"  BY <1>8, RouteTablesAssumption DEF OpenCache
    <3> DEFINE where == IF Layout(h) = << >> THEN "unknown"
                        ELSE IF Complete(h, Layout(h)) THEN "cache" ELSE "no format"
    <3>2. /\ where \in {"fib", "cache", "no format", "unknown"} /\ where # "fib"
          /\ where = "cache" => Layout(h) # << >> /\ Complete(h, Layout(h))
          OBVIOUS
    <3>3. Starts(h, Layout(h), where)  BY <2>2
    <3> HIDE DEF where
    <3> QED  BY <3>1, <3>2, <3>3, TableStarts
  <2> QED  BY <1>3, <1>8, <2>1, <2>2, Zenon DEF OpenCache
<1>9. CASE OtherTable \/ NoFormatLine
  <2>1. ASSUME OtherTable, ~Ended("error") PROVE TablesInv'
    <3>1. at' = "family"  BY <2>1 DEF OtherTable
    <3>2. printed' = Nothing  BY <2>1 DEF OtherTable, TablesInv, tableOnly
    <3> QED  BY <1>2, <3>1, <3>2
  <2>2. CASE NoFormatLine  BY <1>2, <2>2 DEF NoFormatLine
  <2> QED  BY <1>3, <1>9, <2>1, <2>2
<1>10. CASE UnknownLine  BY <1>2, <1>10 DEF UnknownLine
<1>11. CASE FibLine \/ CacheLine
  <2>1. at \in {"fib", "cache"} /\ Formatted(header, titles)  BY <1>11 DEF FibLine, CacheLine, TablesInv
  <2>2. \A n \in (Len(header) - MaxLacking) .. Len(header) : n \in Int
        BY <2>1, FormatOfTable, RouteTablesAssumption
  <2>3. PICK n, kept : /\ n \in Int /\ Kept(kept) /\ Scans(n, kept)
                       /\ \/ printed' = printed
                          \/ /\ ~(Cardinality(Scanned(n)) < Lent)
                             /\ \A i \in DOMAIN titles : titles[i] = "SpecDst" => kept[i] \in Reparsed
                             /\ \E shown, keys : Prints(shown, keys)
    <3>0. Kept(cell)  BY DEF Kept
    <3>1. CASE FibLine
      <4>1. at = "fib" /\ Lent = 10  BY <3>1 DEF FibLine, Lent
      <4>2. \A i \in DOMAIN titles : titles[i] # "SpecDst"
        <5>1. titles = FibTitles  BY <2>1, <4>1 DEF Formatted
        <5> QED  BY <5>1 DEF FibTitles
      <4>3. PICK n \in (Len(header) - MaxLacking) .. Len(header) :
               /\ Scans(n, cell)
               /\ \/ printed' = printed
                  \/ /\ ~(Cardinality(Scanned(n)) < 10)
                     /\ \E shown, keys : Prints(shown, keys)
            BY <3>1, Zenon DEF FibLine
      <4> QED  BY <2>2, <3>0, <4>1, <4>2, <4>3
    <3>2. CASE CacheLine
      <4>1. at = "cache" /\ Lent = 12  BY <3>2 DEF CacheLine, Lent
      <4>2. PICK n \in (Len(header) - MaxLacking) .. Len(header) :
               \/ Scans(n, cell) /\ printed' = printed
               \/ /\ ~(Cardinality(Scanned(n)) < 12)
                  /\ \E c \in Reparsed : Scans(n, KeptText(c))
                  /\ \E shown, keys : Prints(shown, keys)
            BY <3>2, Zenon DEF CacheLine
      <4>3. CASE Scans(n, cell) /\ printed' = printed  BY <2>2, <3>0, <4>3
      <4>4. ASSUME ~(Cardinality(Scanned(n)) < 12), NEW c \in Reparsed, Scans(n, KeptText(c)),
                   \E shown, keys : Prints(shown, keys)
            PROVE  /\ n \in Int /\ Kept(KeptText(c)) /\ Scans(n, KeptText(c))
                   /\ ~(Cardinality(Scanned(n)) < Lent)
                   /\ \A i \in DOMAIN titles : titles[i] = "SpecDst" => KeptText(c)[i] \in Reparsed
                   /\ \E shown, keys : Prints(shown, keys)
        <5>1. \A i \in DOMAIN titles : titles[i] = "SpecDst" => KeptText(c)[i] \in Reparsed  BY DEF KeptText
        <5> QED  BY <2>2, <4>1, <4>4, <5>1, TextKept
      <4> QED  BY <4>2, <4>3, <4>4
    <3> QED  BY <1>11, <3>1, <3>2
  <2>4. printed' = printed \/ PrintedOK'  BY <2>1, <2>3, LinePrinted
  <2>5. /\ at' = at /\ Formatted(header, titles)' /\ titles' = titles /\ format' = format
        /\ line \in Nat /\ line' = line + 1
        /\ DOMAIN cell' = DOMAIN titles /\ \A i \in DOMAIN titles : CellOK(i)'
        BY <2>1, <2>3, LineRead
  <2>6. printed' # Nothing => PrintedOK'
    <3>1. CASE printed' = printed /\ printed # Nothing
      <4>1. PrintedOK  BY <2>1, <3>1 DEF TablesInv
      <4>2. \A c, i, now : OfLine(c, i, now)' <=> OfLine(c, i, now)  BY <2>5 DEF OfLine, Lent, At
      <4> QED  BY <2>5, <3>1, <4>1, <4>2 DEF PrintedOK
    <3> QED  BY <2>4, <3>1
  <2>7. line' \in Nat /\ DOMAIN cell' = DOMAIN titles' /\ \A i \in DOMAIN titles' : CellOK(i)'
    <3>1. line' \in Nat  BY <2>5
    <3>2. DOMAIN cell' = DOMAIN titles'  BY <2>5
    <3>3. \A i \in DOMAIN titles' : CellOK(i)'  BY <2>5
    <3> QED  BY <3>1, <3>2, <3>3
  <2>8. at' \in {"fib", "cache"}  BY <2>1, <2>5
  <2> QED  BY <2>5, <2>6, <2>7, <2>8 DEF TablesInv
<1> QED  BY <1>1, <1>4, <1>5, <1>6, <1>7, <1>8, <1>9, <1>10, <1>11 DEF TablesNext, tableVars, tableOnly

\* Whatever the first line of a table in /proc is, route_info reads the table only when
\* proc_gen_fmt has found all its titles, in order, and prints under each title what is
\* in its column of the line just read.  Only at the end of a short line is it an earlier
\* line's, or what the variable began with; under SpecDst, which is parsed again from what
\* was printed, it is then the line's Source, or the first letters of a name.
THEOREM ColumnsAreFound == TablesSpec => []ColumnsFound
<1>1. TablesInit => TablesInv  BY DEF TablesInit, TablesInv
<1>2. TablesInv => ColumnsFound
  <2> SUFFICES ASSUME TablesInv, at \in {"fib", "cache"} PROVE ColumnsFound  BY DEF ColumnsFound
  <2>1. Formatted(header, titles)  BY DEF TablesInv
  <2>2. /\ Len(titles) \in Nat /\ DOMAIN titles = 1 .. Len(titles)
        /\ \A i \in DOMAIN titles : header[format[i]] = titles[i]
        /\ \A i, j \in DOMAIN titles : i < j => format[i] < format[j]
        BY <2>1, FormatOfTable
  <2>3. ASSUME NEW i \in DOMAIN titles, i > 1 PROVE format[i - 1] < format[i]
    <3>1. i - 1 \in DOMAIN titles /\ i - 1 < i  BY <2>2, <2>3
    <3> QED  BY <2>2, <3>1
  <2>4. ASSUME printed # Nothing, NEW i \in DOMAIN printed.cell
        PROVE  LET c == printed.cell[i]
               IN \/ c.line = printed.line /\ header[c.column] = titles[i]
                  \/ /\ i > (IF at = "fib" THEN 10 ELSE 12)
                     /\ IF titles[i] = "SpecDst"
                        THEN c = Letters \/ (c.line = printed.line /\ header[c.column] = "Source")
                        ELSE c.line < printed.line
    <3>1. PrintedOK  BY <2>4 DEF TablesInv
    <3>2. i \in DOMAIN titles /\ OfLine(printed.cell[i], i, printed.line)  BY <2>4, <3>1 DEF PrintedOK
    <3>3. \A k \in At("Source") : header[format[k]] = "Source"  BY <2>2 DEF At
    <3> QED  BY <2>2, <3>2, <3>3 DEF OfLine, Lent
  <2> QED  BY <2>2, <2>3, <2>4 DEF ColumnsFound
<1> QED  BY <1>1, <1>2, TablesStep, PTL DEF TablesSpec
=============================================================================
