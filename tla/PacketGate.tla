----------------------------- MODULE PacketGate -----------------------------
(***************************************************************************)
(* What the packet filters promise, with no threads, queues or vectors:    *)
(* a packet whose rule asks for an action of the core waits; the actions   *)
(* are carried out one packet at a time, those of one guest in the order   *)
(* of its packets; each packet is let through once, that is, written back  *)
(* to the kernel's queue without a look at the result, after its action    *)
(* (or lost, if the filter mixed up its own records); and apart from their *)
(* start-up and from switching themselves off, guests are frozen and       *)
(* started for the packet in hand only.                                    *)
(***************************************************************************)
EXTENDS Naturals

CONSTANTS
    Guests,
    Whom       \* names a rule may give a machine to be started

VARIABLES
    asked,     \* packets of each guest that had to wait
    waiting,   \* packets whose action has not begun
    acting,    \* the packet whose action is being carried out: one or none
    passed,    \* numbers of the packets of each guest that were written back
    power,     \* none, shut, running or paused
    booted,    \* guests whose start-up is over
    lossy      \* guests whose filter has mixed up its records

gatePart == <<asked, waiting, acting, passed>>
guestPart == <<power, booted>>
packetVars == <<gatePart, guestPart, lossy>>

PacketInit ==
    /\ asked = [g \in Guests |-> 0] /\ passed = [g \in Guests |-> {}]
    /\ waiting = {} /\ acting = {}
    /\ power = [g \in Guests |-> "none"] /\ booted = {} /\ lossy = {}

-----------------------------------------------------------------------------
\* A packet has to wait.
Hold(g, action, whom) ==
    /\ asked' = [asked EXCEPT ![g] = @ + 1]
    /\ waiting' = waiting \cup {[guest |-> g, number |-> asked[g], action |-> action, whom |-> whom]}
    /\ UNCHANGED <<acting, passed, guestPart>>

\* The first one of its guest is taken up.
TakeUp(p) ==
    /\ acting = {} /\ \A q \in waiting : q.guest = p.guest => p.number <= q.number
    /\ acting' = {p} /\ waiting' = waiting \ {p}
    /\ UNCHANGED <<asked, passed, guestPart>>

Freeze(g) ==
    /\ power[g] = "running"
    /\ \E p \in acting : p.action = "FREEZEALL" \/ (p.action = "FREEZESRC" /\ p.guest = g)
    /\ power' = [power EXCEPT ![g] = "paused"]
    /\ UNCHANGED <<gatePart, booted>>

Start(g) ==
    /\ power[g] = "shut"
    /\ \E p \in acting : p.action = "STARTVM" /\ p.whom = g
    /\ power' = [power EXCEPT ![g] = "running"]
    /\ UNCHANGED <<gatePart, booted>>

LetThrough(p) ==
    /\ acting' = {}
    /\ \/ passed' = [passed EXCEPT ![p.guest] = @ \cup {p.number}]
       \/ p.guest \in lossy /\ UNCHANGED passed
    /\ UNCHANGED <<asked, waiting, guestPart>>

-----------------------------------------------------------------------------
(* The guests by themselves.                                               *)

Define(g) ==
    /\ power[g] = "none" /\ power' = [power EXCEPT ![g] = "shut"]
    /\ UNCHANGED <<gatePart, booted>>

\* Once; it may fail, or be left to a STARTVM rule.
Boot(g) ==
    /\ g \notin booted /\ booted' = booted \cup {g}
    /\ \/ power[g] = "shut" /\ power' = [power EXCEPT ![g] = "running"]
       \/ UNCHANGED power
    /\ UNCHANGED gatePart

SwitchOff(g) ==
    /\ power[g] = "running" /\ power' = [power EXCEPT ![g] = "shut"]
    /\ UNCHANGED <<gatePart, booted>>

PacketNext ==
    /\ lossy \subseteq lossy'
    /\ \/ \E g \in Guests, action \in {"FREEZEALL", "FREEZESRC", "STARTVM"}, whom \in Whom :
             Hold(g, action, whom)
       \/ \E p \in waiting : TakeUp(p)
       \/ \E p \in acting : LetThrough(p)
       \/ \E g \in Guests : Freeze(g) \/ Start(g) \/ Define(g) \/ Boot(g) \/ SwitchOff(g)
       \/ UNCHANGED <<gatePart, guestPart>>

PacketSpec == PacketInit /\ [][PacketNext]_packetVars
=============================================================================
