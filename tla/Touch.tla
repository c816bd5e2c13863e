--------------------------------- MODULE Touch ---------------------------------
(***************************************************************************)
(* Fingers on an iPad and what the daemon makes of them: contacts of a      *)
(* virtual touchscreen on Linux, injected contacts on Windows, and pointer  *)
(* gestures on macOS, where a finger that rests becomes a secondary click   *)
(* by a thread of its own.  Packets arrive in order; positions are one      *)
(* coordinate.                                                              *)
(***************************************************************************)
EXTENDS Integers, FiniteSets, Sequences
LOCAL INSTANCE SequencesExt
LOCAL INSTANCE Functions

CONSTANTS Platforms,    \* of "linux", "windows", "macos"
          Fingers, TouchSlots, \* MAX_SLOTS, MAX_TOUCH_SLOTS: slots are 0..9
          WireSize, OutputSize, Origin, \* sizes on the wire and on the screen; its left edge
          Threshold,    \* TOUCH_MOVE_THRESHOLD
          Nobody,       \* a slot without a finger: no place at all
          MaxGestures, MaxTouchEnds \* bounds: gestures, sessions that end

ASSUME TouchAssumption ==
    /\ Platforms \subseteq {"linux", "windows", "macos"}
    /\ TouchSlots \subseteq 0..9 /\ Cardinality(TouchSlots) >= Cardinality(Fingers)
    /\ {WireSize, OutputSize} \subseteq Nat \ {0, 1}
    /\ Origin \in Int /\ Nobody \notin Int /\ {Threshold, MaxGestures, MaxTouchEnds} \subseteq Nat

VARIABLES
    touchOn,              \* the platform; it stays
    fingers,              \* the client's: [slot, at], or Lifted
    contacts,             \* the backend's slots
    screen,               \* the contacts the operating system knows
    kslot, cachedSlot,    \* Linux: the kernel's slot and current_slot
    mode, generation, anchor, armed, \* macOS: TouchState, threads of arm_long_press
    left, scroll, pointer, \* posted: the left button, a scroll phase, the last place
    gestures, pressedBy,  \* ghosts: gestures so far; the one whose timer clicked
    touchEnds             \* sessions that ended

macos == <<mode, generation, anchor, armed, left, scroll, pointer, gestures, pressedBy>>
linux == <<kslot, cachedSlot>>
touchVars == <<touchOn, fingers, contacts, screen, linux, macos, touchEnds>>

Lifted == [slot |-> -1, at |-> -1]
Down(slots) == {s \in TouchSlots : slots[s] # Nobody}
Lowest(S) == CHOOSE s \in S : \A t \in S : s <= t

TouchInit ==
    /\ touchOn \in Platforms
    /\ fingers = [f \in Fingers |-> Lifted]
    /\ contacts = [s \in TouchSlots |-> Nobody] /\ screen = contacts
    /\ kslot = 0 /\ cachedSlot = 0
    /\ mode = "idle" /\ generation = 0 /\ anchor = 0 /\ armed = {}
    /\ left = FALSE /\ scroll = FALSE /\ pointer = 0
    /\ gestures = 0 /\ pressedBy = 0
    /\ touchEnds = 0

-----------------------------------------------------------------------------
(* From the wire to the screen *)

Half(n, d) == (2 * n + d) \div (2 * d)

\* macOS: an index of the wire's, its ends kept.
ScalePosition(v) ==
    Origin + IF WireSize = OutputSize THEN v ELSE Half(v * (OutputSize - 1), WireSize - 1)

\* Linux: onto the touchscreen's own range.
ScaleContact(v) ==
    LET scaled == (v * (OutputSize - 1) + (WireSize - 1) \div 2) \div (WireSize - 1)
    IN IF scaled <= OutputSize - 1 THEN scaled ELSE OutputSize - 1

Place(v) == CASE touchOn = "macos"   -> ScalePosition(v)
              [] touchOn = "linux"   -> ScaleContact(v)
              [] touchOn = "windows" -> Origin + v

-----------------------------------------------------------------------------
(* The client: a packet is one kind of event for some fingers, in any order. *)

Contacts == [slot : TouchSlots, at : 0..(WireSize - 1)]
Used == {fingers[f].slot : f \in Fingers} \ {-1}
Orders == {o \in UNION {[1..n -> Fingers] : n \in 1..Cardinality(Fingers)} : IsInjective(o)}
Packet(order, spots, e) ==
    [i \in DOMAIN order |-> [slot |-> spots[i].slot, event |-> e, at |-> spots[i].at]]

\* slotFor takes the next of ten slots without a look at who holds it.  Left out:
\* ten touches that begin while one finger stays, whose slot then comes round again.
Begins(order, spots) ==
    /\ \A i \in DOMAIN order : fingers[order[i]] = Lifted /\ spots[i].slot \notin Used
    /\ IsInjective([i \in DOMAIN order |-> spots[i].slot])

Stays(order, spots) ==
    \A i \in DOMAIN order : fingers[order[i]] # Lifted /\ spots[i].slot = fingers[order[i]].slot

\* What the iPad sends, and where the fingers are afterwards.
Sent(order, spots, event) ==
    /\ IF event = "down" THEN Begins(order, spots) ELSE Stays(order, spots)
    /\ fingers' = [f \in Fingers |->
           IF f \notin Range(order) THEN fingers[f]
           ELSE IF event = "up" THEN Lifted ELSE spots[CHOOSE i \in DOMAIN order : order[i] = f]]
    /\ UNCHANGED <<touchOn, touchEnds>>

\* A session ends with fingers on the glass: nobody tells the backend.
TouchEnds ==
    /\ touchEnds < MaxTouchEnds /\ \E f \in Fingers : fingers[f] # Lifted
    /\ touchEnds' = touchEnds + 1
    /\ fingers' = [f \in Fingers |-> Lifted]
    /\ UNCHANGED <<touchOn, contacts, screen, linux, macos>>

-----------------------------------------------------------------------------
(* Linux: VirtualTouchscreen *)

\* What the events of a contact do to the kernel's slot.
Shown(known, slot, c) ==
    CASE c.event = "up"   -> [known EXCEPT ![slot] = Nobody]
      [] c.event = "down" -> [known EXCEPT ![slot] = Place(c.at)]
      [] c.event = "move" -> [known EXCEPT ![slot] = IF @ = Nobody THEN Nobody ELSE Place(c.at)]

\* Mutated SendTouch: the slot that was named is not noted.
SendTouchForgets(k, c) ==
    LET slot == IF k.cached # c.slot THEN c.slot ELSE k.slot
    IN [slot |-> slot, cached |-> k.cached, screen |-> Shown(k.screen, slot, c)]

\* A slot is named only when it changes; what follows is about the slot named last.
SendTouch(k, c) ==
    LET slot == IF k.cached # c.slot THEN c.slot ELSE k.slot
    IN [slot |-> slot, cached |-> c.slot, screen |-> Shown(k.screen, slot, c)]

HandleContacts(packet) ==
    LET k == FoldLeft(SendTouch, [slot |-> kslot, cached |-> cachedSlot, screen |-> screen], packet)
    IN /\ kslot' = k.slot /\ cachedSlot' = k.cached /\ screen' = k.screen
       /\ UNCHANGED <<contacts, macos>>

-----------------------------------------------------------------------------
(* Windows: a frame holds every contact; one that does not fit is refused.   *)

\* The slots after a packet (macOS too, whose TOUCH_MOVE is as good as a down).
Applied(slots, packet) ==
    FoldLeft(LAMBDA m, c : [m EXCEPT ![c.slot] = IF c.event = "up" THEN Nobody ELSE Place(c.at)],
             slots, packet)

Named(packet, e) == {packet[i].slot : i \in {j \in 1..Len(packet) : packet[j].event = e}}

\* InjectTouchInput with the flags of `downs` and `ups`, the others updated; the
\* system forgets a contact that a frame leaves out.
InjectSlots(slots, downs, ups) ==
    LET held == Down(slots) \cup ups
        fits == /\ downs \cap Down(screen) = {}
                /\ (held \ downs) \subseteq Down(screen)
    IN screen' = IF held # {} /\ fits THEN slots ELSE screen

WindowsTouch(packet) ==
    /\ contacts' = Applied(contacts, packet)
    /\ InjectSlots(contacts', Named(packet, "down"), Named(packet, "up"))
    /\ UNCHANGED <<linux, macos>>

\* The touch-keepalive thread: every 100 ms, under the state's mutex.
TouchKeepalive ==
    /\ touchOn = "windows"
    /\ InjectSlots(contacts, {}, {})
    /\ UNCHANGED <<touchOn, fingers, contacts, linux, macos, touchEnds>>

-----------------------------------------------------------------------------
(* macOS: MacInput::touch, one disjunct for each branch.  The button events  *)
(* it posts after it lets go of the state are part of the step: touch() runs *)
(* under the backend's mutex.                                                *)

Primary(slots)  == slots[Lowest(Down(slots))]
Count(slots)    == Cardinality(Down(slots))
Far(a, b)       == a - b > Threshold \/ b - a > Threshold
LiftOf(packet)  == LET ups == {i \in 1..Len(packet) : packet[i].event = "up"}
                   IN IF ups = {} THEN anchor ELSE Place(packet[Lowest(ups)].at)
Still == UNCHANGED <<left, scroll, pointer>>
Marks == UNCHANGED <<anchor, armed, gestures, pressedBy>>

\* One finger: the gesture may become a tap, a drag or a long press.
MacPress(held) ==
    /\ mode = "idle" /\ Count(held) = 1 /\ gestures < MaxGestures
    /\ generation' = generation + 1 /\ anchor' = Primary(held) /\ mode' = "pending"
    /\ gestures' = gestures + 1
    /\ armed' = armed \cup {[of |-> gestures', generation |-> generation']}
    /\ Still /\ UNCHANGED pressedBy

MacScrollBegins(held) ==
    /\ mode \in {"idle", "pending"} /\ Count(held) >= 2
    /\ mode' = "scrolling" /\ scroll' = TRUE
    /\ generation' = IF mode = "pending" THEN generation + 1 ELSE generation
    /\ Marks /\ UNCHANGED <<left, pointer>>

\* A left click at the anchor: both events, so the button is up again.
MacTap(held) ==
    /\ mode = "pending" /\ Count(held) = 0
    /\ mode' = "idle" /\ generation' = generation + 1 /\ pointer' = anchor
    /\ Marks /\ UNCHANGED <<left, scroll>>

MacDragBegins(held) ==
    /\ mode = "pending" /\ Count(held) = 1 /\ Far(Primary(held), anchor)
    /\ mode' = "dragging" /\ generation' = generation + 1
    /\ left' = TRUE /\ pointer' = Primary(held)
    /\ Marks /\ UNCHANGED scroll

MacWaits(held) ==
    /\ \/ mode = "pending" /\ Count(held) = 1 /\ ~Far(Primary(held), anchor)
       \/ mode = "idle" /\ Count(held) = 0
       \/ mode = "secondary" /\ Count(held) > 0
    /\ Still /\ Marks /\ UNCHANGED <<mode, generation>>

MacDrops(held, lift) ==
    /\ mode = "dragging" /\ Count(held) = 0
    /\ mode' = "idle" /\ left' = FALSE /\ pointer' = lift
    /\ Marks /\ UNCHANGED <<scroll, generation>>

MacDrags(held) ==
    /\ mode = "dragging" /\ Count(held) > 0
    /\ pointer' = Primary(held)
    /\ Marks /\ UNCHANGED <<mode, generation, left, scroll>>

MacScrolls(held) ==
    /\ mode = "scrolling"
    /\ mode' = IF Count(held) >= 2 THEN "scrolling" ELSE "idle"
    /\ scroll' = (Count(held) >= 2)
    /\ Marks /\ UNCHANGED <<generation, left, pointer>>

\* The lift after a long press is no click.
MacSwallows(held, lift) ==
    /\ mode = "secondary" /\ Count(held) = 0
    /\ mode' = "idle" /\ pointer' = lift
    /\ Marks /\ UNCHANGED <<generation, left, scroll>>

MacTouch(packet) ==
    LET held == Applied(contacts, packet)
        lift == LiftOf(packet)
    IN /\ contacts' = held
       /\ \/ MacPress(held) \/ MacScrollBegins(held) \/ MacTap(held) \/ MacDragBegins(held)
          \/ MacWaits(held) \/ MacDrops(held, lift) \/ MacDrags(held) \/ MacScrolls(held)
          \/ MacSwallows(held, lift)
       /\ UNCHANGED <<screen, linux>>

\* Mutated LongPress: the thread asks only whether some finger is waiting.
LongPressAny(t) ==
    /\ t \in armed /\ armed' = armed \ {t}
    /\ IF mode = "pending"
       THEN mode' = "secondary" /\ pressedBy' = t.of /\ pointer' = anchor
       ELSE UNCHANGED <<mode, pressedBy, pointer>>
    /\ UNCHANGED <<touchOn, fingers, contacts, screen, linux, touchEnds,
                   generation, anchor, left, scroll, gestures>>

\* arm_long_press's thread after its 500 ms: a secondary click.
LongPress(t) ==
    /\ t \in armed /\ armed' = armed \ {t}
    /\ IF mode = "pending" /\ generation = t.generation
       THEN mode' = "secondary" /\ pressedBy' = t.of /\ pointer' = anchor
       ELSE UNCHANGED <<mode, pressedBy, pointer>>
    /\ UNCHANGED <<touchOn, fingers, contacts, screen, linux, touchEnds,
                   generation, anchor, left, scroll, gestures>>

-----------------------------------------------------------------------------
Receives(packet) ==
    \/ touchOn = "linux" /\ HandleContacts(packet)
    \/ touchOn = "windows" /\ WindowsTouch(packet)
    \/ touchOn = "macos" /\ MacTouch(packet)

TouchNext ==
    \/ \E order \in Orders, e \in {"down", "move", "up"} :
          \E spots \in [DOMAIN order -> Contacts] :
              Sent(order, spots, e) /\ Receives(Packet(order, spots, e))
    \/ TouchKeepalive \/ TouchEnds
    \/ \E t \in armed : LongPress(t)

TouchSpec == TouchInit /\ [][TouchNext]_touchVars

-----------------------------------------------------------------------------
Places == (Origin - 1)..(Origin + WireSize + OutputSize) \cup 0..(WireSize + OutputSize)

TouchTypeOK ==
    /\ touchOn \in Platforms
    /\ fingers \in [Fingers -> Contacts \cup {Lifted}]
    /\ {contacts, screen} \subseteq [TouchSlots -> Places \cup {Nobody}]
    /\ {kslot, cachedSlot} \subseteq TouchSlots \cup {0}
    /\ mode \in {"idle", "pending", "dragging", "scrolling", "secondary"}
    /\ generation \in 0..(2 * MaxGestures) /\ {anchor, pointer} \subseteq Places
    /\ {left, scroll} \subseteq BOOLEAN
    /\ gestures \in 0..MaxGestures /\ pressedBy \in 0..gestures
    /\ touchEnds \in 0..MaxTouchEnds

\* The contacts that the operating system knows are the fingers on the glass,
\* each where its finger is, whatever packets and keepalives came between: as
\* long as no session ended with a finger down.
ContactsAgree ==
    touchEnds = 0 /\ touchOn # "macos" =>
        /\ Down(screen) = Used
        /\ \A f \in Fingers : fingers[f] # Lifted => screen[fingers[f].slot] = Place(fingers[f].at)

\* macOS: the left button is held exactly while a drag goes on, a scroll phase is
\* open exactly while two fingers scroll, and a secondary click is the doing of
\* the timer of the gesture under way, never of an earlier touch's.  This holds
\* across sessions that end in the middle of a gesture.
GesturesBalance ==
    /\ left = (mode = "dragging")
    /\ scroll = (mode = "scrolling")
    /\ mode = "secondary" => pressedBy = gestures
=============================================================================
