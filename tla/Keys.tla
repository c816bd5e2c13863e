---------------------------------- MODULE Keys ----------------------------------
(***************************************************************************)
(* Keys of the desktop client, from the window's key filter to the keyboard *)
(* of the daemon's host.  A key travels as a raw press and a raw release,   *)
(* or, if Qt has a text for it or it is a special key, as one packet that   *)
(* the daemon presses and releases by itself.  The daemon queues what it    *)
(* receives for a thread of its own.  Keys are USB HID usages.              *)
(***************************************************************************)
EXTENDS Naturals, Sequences

CONSTANTS KeyHosts,   \* of "linux", "windows", "macos"
          Keys,       \* the keys that the user has
          KeyQueue,   \* the bound of KeyboardWorker's channel
          MaxPresses, MaxToggles \* bounds: keys that the user presses, changes of `forwarded'

ASSUME KeysAssumption ==
    /\ KeyHosts \subseteq {"linux", "windows", "macos"}
    /\ Keys \subseteq 0..255 /\ KeyQueue \in Nat \ {0}
    /\ {MaxPresses, MaxToggles} \subseteq Nat

VARIABLES
    keyHost,        \* the daemon's platform; it stays
    held,           \* the user's fingers
    forwarded,      \* whether the filter takes the keys: connected and enabled
    keyQueue,       \* KeyboardWorker
    keysDown,       \* the keys that the host knows to be down
    told,           \* ghost: keys whose latest raw packet in the queue was a press
    presses, toggles

keyVars == <<keyHost, held, forwarded, keyQueue, keysDown, told, presses, toggles>>

Ctrl == 224  Shift == 225  Alt == 226  Meta == 227  KeyA == 4  KeyF == 9

Modifiers   == {Ctrl, Shift, Alt, Meta}
ComboMods   == {Ctrl, Alt, Meta}
Specials    == {40, 41, 42, 43, 73, 74, 76, 77, 79, 80, 81, 82, 88}
Characters  == (4..39) \cup (44..49) \cup (51..56)

\* What each platform's table knows of the raw usages.
LinuxUsages   == (4..49) \cup (51..71) \cup (73..83) \cup (224..231)
MacUsages     == (4..49) \cup (51..69) \cup (73..100) \cup (224..231)
WindowsUsages == (0..49) \cup (51..82) \cup (84..100) \cup {117, 127, 128, 129, 136} \cup (224..231)

Usages(host) == CASE host = "linux"   -> LinuxUsages
                  [] host = "macos"   -> MacUsages
                  [] host = "windows" -> WindowsUsages

KeyInit ==
    /\ keyHost \in KeyHosts
    /\ held = {} /\ forwarded = TRUE
    /\ keyQueue = <<>> /\ keysDown = {} /\ told = {} /\ presses = 0 /\ toggles = 0

-----------------------------------------------------------------------------
(* The client *)

Raw(k, pressed) == [what |-> "raw", key |-> k, pressed |-> pressed, mods |-> {}]
Stroke(what, k, mods) == [what |-> what, key |-> k, pressed |-> TRUE, mods |-> mods]
Nothing == Raw(0, FALSE)

\* Whether Qt has a printable text for a key: never, for most; with Ctrl it is a
\* control character on Windows and Linux, which is filtered out.
Texts(k, mods) ==
    IF k \notin Characters THEN {FALSE} ELSE IF Ctrl \in mods THEN BOOLEAN ELSE {TRUE}

\* send_qt_key_action.  Shift is in a text already.
QtKeyAction(k, mods, text, pressed) ==
    CASE k \in Modifiers -> Raw(k, pressed)
      [] k \in Specials /\ pressed -> Stroke("special", k, mods \cap ComboMods)
      [] k \notin Modifiers \cup Specials /\ text /\ pressed -> Stroke("text", k, mods)
      [] (k \in Specials \/ text) /\ ~pressed -> Nothing
      [] OTHER -> Raw(k, pressed)

\* Ctrl+Alt+F is the window's own, in every phase.
Consumed(k, mods) == k = KeyF /\ {Ctrl, Alt} \subseteq mods

KeyEvent(k, text, pressed) ==
    LET mods == held \cap Modifiers
    IN IF Consumed(k, mods) THEN Nothing ELSE QtKeyAction(k, mods, text, pressed)

\* KeyboardWorker::send: try_send drops what does not fit.
SendKey(e) ==
    IF e = Nothing \/ Len(keyQueue) = KeyQueue
    THEN UNCHANGED <<keyQueue, told>>
    ELSE /\ keyQueue' = Append(keyQueue, e)
         /\ told' = CASE e.what # "raw" -> told
                      [] e.what = "raw" /\ e.pressed  -> told \cup {e.key}
                      [] e.what = "raw" /\ ~e.pressed -> told \ {e.key}

KeyPress(k, text) ==
    /\ k \in Keys \ held /\ presses < MaxPresses
    /\ text \in Texts(k, held)
    /\ held' = held \cup {k} /\ presses' = presses + 1
    /\ IF forwarded THEN SendKey(KeyEvent(k, text, TRUE)) ELSE UNCHANGED <<keyQueue, told>>
    /\ UNCHANGED <<keyHost, forwarded, keysDown, toggles>>

KeyRelease(k, text) ==
    /\ k \in held
    /\ text \in Texts(k, held \ {k})
    /\ held' = held \ {k}
    /\ IF forwarded THEN SendKey(KeyEvent(k, text, FALSE)) ELSE UNCHANGED <<keyQueue, told>>
    /\ UNCHANGED <<keyHost, forwarded, keysDown, presses, toggles>>

\* The user switches the keyboard off or on, or a session ends and another begins.
TogglesKeyboard ==
    /\ toggles < MaxToggles
    /\ forwarded' = ~forwarded /\ toggles' = toggles + 1
    /\ UNCHANGED <<keyHost, held, keyQueue, keysDown, told, presses>>

-----------------------------------------------------------------------------
(* The daemon: what is down after a packet *)

\* A stroke presses its keys and lets go of them, also of those that were down.
\* Linux: type_text and type_with_modifiers add Shift for a shifted character.
LinuxStrikes(e) ==
    {e.key} \cup (e.mods \cap ComboMods)
            \cup (IF e.what = "text" THEN e.mods \cap {Shift} ELSE {})

\* Windows sends characters as Unicode, without a key.
WindowsStrikes(e) == (IF e.what = "special" THEN {e.key} ELSE {}) \cup (e.mods \cap ComboMods)

\* macOS: modifiers are flags of the event; a plain text has the key code of A.
MacStrikes(e) ==
    IF e.what = "text" /\ e.mods \cap ComboMods = {} THEN {KeyA} ELSE {e.key}

Strikes(e) == CASE keyHost = "linux"   -> LinuxStrikes(e)
                [] keyHost = "windows" -> WindowsStrikes(e)
                [] keyHost = "macos"   -> MacStrikes(e)

\* Mutated AfterStroke: the key itself is not let go of.
AfterStrokeHolding(e) == (keysDown \ Strikes(e)) \cup {e.key}

AfterStroke(e) == keysDown \ Strikes(e)

\* key_raw_hid
AfterRaw(e) ==
    IF e.key \notin Usages(keyHost) THEN keysDown
    ELSE IF e.pressed THEN keysDown \cup {e.key} ELSE keysDown \ {e.key}

\* The keyboard-input thread: dispatch_event.
KeyDispatch ==
    /\ keyQueue # <<>>
    /\ keyQueue' = Tail(keyQueue)
    /\ LET e == Head(keyQueue)
       IN keysDown' = IF e.what = "raw" THEN AfterRaw(e) ELSE AfterStroke(e)
    /\ UNCHANGED <<keyHost, held, forwarded, told, presses, toggles>>

-----------------------------------------------------------------------------
KeyNext ==
    \/ \E k \in Keys, text \in BOOLEAN : KeyPress(k, text) \/ KeyRelease(k, text)
    \/ TogglesKeyboard \/ KeyDispatch

KeySpec == KeyInit /\ [][KeyNext]_keyVars

-----------------------------------------------------------------------------
KeyTypeOK ==
    /\ keyHost \in KeyHosts
    /\ {held, keysDown, told} \subseteq SUBSET Keys
    /\ forwarded \in BOOLEAN /\ presses \in 0..MaxPresses /\ toggles \in 0..MaxToggles
    /\ Len(keyQueue) <= KeyQueue
    /\ \A i \in 1..Len(keyQueue) :
          keyQueue[i] \in [what : {"raw", "text", "special"}, key : Keys, pressed : BOOLEAN,
                           mods : SUBSET Modifiers]

\* Once the daemon's queue is empty, its host holds no key down but those whose
\* press it was sent, and no release after it: texts, special keys and combinations,
\* which mix with raw keys in any order and may be dropped, leave nothing behind.
KeysAreTold == keyQueue = <<>> => keysDown \subseteq told

\* The comment in send_qt_key_action: packets of texts and special keys are
\* press-only, no release is needed for those.  While keys are forwarded and the
\* queue has room, no key is down once the user has let go of all.
NothingSticks ==
    toggles = 0 /\ 2 * MaxPresses <= KeyQueue /\ keyQueue = <<>> /\ held = {} => keysDown = {}
=============================================================================
