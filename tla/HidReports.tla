----------------------------- MODULE HidReports -----------------------------
(***************************************************************************)
(* What the drivers make of boot reports: handle_report of keyboard_usb.rs *)
(* and of mouse_usb.rs.  A device reports its state when the driver has    *)
(* armed a transfer, so what happens between two reports is seen as one    *)
(* change.  poll_event_ring does not look at the completion code of a      *)
(* report: after a failed transfer the driver handles what the buffer held *)
(* before, and the endpoint stays halted.                                  *)
(***************************************************************************)
EXTENDS Integers, FiniteSets, Sequences

CONSTANTS
    Keys,       \* keycodes in use
    Printable,  \* those with a character in hid_keycode_to_ascii
    KeySlots,   \* keycodes in a report, 6
    MaxEchoes,  \* bound: how far the times a key is printed are counted
    Buttons,    \* of the mouse
    MaxPos      \* largest position (i32::MAX)

NoKey         == "0x00"
ErrorRollOver == "0x01"  \* more keys are down than a report has room for

ASSUME HidAssumption ==
    /\ NoKey \notin Keys /\ ErrorRollOver \notin Keys /\ Printable \subseteq Keys
    /\ KeySlots \in Nat \ {0} /\ MaxEchoes \in Nat /\ MaxEchoes > 1
    /\ MaxPos \in Nat

VARIABLES
    down,       \* keyboard: the keys held
    keycodes,   \* keyboard: the report buffer
    last_keycodes,
    echoed,     \* per key: times printed since it was last reported up
    rolled,     \* keys held across an ErrorRollOver report
    kbd_halted

kbdVars == <<down, keycodes, last_keycodes, echoed, rolled, kbd_halted>>

VARIABLES
    held,       \* mouse: the buttons held
    report,     \* mouse: the report buffer, buttons and x (y is handled as x is)
    last_buttons,
    pos_x,
    travel,     \* sum of the movements the mouse has reported
    lines,      \* per button: "pressed" lines printed minus "released" ones
    mouse       \* "running", "halted", "panic"

mouseVars == <<held, report, last_buttons, pos_x, travel, lines, mouse>>

-----------------------------------------------------------------------------
(* Keyboard. *)

Codes(r)  == {r[n] : n \in DOMAIN r}
Empty     == [n \in 1 .. KeySlots |-> NoKey]

(* A report names the keys held, in any order, or reports too many. *)
ReportsOf(keys) ==
    IF Cardinality(keys) > KeySlots THEN {[n \in 1 .. KeySlots |-> ErrorRollOver]}
    ELSE {r \in [1 .. KeySlots -> keys \cup {NoKey}] :
             \A k \in keys : Cardinality({n \in DOMAIN r : r[n] = k}) = 1}

KbdInit ==
    /\ down = {} /\ keycodes = Empty /\ last_keycodes = Empty
    /\ echoed = [k \in Keys |-> 0] /\ rolled = {} /\ kbd_halted = FALSE

(* Mutant: a key is looked for in its own place of the last report only. *)
NewKeys_by_place(r) == {r[n] : n \in {m \in DOMAIN r : last_keycodes[m] # r[m]}} \ {NoKey}

NewKeys(r) == Codes(r) \ (Codes(last_keycodes) \cup {NoKey})

(* Each key that is not in the last report is printed, if it has a character. *)
handle_keyboard_report(r) ==
    /\ echoed' = [k \in Keys |->
          CASE k \in NewKeys(r) \cap Printable                     ->
                   IF echoed[k] < MaxEchoes THEN echoed[k] + 1 ELSE MaxEchoes
            [] k \notin Codes(r) /\ ErrorRollOver \notin Codes(r)  -> 0
            [] OTHER                                               -> echoed[k]]
    /\ rolled' = IF ErrorRollOver \in Codes(r) THEN rolled \cup Codes(last_keycodes)
                 ELSE rolled \cap Codes(r)
    /\ last_keycodes' = r

ChangeKey(k) ==
    /\ down' = IF k \in down THEN down \ {k} ELSE down \cup {k}
    /\ UNCHANGED <<keycodes, last_keycodes, echoed, rolled, kbd_halted>>

KeyReport ==
    /\ ~ kbd_halted
    /\ keycodes' \in ReportsOf(down)
    /\ handle_keyboard_report(keycodes')
    /\ UNCHANGED <<down, kbd_halted>>

KeyReportFails ==
    /\ ~ kbd_halted /\ kbd_halted' = TRUE
    /\ handle_keyboard_report(keycodes)
    /\ UNCHANGED <<down, keycodes>>

KbdNext == (\E k \in Keys : ChangeKey(k)) \/ KeyReport \/ KeyReportFails
KbdSpec == KbdInit /\ [][KbdNext]_kbdVars

(* "Trigger printing once per newly pressed key" (DOKUMENTASI-XHCI.md): a key *)
(* is printed at most once between two reports that say it is up.             *)
HeldKeyOnce == \A k \in Keys : echoed[k] <= 1

(* What handle_report does keep of that: a key that is held is printed once,  *)
(* however the keyboard orders its reports, and a failed transfer prints      *)
(* nothing twice; only after an ErrorRollOver report, which is remembered as  *)
(* if no key were down, is a held key printed again.                          *)
HeldKeyOnceUnlessRollOver ==
    \A k \in Keys : /\ echoed[k] > 1 => k \in rolled
                    /\ k \in Codes(last_keycodes) =>
                          (echoed[k] > 0 <=> k \in Printable)

-----------------------------------------------------------------------------
(* Mouse. *)

MouseInit ==
    /\ held = {} /\ report = [buttons |-> {}, x |-> 0]
    /\ last_buttons = {} /\ pos_x = 0 /\ travel = 0
    /\ lines = [b \in Buttons |-> 0] /\ mouse = "running"

(* Mutant: the buttons are remembered only when the mouse moves. *)
handle_mouse_report_early_return(r) ==
    /\ pos_x' = pos_x + r.x
    /\ lines' = [b \in Buttons |->
                    IF (b \in r.buttons) = (b \in last_buttons) THEN lines[b]
                    ELSE IF b \in r.buttons THEN lines[b] + 1 ELSE lines[b] - 1]
    /\ last_buttons' = IF r.x = 0 THEN last_buttons ELSE r.buttons

(* The position is an i32 whose overflow panics in the dev profile; each      *)
(* button whose state differs from the last report gets a line.               *)
handle_mouse_report(r) ==
    /\ pos_x' = pos_x + r.x
    /\ lines' = [b \in Buttons |->
                    IF (b \in r.buttons) = (b \in last_buttons) THEN lines[b]
                    ELSE IF b \in r.buttons THEN lines[b] + 1 ELSE lines[b] - 1]
    /\ last_buttons' = r.buttons

InRange(x) == x \in - MaxPos - 1 .. MaxPos

ChangeButton(b) ==
    /\ held' = IF b \in held THEN held \ {b} ELSE held \cup {b}
    /\ UNCHANGED <<report, last_buttons, pos_x, travel, lines, mouse>>

(* MOUSE_STATE after the report r, if the addition does not panic. *)
Handle(r, next) ==
    IF InRange(pos_x + r.x) THEN handle_mouse_report(r) /\ mouse' = next
    ELSE mouse' = "panic" /\ UNCHANGED <<last_buttons, pos_x, lines>>

MouseReport ==
    /\ mouse = "running"
    /\ \E dx \in {-1, 0, 1} :
          report' = [buttons |-> held, x |-> dx] /\ travel' = travel + dx
    /\ Handle(report', "running")
    /\ UNCHANGED held

MouseReportFails ==
    /\ mouse = "running" /\ Handle(report, "halted")
    /\ UNCHANGED <<held, report, travel>>

MouseNext == (\E b \in Buttons : ChangeButton(b)) \/ MouseReport \/ MouseReportFails
MouseSpec == MouseInit /\ [][MouseNext]_mouseVars

(* The lines printed for a button alternate between pressed and released and  *)
(* say what the mouse reported last; the position is what the mouse reported, *)
(* except that a failed transfer counts the movement before it twice.         *)
MouseLogTrue ==
    mouse # "panic" =>
        /\ \A b \in Buttons : lines[b] = IF b \in report.buttons THEN 1 ELSE 0
        /\ pos_x = travel + (IF mouse = "halted" THEN report.x ELSE 0)
=============================================================================
