------------------------------ MODULE Terminal ------------------------------
(***************************************************************************)
(* terminal_print (kernel/src/terminal/mod.rs).  The cursor is two         *)
(* `static mut` words without a lock; println runs in main context and in  *)
(* the handler of vector 44.  The handler is not interrupted, so a         *)
(* character it prints is one step.  Main can be interrupted between any   *)
(* two accesses to the cursor: in the dev profile `+=` and `-=` are a      *)
(* load, a checked addition and a store, and every pixel of a glyph reads  *)
(* the cursor again.                                                       *)
(***************************************************************************)
EXTENDS Integers

CONSTANTS Width, Height  \* of the framebuffer, in pixels

(* Room for one wrapped glyph; every framebuffer Limine offers has it. *)
ASSUME ScreenAssumption == /\ Width \in Nat /\ Width >= 16
                           /\ Height \in Nat /\ Height >= 16

GlyphWidth == 8
LineHeight == 16

VARIABLES
    POSITION_X, POSITION_Y,
    put,    \* main: where it is in the character it prints
    after,  \* main: what follows the line feed in progress
    reg     \* main: the word it loaded for += or -=

cursor  == <<POSITION_X, POSITION_Y>>
putVars == <<put, after, reg>>
termVars == <<cursor, putVars>>

TermInit ==
    /\ POSITION_X = 0 /\ POSITION_Y = 0
    /\ put = "idle" /\ after = "idle" /\ reg = 0

(* Mutant: a glyph is 8 wide, so a line is full when 8 more do not fit. *)
LineFull_glyph_width == POSITION_X + GlyphWidth > Width

(* The code leaves twice the width of a glyph. *)
LineFull == POSITION_X + 16 > Width

BelowLastLine(y) == y + LineHeight > Height

-----------------------------------------------------------------------------
(* A character printed by the handler, in one step. *)

NextLine == POSITION_Y' = IF BelowLastLine(POSITION_Y + LineHeight)
                            THEN POSITION_Y ELSE POSITION_Y + LineHeight

handler_newline == POSITION_X' = 0 /\ NextLine /\ UNCHANGED putVars

handler_glyph ==
    /\ IF LineFull THEN POSITION_X' = GlyphWidth /\ NextLine
       ELSE POSITION_X' = POSITION_X + GlyphWidth /\ UNCHANGED POSITION_Y
    /\ UNCHANGED putVars

-----------------------------------------------------------------------------
(* A character printed by main. *)

(* Mutant: the picture is scrolled before the cursor has moved down. *)
put_newline_scrolls_first ==
    /\ put = "idle" /\ put' = "scroll" /\ after' = "bump"
    /\ UNCHANGED <<cursor, reg>>

put_newline ==
    /\ put = "idle" /\ put' = "bump" /\ after' = "idle"
    /\ UNCHANGED <<cursor, reg>>

put_glyph ==
    /\ put = "idle" /\ after' = "draw"
    /\ put' = IF LineFull THEN "bump" ELSE "draw"
    /\ UNCHANGED <<cursor, reg>>

(* POSITION_Y += 16 *)
bump_load ==
    /\ put = "bump" /\ put' = "bump_store" /\ reg' = POSITION_Y
    /\ UNCHANGED <<cursor, after>>

bump_store ==
    /\ put = "bump_store" /\ put' = "home" /\ POSITION_Y' = reg + LineHeight
    /\ UNCHANGED <<POSITION_X, after, reg>>

(* Mutant: the column is not reset when a line is full. *)
home_only_after_newline ==
    /\ put = "home" /\ put' = "check"
    /\ POSITION_X' = IF after = "idle" THEN 0 ELSE POSITION_X
    /\ UNCHANGED <<POSITION_Y, after, reg>>

home ==
    /\ put = "home" /\ put' = "check" /\ POSITION_X' = 0
    /\ UNCHANGED <<POSITION_Y, after, reg>>

(* Mutant: the comparison lets the cursor rest on the row below the last. *)
check_off_by_one ==
    /\ put = "check" /\ put' = IF POSITION_Y > Height THEN "scroll" ELSE after
    /\ UNCHANGED <<cursor, after, reg>>

check ==
    /\ put = "check" /\ put' = IF BelowLastLine(POSITION_Y) THEN "scroll" ELSE after
    /\ UNCHANGED <<cursor, after, reg>>

(* scroll_framebuffer moves the picture up, then POSITION_Y -= 16. *)
scroll_framebuffer ==
    /\ put = "scroll" /\ put' = "unbump_store" /\ reg' = POSITION_Y
    /\ UNCHANGED <<cursor, after>>

unbump_store ==
    /\ put = "unbump_store" /\ put' = after /\ POSITION_Y' = reg - LineHeight
    /\ UNCHANGED <<POSITION_X, after, reg>>

(* write_pixel, for each pixel of the glyph at the cursor as it is then. *)
write_pixel ==
    /\ put = "draw" /\ put' \in {"draw", "advance"}
    /\ UNCHANGED <<cursor, after, reg>>

(* POSITION_X += 8 *)
advance_load ==
    /\ put = "advance" /\ put' = "advance_store" /\ reg' = POSITION_X
    /\ UNCHANGED <<cursor, after>>

advance_store ==
    /\ put = "advance_store" /\ put' = "idle" /\ POSITION_X' = reg + GlyphWidth
    /\ UNCHANGED <<POSITION_Y, after, reg>>

StartPut == put_newline \/ put_glyph
PutStep  == \/ bump_load \/ bump_store \/ home \/ check \/ scroll_framebuffer
            \/ unbump_store \/ write_pixel \/ advance_load \/ advance_store

(* The terminal alone, with a handler that prints whenever it likes. *)
TermNext == StartPut \/ PutStep \/ handler_newline \/ handler_glyph
TermSpec == TermInit /\ [][TermNext]_termVars

-----------------------------------------------------------------------------
Places == {"idle", "bump", "bump_store", "home", "check", "scroll", "unbump_store",
           "draw", "advance", "advance_store"}

TermTypeOK ==
    /\ POSITION_X \in Nat /\ POSITION_Y \in Nat /\ reg \in Nat
    /\ put \in Places /\ after \in {"idle", "draw"}

(* While main has moved the cursor down and not yet scrolled, it may be      *)
(* below the last line, and a glyph the handler prints then falls below the  *)
(* picture.                                                                  *)
MidNewline == put \in {"home", "check", "scroll", "unbump_store"}

(* Whatever the handler prints and wherever it interrupts main, the cursor   *)
(* is on the screen again as soon as main has finished its line feed, and    *)
(* it is never lower than one line below the last.                           *)
CursorOnScreen ==
    /\ ~ MidNewline => ~ BelowLastLine(POSITION_Y)
    /\ POSITION_X <= Width /\ POSITION_Y <= Height

(* Every pixel main writes is inside the framebuffer, although the handler   *)
(* can move the cursor between the test for a full line and each pixel.      *)
MainDrawsOnScreen == put = "draw" => /\ POSITION_X + GlyphWidth <= Width
                                     /\ POSITION_Y + LineHeight <= Height

(* "Scroll when the text reaches the last line of the screen": no glyph the  *)
(* handler prints falls below the picture, where write_pixel, which checks   *)
(* nothing, would write past the framebuffer.                                *)
HandlerDrawsOnScreen ==
    [][handler_glyph => POSITION_X' <= Width /\ ~ BelowLastLine(POSITION_Y')]_termVars

(* What terminal_print does keep of that: wherever else main is interrupted, *)
(* in the middle of a glyph or with a cursor word in a register, a glyph of  *)
(* the handler lies on the screen with all its pixels.                       *)
HandlerDrawsOutsideFeed ==
    [][handler_glyph /\ ~ MidNewline =>
          POSITION_X' <= Width /\ ~ BelowLastLine(POSITION_Y')]_termVars

(* POSITION_Y -= 16 never goes below zero, which the dev profile would turn  *)
(* into a panic, although the handler may print between test and load.       *)
ScrollHasLine == put = "unbump_store" => reg >= LineHeight
=============================================================================
