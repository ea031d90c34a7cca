-------------------------- MODULE Contexts_proofs --------------------------
(***************************************************************************)
(* The terminal for a framebuffer of any size, and the composition of the  *)
(* two contexts, which implements both of its components: each of its steps *)
(* is a step of the lock machine or leaves it alone, and a step of the     *)
(* terminal or leaves it alone.  What is proved of the components then     *)
(* holds of the two contexts together.                                     *)
(***************************************************************************)
EXTENDS Contexts, SpinLocks_proofs

-----------------------------------------------------------------------------
(* The terminal.                                                            *)

(* Lines are whole, which is what keeps POSITION_Y -= 16 above zero. *)
WholeLines ==
    /\ POSITION_Y % 16 = 0
    /\ put \in {"bump_store", "unbump_store"} => reg % 16 = 0

(* The row: what main has loaded is still good when it is stored, because    *)
(* the handler never moves the cursor below the last line itself.            *)
Row ==
    /\ POSITION_Y <= Height
    /\ ~ MidNewline => POSITION_Y + 16 <= Height
    /\ put = "bump_store" => reg + 16 <= Height
    /\ put = "scroll" => POSITION_Y + 16 > Height
    /\ put = "unbump_store" => reg + 16 > Height /\ reg <= Height

(* The column: a full line is 16 short of the edge, so that one glyph of the *)
(* handler between test and pixel still leaves room for main's.              *)
Column ==
    /\ POSITION_X <= Width
    /\ put \in {"check", "scroll", "unbump_store", "draw", "advance"} => POSITION_X + 8 <= Width
    /\ put = "advance_store" => reg + 8 <= Width

TermInv == TermTypeOK /\ WholeLines /\ Row /\ Column

(* The screen as init_terminal leaves it. *)
LEMMA TermInitInv == TermInit => TermInv
BY ScreenAssumption DEF TermInit, TermInv, TermTypeOK, WholeLines, Row, Column, MidNewline,
                        Places

(* What fits with a glyph or a line fits without. *)
LEMMA Below == \A a, b \in Nat : \A c \in {8, 16} : a + c <= b => a <= b
BY SMT

(* The interrupt handler prints. *)
LEMMA HandlerPrints ==
    ASSUME TermInv, handler_newline \/ handler_glyph
    PROVE  TermInv'
<1> USE ScreenAssumption DEF LineHeight, GlyphWidth
<1>1. /\ POSITION_Y' \in Nat /\ POSITION_Y' % 16 = 0
      /\ POSITION_Y' = POSITION_Y \/ POSITION_Y' + 16 <= Height
      /\ POSITION_Y + 16 > Height => POSITION_Y' = POSITION_Y
  BY DEF handler_newline, handler_glyph, NextLine, BelowLastLine, TermInv, TermTypeOK, WholeLines
<1>2. POSITION_X' \in Nat /\ POSITION_X' + 8 <= Width
  BY DEF handler_newline, handler_glyph, LineFull, TermInv, TermTypeOK
<1>3. put' = put /\ after' = after /\ reg' = reg
  BY DEF handler_newline, handler_glyph, putVars
<1>4. TermTypeOK' /\ WholeLines'
  BY <1>1, <1>2, <1>3 DEF TermInv, TermTypeOK, WholeLines
<1>5. Column'
  <2>1. POSITION_X' <= Width
    BY <1>2, Below
  <2> QED BY <1>2, <1>3, <2>1 DEF TermInv, Column
<1>6. Row'
  <2>1. POSITION_Y \in Nat /\ POSITION_Y' <= Height
    BY <1>1, Below DEF TermInv, TermTypeOK, Row
  <2>2. POSITION_Y + 16 <= Height => POSITION_Y' + 16 <= Height
    BY <1>1, <2>1
  <2> QED BY <1>1, <1>3, <2>1, <2>2 DEF TermInv, Row, MidNewline
<1> QED BY <1>4, <1>5, <1>6 DEF TermInv

(* Main prints. *)
LEMMA MainPrints ==
    ASSUME TermInv, StartPut \/ PutStep
    PROVE  TermInv'
<1> USE ScreenAssumption
        DEF LineHeight, GlyphWidth, TermInv, TermTypeOK, WholeLines, Row, Column, MidNewline,
            Places, cursor
<1>1. CASE put_newline BY <1>1 DEF put_newline
<1>2. CASE put_glyph BY <1>2 DEF put_glyph, LineFull
<1>3. CASE bump_load BY <1>3 DEF bump_load
<1>4. CASE bump_store BY <1>4 DEF bump_store
<1>5. CASE home BY <1>5 DEF home
<1>6. CASE check BY <1>6 DEF check, BelowLastLine
<1>7. CASE scroll_framebuffer BY <1>7 DEF scroll_framebuffer
<1>8. CASE unbump_store
  <2>1. reg >= 16
    BY <1>8 DEF unbump_store
  <2> QED BY <1>8, <2>1 DEF unbump_store
<1>9. CASE write_pixel BY <1>9 DEF write_pixel
<1>10. CASE advance_load BY <1>10 DEF advance_load
<1>11. CASE advance_store BY <1>11 DEF advance_store
<1> QED BY <1>1, <1>2, <1>3, <1>4, <1>5, <1>6, <1>7, <1>8, <1>9, <1>10, <1>11
           DEF StartPut, PutStep

(* The invariant behind the three properties of the terminal: rows and       *)
(* columns that main holds in a register stay valid whatever the handler     *)
(* prints meanwhile.                                                         *)
THEOREM TerminalInvariant == TermSpec => []TermInv
<1>1. TermInit => TermInv
  BY TermInitInv
<1>2. TermInv /\ [TermNext]_termVars => TermInv'
  <2> SUFFICES ASSUME TermInv, [TermNext]_termVars PROVE TermInv'
    OBVIOUS
  <2>1. CASE StartPut \/ PutStep BY <2>1, MainPrints
  <2>2. CASE handler_newline \/ handler_glyph BY <2>2, HandlerPrints
  <2>3. CASE UNCHANGED termVars
    BY <2>3 DEF termVars, cursor, putVars, TermInv, TermTypeOK, WholeLines, Row, Column,
                MidNewline
  <2> QED BY <2>1, <2>2, <2>3 DEF TermNext
<1> QED BY <1>1, <1>2, PTL DEF TermSpec

(* The cursor is on the screen whenever main is not inside a line feed. *)
THEOREM CursorStaysOnScreen == TermSpec => []CursorOnScreen
<1>1. TermInv => CursorOnScreen
  BY ScreenAssumption DEF TermInv, TermTypeOK, Row, Column, CursorOnScreen, BelowLastLine, LineHeight
<1> QED BY <1>1, TerminalInvariant, PTL

(* Main writes only pixels of the framebuffer. *)
THEOREM PixelsOnScreen == TermSpec => []MainDrawsOnScreen
<1>1. TermInv => MainDrawsOnScreen
  BY ScreenAssumption DEF TermInv, TermTypeOK, Row, Column, MainDrawsOnScreen, MidNewline, LineHeight,
                          GlyphWidth
<1> QED BY <1>1, TerminalInvariant, PTL

(* The subtraction that ends a scroll never underflows. *)
THEOREM ScrollNeverUnderflows == TermSpec => []ScrollHasLine
<1>1. TermInv => ScrollHasLine
  BY ScreenAssumption DEF TermInv, TermTypeOK, WholeLines, Row, ScrollHasLine, LineHeight
<1> QED BY <1>1, TerminalInvariant, PTL

(* A glyph of the handler lies on the screen unless main is in a line feed. *)
THEOREM HandlerPixels == TermSpec => HandlerDrawsOutsideFeed
<1> DEFINE Good == handler_glyph /\ ~ MidNewline =>
                      POSITION_X' <= Width /\ ~ BelowLastLine(POSITION_Y')
<1>1. ASSUME TermInv, handler_glyph, ~ MidNewline
      PROVE  POSITION_X' <= Width /\ ~ BelowLastLine(POSITION_Y')
  <2>1. TermInv' /\ ~ MidNewline'
    BY <1>1, HandlerPrints DEF handler_glyph, putVars, MidNewline
  <2>2. POSITION_X' <= Width /\ POSITION_Y' \in Nat /\ POSITION_Y' + 16 <= Height
    BY <2>1 DEF TermInv, TermTypeOK, Row, Column
  <2> HIDE DEF Good
  <2>3. ~ (POSITION_Y' + LineHeight > Height)
    <3>1. \A y, h \in Nat : y + 16 <= h => ~ (y + 16 > h)
      BY SMT
    <3> QED BY <2>2, <3>1, ScreenAssumption DEF LineHeight
  <2> QED BY <2>2, <2>3 DEF BelowLastLine
<1>2. TermInv => [Good]_termVars
  BY <1>1
<1> QED BY <1>2, TerminalInvariant, PTL DEF HandlerDrawsOutsideFeed

-----------------------------------------------------------------------------
(* The two contexts together.                                               *)

(* Every step is a step of the lock machine, or leaves it alone. *)
LEMMA LockPart ==
    ASSUME KernelWork \subseteq Work
    PROVE  [Next]_vars => [LockNext]_lockVars
<1> SUFFICES ASSUME [Next]_vars PROVE [LockNext]_lockVars
  OBVIOUS
<1>1. "print" \in Work /\ "wait" \in Work /\ \A d \in Drivers : Arm(d) \in Work /\ Stop(d) \in Work
  BY DEF KernelWork
<1>2. CASE Main
  BY <1>1, <1>2 DEF Main, main_lock_op, Return, main_wait, main_put, main_printed, main_arm,
                    main_stop, LockNext, MainStep
<1>3. CASE Interrupt
  BY <1>3 DEF Interrupt, LockNext
<1>4. CASE HandlerProgress
  BY <1>1, <1>4 DEF HandlerProgress, handler_lock_op, handler_printed, Iretq, handler_arm,
                    LockNext, HandlerStep
<1>5. CASE handler_put
  BY <1>5 DEF handler_put
<1>6. CASE UNCHANGED vars
  BY <1>6 DEF vars
<1> QED BY <1>2, <1>3, <1>4, <1>5, <1>6 DEF Next

(* Every step is a step of the terminal, or leaves it alone. *)
LEMMA TermPart == [Next]_vars => [TermNext]_termVars
<1> SUFFICES ASSUME [Next]_vars PROVE [TermNext]_termVars
  OBVIOUS
<1>1. CASE Main
  BY <1>1 DEF Main, main_lock_op, Return, main_wait, main_put, main_printed, main_arm,
              main_stop, TermNext
<1>2. CASE Interrupt
  BY <1>2 DEF Interrupt
<1>3. CASE HandlerProgress
  BY <1>3 DEF HandlerProgress, handler_lock_op, handler_printed, Iretq, handler_arm
<1>4. CASE handler_put
  BY <1>4 DEF handler_put, TermNext
<1>5. CASE UNCHANGED vars
  BY <1>5 DEF vars
<1> QED BY <1>1, <1>2, <1>3, <1>4, <1>5 DEF Next

(* Main and handler together follow the lock machine: printing and arming    *)
(* reports never touch a lock or IF.                                         *)
THEOREM ContextsImplementLocks ==
    ASSUME KernelWork \subseteq Work
    PROVE  Spec => LockSpec
<1>1. Init => LockInit
  BY DEF Init
<1>2. [Next]_vars => [LockNext]_lockVars
  BY LockPart
<1> QED BY <1>1, <1>2, PTL DEF Spec, LockSpec

(* Main and handler together follow the terminal. *)
THEOREM ContextsImplementTerminal == Spec => TermSpec
<1>1. Init => TermInit
  BY DEF Init
<1>2. [Next]_vars => [TermNext]_termVars
  BY TermPart
<1> QED BY <1>1, <1>2, PTL DEF Spec, TermSpec

(* In the kernel, too, the handler can spin only at the sites that lock      *)
(* without cli, whatever main and handler print and arm meanwhile.           *)
THEOREM KernelSpinsKnown ==
    ASSUME CodeStructured, SitesComplete, KernelWork \subseteq Work
    PROVE  Spec => []SpinsOnlyAtKnownSites
<1>1. Spec => LockSpec
  BY ContextsImplementLocks
<1>2. LockSpec => []SpinsOnlyAtKnownSites
  BY SpinsKnown
<1> QED BY <1>1, <1>2, PTL

(* In the kernel, outside the line feeds of main, the cursor is on the       *)
(* screen and so is every glyph the handler prints; every pixel of main is   *)
(* inside the framebuffer and no scroll underflows.  The framebuffer has any *)
(* size of at least 16 by 16.                                                *)
THEOREM KernelTerminal ==
    Spec => /\ [](CursorOnScreen /\ MainDrawsOnScreen /\ ScrollHasLine)
            /\ HandlerDrawsOutsideFeed
<1> QED BY ContextsImplementTerminal, CursorStaysOnScreen, PixelsOnScreen,
           ScrollNeverUnderflows, HandlerPixels, PTL

(* Every variable of the two contexts keeps its type, given that the text of  *)
(* the functions is structured, which TypeOK repeats and TLC evaluates.      *)
THEOREM KernelTypes ==
    ASSUME CodeStructured, SitesComplete, KernelWork \subseteq Work
    PROVE  Spec => []TypeOK
<1>1. Spec => []LocksInv
  <2>1. Spec => LockSpec
    BY ContextsImplementLocks
  <2>2. LockInit => LocksInv
    BY LocksInit, CodeAssumption
  <2>3. LocksInv /\ [LockNext]_lockVars => LocksInv'
    BY LocksStep
  <2> QED BY <2>1, <2>2, <2>3, PTL DEF LockSpec
<1>2. Spec => []TermInv
  BY ContextsImplementTerminal, TerminalInvariant, PTL
<1>3. Init => armed \subseteq Drivers
  BY DEF Init
<1>4. armed \subseteq Drivers /\ [Next]_vars => (armed \subseteq Drivers)'
  BY DEF Next, Main, main_lock_op, Return, main_wait, main_put, main_printed, main_arm, main_stop,
         Interrupt, HandlerProgress, handler_lock_op, handler_printed, handler_arm, Iretq,
         handler_put, vars
<1>5. Spec => [](armed \subseteq Drivers)
  BY <1>3, <1>4, PTL DEF Spec
<1>6. LocksInv /\ TermInv /\ armed \subseteq Drivers => TypeOK
  BY DEF LocksInv, TermInv, TypeOK, TextOK
<1> QED BY <1>1, <1>2, <1>5, <1>6, PTL
=============================================================================
