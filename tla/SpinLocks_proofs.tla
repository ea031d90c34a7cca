-------------------------- MODULE SpinLocks_proofs --------------------------
(***************************************************************************)
(* For any set of locks, functions and interrupts: who holds what follows  *)
(* from the places main and handler have reached.  The handler can then    *)
(* spin only where a function holds a lock with IF set, and nowhere if     *)
(* every function locks in a cli .. sti section.                           *)
(***************************************************************************)
EXTENDS SpinLocks, TLAPS

(* The rule of the documents: IF is clear wherever a lock is held. *)
Disciplined ==
    \A f \in Functions : \A i \in 1 .. Len(Body[f]) + 1 :
        Held(Body[f], i) # {} => Masked(Body[f], i)

-----------------------------------------------------------------------------
(* What the operations of straight-line code do to the locks it holds and    *)
(* to IF.                                                                    *)

(* The operations are told apart. *)
LEMMA OpsDistinct ==
    ASSUME NEW l, NEW m, NEW w
    PROVE  /\ Lock(l) = Lock(m) => l = m
           /\ Unlock(l) = Unlock(m) => l = m
           /\ Lock(l) # Unlock(m) /\ Lock(l) # Cli /\ Lock(l) # Sti /\ Lock(l) # Do(w)
           /\ Unlock(l) # Cli /\ Unlock(l) # Sti /\ Unlock(l) # Do(w)
           /\ Do(w) # Cli /\ Do(w) # Sti /\ Cli # Sti
BY DEF Lock, Unlock, Do, Cli, Sti

(* Code begins with no lock held and interrupts as they were. *)
LEMMA HeldFirst == \A b : Held(b, 1) = {} /\ ~ Masked(b, 1)
BY SMT DEF Held, Masked

(* A lock taken is held. *)
LEMMA HeldLock ==
    ASSUME NEW b, NEW i \in Nat \ {0}, NEW l \in Locks, b[i] = Lock(l)
    PROVE  Held(b, i + 1) = Held(b, i) \cup {l}
<1>1. b[i] # Unlock(l) /\ \A m : b[i] # Unlock(m) /\ (b[i] = Lock(m) => m = l)
  BY OpsDistinct
<1>2. ASSUME NEW m \in Locks
      PROVE  m \in Held(b, i + 1) <=> m \in Held(b, i) \/ m = l
  BY <1>1, <1>2, SMT DEF Held
<1> QED BY <1>2 DEF Held

(* A lock released is not. *)
LEMMA HeldUnlock ==
    ASSUME NEW b, NEW i \in Nat \ {0}, NEW l \in Locks, b[i] = Unlock(l)
    PROVE  Held(b, i + 1) = Held(b, i) \ {l}
<1>1. \A m : b[i] # Lock(m) /\ (b[i] = Unlock(m) => m = l)
  BY OpsDistinct
<1>2. ASSUME NEW m \in Locks
      PROVE  m \in Held(b, i + 1) <=> m \in Held(b, i) /\ m # l
  BY <1>1, <1>2, SMT DEF Held
<1> QED BY <1>2 DEF Held

(* Nothing else changes the locks held. *)
LEMMA HeldOther ==
    ASSUME NEW b, NEW i \in Nat \ {0},
           \A l \in Locks : b[i] # Lock(l) /\ b[i] # Unlock(l)
    PROVE  Held(b, i + 1) = Held(b, i)
<1>1. ASSUME NEW m \in Locks
      PROVE  m \in Held(b, i + 1) <=> m \in Held(b, i)
  BY <1>1, SMT DEF Held
<1> QED BY <1>1 DEF Held

(* Only cli and sti change whether interrupts are masked. *)
LEMMA MaskedStep ==
    ASSUME NEW b, NEW i \in Nat \ {0}
    PROVE  /\ b[i] = Cli => Masked(b, i + 1)
           /\ b[i] = Sti => ~ Masked(b, i + 1)
           /\ b[i] # Cli /\ b[i] # Sti => (Masked(b, i + 1) <=> Masked(b, i))
<1>1. Cli # Sti
  BY OpsDistinct
<1> QED BY <1>1, SMT DEF Masked

-----------------------------------------------------------------------------
(* The inductive invariant: the locks and IF are what the text says at the   *)
(* places reached.  The last two parts tie IF to the handler: it runs only   *)
(* if main had IF set, and so outside main's cli .. sti sections.            *)
Placed ==
    /\ \A l \in Locks : owner[l] = "main" <=> l \in Held(Body[fn], at)
    /\ \A l \in Locks : owner[l] = "handler" <=>
                           irq # NoInterrupt /\ l \in Held(Handler[irq], hat)
    /\ irq # NoInterrupt => if_flag = FALSE /\ ~ Masked(Body[fn], at)
    /\ irq = NoInterrupt => (if_flag = TRUE <=> ~ Masked(Body[fn], at))

LocksInv == LockTypeOK /\ Placed

(* It holds at first. *)
LEMMA LocksInit == CodeAssumption /\ LockInit => LocksInv
BY CodeAssumption, HeldFirst DEF LockInit, LocksInv, LockTypeOK, Placed, CodeAssumption

(* Every step of structured code keeps it. *)
LEMMA LocksStep == CodeStructured /\ LocksInv /\ [LockNext]_lockVars => LocksInv'
<1> SUFFICES ASSUME CodeStructured, LocksInv, [LockNext]_lockVars
             PROVE  LocksInv'
  OBVIOUS
<1> USE CodeAssumption
<1>a. /\ fn \in Functions /\ Body[fn] \in Seq(Ops) /\ Len(Body[fn]) \in Nat
      /\ at \in Nat \ {0} /\ DOMAIN Body[fn] = 1 .. Len(Body[fn])
      /\ Structured(Body[fn]) /\ Scoped(Body[fn])
  BY DEF LocksInv, LockTypeOK, CodeAssumption, CodeStructured
<1>b. irq # NoInterrupt =>
        /\ irq \in Interrupts /\ Handler[irq] \in Seq(HandlerOps) /\ Len(Handler[irq]) \in Nat
        /\ hat \in Nat \ {0} /\ DOMAIN Handler[irq] = 1 .. Len(Handler[irq])
        /\ Structured(Handler[irq])
  BY DEF LocksInv, LockTypeOK, CodeAssumption, CodeStructured
<1>1. CASE cli
  <2>1. /\ MainOp = Cli /\ MainOp # Sti
        /\ \A l \in Locks : MainOp # Lock(l) /\ MainOp # Unlock(l)
    BY <1>1, OpsDistinct DEF cli
  <2>2. Held(Body[fn], at + 1) = Held(Body[fn], at) /\ Masked(Body[fn], at + 1)
    BY <1>a, <2>1, HeldOther, MaskedStep DEF MainOp
  <2>b. if_flag' \in BOOLEAN
    BY <1>1, Zenon DEF cli
  <2>4. /\ irq = NoInterrupt /\ irq' = irq /\ hat' = hat /\ owner' = owner
        /\ fn' = fn /\ at' = at + 1 /\ ~ (if_flag' = TRUE)
    BY <1>1, Zenon DEF cli, MainRuns, handlerPc
  <2>c. at \in 1 .. Len(Body[fn])
    BY <1>1, <1>a DEF cli, MainRuns
  <2>3. LockTypeOK'
    BY <2>b, <2>c, <2>4, <1>a DEF LocksInv, LockTypeOK
  <2>5. Placed'
    BY <2>2, <2>4 DEF LocksInv, Placed
  <2> QED BY <2>3, <2>5 DEF LocksInv
<1>2. CASE sti
  <2>1. /\ MainOp = Sti /\ MainOp # Cli
        /\ \A l \in Locks : MainOp # Lock(l) /\ MainOp # Unlock(l)
    BY <1>2, OpsDistinct DEF sti
  <2>2. Held(Body[fn], at + 1) = Held(Body[fn], at) /\ ~ Masked(Body[fn], at + 1)
    BY <1>a, <2>1, HeldOther, MaskedStep DEF MainOp
  <2> QED BY <1>2, <1>a, <2>2 DEF sti, LocksInv, LockTypeOK, Placed, MainRuns, handlerPc
<1>3. ASSUME NEW l \in Locks, main_lock(l) PROVE LocksInv'
  <2>1. MainOp = Lock(l) /\ MainOp # Cli /\ MainOp # Sti
    BY <1>3, OpsDistinct DEF main_lock
  <2>2. /\ Held(Body[fn], at + 1) = Held(Body[fn], at) \cup {l}
        /\ Masked(Body[fn], at + 1) <=> Masked(Body[fn], at)
    BY <1>a, <2>1, HeldLock, MaskedStep DEF MainOp
  <2> QED BY <1>3, <1>a, <2>2 DEF main_lock, LocksInv, LockTypeOK, Placed, MainRuns, handlerPc
<1>4. ASSUME NEW l \in Locks, main_unlock(l) PROVE LocksInv'
  <2>1. MainOp = Unlock(l) /\ MainOp # Cli /\ MainOp # Sti
    BY <1>4, OpsDistinct DEF main_unlock
  <2>2. /\ Held(Body[fn], at + 1) = Held(Body[fn], at) \ {l}
        /\ Masked(Body[fn], at + 1) <=> Masked(Body[fn], at)
    BY <1>a, <2>1, HeldUnlock, MaskedStep DEF MainOp
  <2> QED BY <1>4, <1>a, <2>2 DEF main_unlock, LocksInv, LockTypeOK, Placed, MainRuns, handlerPc
<1>5. ASSUME NEW w \in Work, main_work(w) PROVE LocksInv'
  <2>1. /\ MainOp = Do(w) /\ MainOp # Cli /\ MainOp # Sti
        /\ \A l \in Locks : MainOp # Lock(l) /\ MainOp # Unlock(l)
    BY <1>5, OpsDistinct DEF main_work
  <2>2. /\ Held(Body[fn], at + 1) = Held(Body[fn], at)
        /\ Masked(Body[fn], at + 1) <=> Masked(Body[fn], at)
    BY <1>a, <2>1, HeldOther, MaskedStep DEF MainOp
  <2> QED BY <1>5, <1>a, <2>2 DEF main_work, LocksInv, LockTypeOK, Placed, MainRuns, handlerPc
<1>6. CASE main_return
  <2>1. Held(Body[fn], at) = {} /\ ~ Masked(Body[fn], at)
    BY <1>6, <1>a DEF main_return, Scoped
  <2>2. fn' \in Functions /\ at' = 1 /\ Len(Body[fn']) \in Nat
    BY <1>6, <1>a DEF main_return, CodeAssumption
  <2>3. Held(Body[fn'], 1) = {} /\ ~ Masked(Body[fn'], 1)
    BY HeldFirst
  <2>4. LockTypeOK'
    BY <1>6, <2>2 DEF main_return, LocksInv, LockTypeOK, handlerPc
  <2>5. Placed'
    BY <1>6, <2>1, <2>2, <2>3 DEF main_return, LocksInv, Placed, handlerPc
  <2> QED BY <2>4, <2>5 DEF LocksInv
<1>7. ASSUME NEW e \in Interrupts, TakeInterrupt(e) PROVE LocksInv'
  <2>1. irq' = e /\ irq' # NoInterrupt /\ hat' = 1 /\ Len(Handler[e]) \in Nat
    BY <1>7 DEF TakeInterrupt, CodeAssumption
  <2>2. Held(Handler[e], 1) = {}
    BY HeldFirst
  <2>3. /\ irq = NoInterrupt /\ owner' = owner /\ fn' = fn /\ at' = at
        /\ if_flag = TRUE /\ if_flag' = FALSE
    <3>1. if_flag \in BOOLEAN /\ if_flag
      BY <1>7 DEF TakeInterrupt, LocksInv, LockTypeOK
    <3>2. if_flag = TRUE
      BY <3>1, Zenon
    <3> QED BY <1>7, <3>2 DEF TakeInterrupt, mainPc
  <2>b. if_flag' \in BOOLEAN
    BY <2>3, Zenon
  <2>c. hat' \in 1 .. Len(Handler[irq']) + 1
    BY <2>1
  <2>d. /\ owner \in [Locks -> {"nobody", "main", "handler"}]
        /\ fn \in Functions /\ at \in 1 .. Len(Body[fn]) + 1
    BY DEF LocksInv, LockTypeOK
  <2>e. owner' = owner /\ fn' = fn /\ at' = at
    BY <2>3
  <2>4. LockTypeOK'
    BY <2>1, <2>b, <2>c, <2>d, <2>e DEF LockTypeOK
  <2>5. ~ Masked(Body[fn], at)
    BY <2>3 DEF LocksInv, Placed
  <2>6. \A l \in Locks : owner[l] # "handler"
    BY <2>3 DEF LocksInv, Placed
  <2>7. Placed'
    BY <2>1, <2>2, <2>3, <2>5, <2>6 DEF LocksInv, Placed
  <2> QED BY <2>4, <2>7 DEF LocksInv
<1>8. ASSUME NEW l \in Locks, handler_lock(l) PROVE LocksInv'
  <2>a. Handler[irq][hat] = Lock(l) /\ hat \in Nat \ {0}
    BY <1>8, <1>b DEF handler_lock, HandlerRuns, HandlerOp
  <2>1. Held(Handler[irq], hat + 1) = Held(Handler[irq], hat) \cup {l}
    BY <2>a, HeldLock
  <2> QED BY <1>8, <1>b, <2>1
             DEF handler_lock, LocksInv, LockTypeOK, Placed, HandlerRuns, mainPc
<1>9. ASSUME NEW l \in Locks, handler_unlock(l) PROVE LocksInv'
  <2>1. Held(Handler[irq], hat + 1) = Held(Handler[irq], hat) \ {l}
    BY <1>9, <1>b, HeldUnlock DEF handler_unlock, HandlerRuns, HandlerOp
  <2>2. l \in Held(Handler[irq], hat)
    BY <1>9, <1>b DEF handler_unlock, HandlerRuns, HandlerOp, Structured
  <2> QED BY <1>9, <1>b, <2>1, <2>2
             DEF handler_unlock, LocksInv, LockTypeOK, Placed, HandlerRuns, mainPc
<1>10. ASSUME NEW w \in Work, handler_work(w) PROVE LocksInv'
  <2>1. \A l \in Locks : HandlerOp # Lock(l) /\ HandlerOp # Unlock(l)
    BY <1>10, OpsDistinct DEF handler_work
  <2>2. Held(Handler[irq], hat + 1) = Held(Handler[irq], hat)
    BY <1>10, <1>b, <2>1, HeldOther DEF handler_work, HandlerRuns, HandlerOp
  <2> QED BY <1>10, <1>b, <2>2
             DEF handler_work, LocksInv, LockTypeOK, Placed, HandlerRuns, mainPc
<1>11. CASE iretq
  <2>1. Held(Handler[irq], hat) = {}
    BY <1>11, <1>b DEF iretq, Structured
  <2> QED BY <1>11, <2>1 DEF iretq, LocksInv, LockTypeOK, Placed, mainPc
<1>12. CASE UNCHANGED lockVars
  BY <1>12 DEF lockVars, LocksInv, LockTypeOK, Placed
<1> QED BY <1>1, <1>2, <1>3, <1>4, <1>5, <1>6, <1>7, <1>8, <1>9, <1>10, <1>11, <1>12
           DEF LockNext, MainStep, HandlerStep

(* Locks and interrupt flag are where the program text says they are. *)
THEOREM LocksInvariant ==
    ASSUME CodeStructured
    PROVE  LockSpec => []LocksInv
<1>1. LockInit => LocksInv
  BY LocksInit, CodeAssumption
<1>2. LocksInv /\ [LockNext]_lockVars => LocksInv'
  BY LocksStep
<1> QED BY <1>1, <1>2, PTL DEF LockSpec

(* The handler spins only on a lock that main holds with IF set, at a site   *)
(* OpenSites names: a cli .. sti section is safe against vector 44 whatever  *)
(* the other functions do.                                                   *)
THEOREM SpinsKnown ==
    ASSUME CodeStructured, SitesComplete
    PROVE  LockSpec => []SpinsOnlyAtKnownSites
<1>1. LocksInv => SpinsOnlyAtKnownSites
  BY CodeAssumption DEF SitesComplete, LocksInv, LockTypeOK, Placed,
                        SpinsOnlyAtKnownSites, SpinsOn, HandlerRuns
<1>2. LockSpec => []LocksInv
  BY LocksInvariant
<1> QED BY <1>1, <1>2, PTL

(* The rule of CARA-BIKIN-DRIVER.md:66 is enough: if every function has IF    *)
(* clear wherever it holds a lock, the handler never waits for one.          *)
THEOREM DisciplineSuffices ==
    ASSUME CodeStructured, Disciplined
    PROVE  LockSpec => []HandlerNeverSpins
<1>1. LocksInv => HandlerNeverSpins
  BY CodeAssumption DEF Disciplined, LocksInv, LockTypeOK, Placed,
                        HandlerNeverSpins, SpinsOn, HandlerRuns
<1>2. LockSpec => []LocksInv
  BY LocksInvariant
<1> QED BY <1>1, <1>2, PTL

(* Main never locks a lock it holds, and it never finds one that the handler *)
(* holds.                                                                    *)
THEOREM MainFindsLocksFree ==
    ASSUME CodeStructured
    PROVE  LockSpec => []MainNeverSpins
<1>1. LocksInv => MainNeverSpins
  <2> SUFFICES ASSUME LocksInv, NEW l \in Locks, MainRuns, MainOp = Lock(l)
               PROVE  owner[l] = "nobody"
    BY DEF MainNeverSpins
  <2>1. fn \in Functions /\ Body[fn] \in Seq(Ops) /\ at \in 1 .. Len(Body[fn])
    BY CodeAssumption DEF LocksInv, LockTypeOK, MainRuns, CodeAssumption
  <2>2. l \notin Held(Body[fn], at)
    BY <2>1 DEF CodeStructured, Structured, MainOp
  <2>3. owner[l] \in {"nobody", "main", "handler"} /\ irq = NoInterrupt
    BY DEF LocksInv, LockTypeOK, MainRuns
  <2> QED BY <2>2, <2>3 DEF LocksInv, Placed
<1>2. LockSpec => []LocksInv
  BY LocksInvariant
<1> QED BY <1>1, <1>2, PTL

(* A function returns with interrupts enabled and without a lock. *)
THEOREM FunctionsKeepNothing ==
    ASSUME CodeStructured
    PROVE  LockSpec => []NothingKept
<1>1. LocksInv => NothingKept
  <2> SUFFICES ASSUME LocksInv PROVE NothingKept
    OBVIOUS
  <2>1. ASSUME at = Len(Body[fn]) + 1, irq = NoInterrupt
        PROVE  if_flag = TRUE /\ \A l \in Locks : owner[l] = "nobody"
    <3>1. fn \in Functions /\ Held(Body[fn], at) = {} /\ ~ Masked(Body[fn], at)
      BY <2>1 DEF LocksInv, LockTypeOK, CodeStructured, Scoped
    <3>2. \A l \in Locks : owner[l] \in {"nobody", "main", "handler"}
      BY DEF LocksInv, LockTypeOK
    <3> QED BY <2>1, <3>1, <3>2 DEF LocksInv, Placed
  <2>2. ASSUME irq # NoInterrupt, hat = Len(Handler[irq]) + 1
        PROVE  \A l \in Locks : owner[l] # "handler"
    <3>1. irq \in Interrupts /\ Held(Handler[irq], hat) = {}
      BY <2>2 DEF LocksInv, LockTypeOK, CodeStructured, Structured
    <3> QED BY <2>2, <3>1 DEF LocksInv, Placed
  <2> QED BY <2>1, <2>2 DEF NothingKept
<1>2. LockSpec => []LocksInv
  BY LocksInvariant
<1> QED BY <1>1, <1>2, PTL
=============================================================================
