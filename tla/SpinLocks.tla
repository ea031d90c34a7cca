----------------------------- MODULE SpinLocks -----------------------------
(***************************************************************************)
(* Spin locks shared by main context and one interrupt handler on a single *)
(* CPU.  spin::Mutex busy-waits and knows nothing of interrupts: a handler *)
(* that finds a lock taken by the code it interrupted waits for ever.      *)
(*                                                                         *)
(* A function is the sequence of its operations on IF and on the locks,    *)
(* with a work step for what it does in between; the functions of the      *)
(* kernel are written down in module Contexts.  The handler runs with IF   *)
(* clear (its gate is an interrupt gate) and main does not run meanwhile.  *)
(***************************************************************************)
EXTENDS Integers, Sequences

CONSTANTS
    Locks,       \* the spin locks
    Work,        \* labels of the work between the lock operations
    Functions,   \* functions of main context
    First,       \* the one main runs first
    Body,        \* the operations of each function
    Successors,  \* the functions main may run after each function
    Interrupts,  \* what an interrupt may bring
    Handler,     \* the handler's operations for each
    OpenSites    \* per function: the locks it is known to hold with IF set

Cli       == [op |-> "cli", arg |-> "IF"]
Sti       == [op |-> "sti", arg |-> "IF"]
Lock(l)   == [op |-> "lock", arg |-> l]
Unlock(l) == [op |-> "unlock", arg |-> l]
Do(w)     == [op |-> "work", arg |-> w]

Ops == {Cli, Sti} \cup {Lock(l) : l \in Locks} \cup {Unlock(l) : l \in Locks}
         \cup {Do(w) : w \in Work}
HandlerOps == Ops \ {Cli, Sti}

NoInterrupt == "none"

ASSUME CodeAssumption ==
    /\ First \in Functions
    /\ Body \in [Functions -> Seq(Ops)]
    /\ Successors \in [Functions -> SUBSET Functions]
    /\ NoInterrupt \notin Interrupts
    /\ Handler \in [Interrupts -> Seq(HandlerOps)]
    /\ OpenSites \in [Functions -> SUBSET Locks]

(* What a piece of straight-line code holds, and whether it has IF clear,   *)
(* just before its i-th operation.                                          *)
Held(b, i) ==
    {l \in Locks : \E j \in 1 .. i - 1 : /\ b[j] = Lock(l)
                                         /\ \A k \in j + 1 .. i - 1 : b[k] # Unlock(l)}
Masked(b, i) == \E j \in 1 .. i - 1 : b[j] = Cli /\ \A k \in j + 1 .. i - 1 : b[k] # Sti

(* Every guard is dropped before its function returns, and IF is set again. *)
Scoped(b) == Held(b, Len(b) + 1) = {} /\ ~ Masked(b, Len(b) + 1)

(* What is asked of the text of one function: guards are dropped in the      *)
(* function that takes them, and no lock is taken twice.                     *)
Structured(b) ==
    /\ Held(b, Len(b) + 1) = {}
    /\ \A i \in 1 .. Len(b), l \in Locks :
          /\ b[i] = Lock(l) => l \notin Held(b, i)
          /\ b[i] = Unlock(l) => l \in Held(b, i)

CodeStructured ==
    /\ \A f \in Functions : Structured(Body[f]) /\ Scoped(Body[f])
    /\ \A e \in Interrupts : Structured(Handler[e])

(* OpenSites names every lock a function holds with IF set. *)
SitesComplete ==
    \A f \in Functions : \A i \in 1 .. Len(Body[f]) + 1 : \A l \in Locks :
        l \in Held(Body[f], i) /\ ~ Masked(Body[f], i) => l \in OpenSites[f]

VARIABLES
    if_flag,   \* the interrupt flag
    owner,     \* who holds each lock
    fn, at,    \* main: function and next operation
    irq, hat   \* handler: the interrupt being handled and next operation

mainPc    == <<fn, at>>
handlerPc == <<irq, hat>>
lockVars  == <<if_flag, owner, fn, at, irq, hat>>

LockInit ==
    /\ if_flag = TRUE /\ owner = [l \in Locks |-> "nobody"]
    /\ fn = First /\ at = 1
    /\ irq = NoInterrupt /\ hat = 1

MainRuns     == irq = NoInterrupt /\ at \in DOMAIN Body[fn]
HandlerRuns  == irq # NoInterrupt /\ hat \in DOMAIN Handler[irq]
MainOp       == Body[fn][at]
HandlerOp    == Handler[irq][hat]

-----------------------------------------------------------------------------
(* Main context. *)

cli ==
    /\ MainRuns /\ MainOp = Cli
    /\ if_flag' = FALSE /\ at' = at + 1
    /\ UNCHANGED <<owner, fn, handlerPc>>

sti ==
    /\ MainRuns /\ MainOp = Sti
    /\ if_flag' = TRUE /\ at' = at + 1
    /\ UNCHANGED <<owner, fn, handlerPc>>

(* Mutex::lock spins until the lock is free. *)
main_lock(l) ==
    /\ MainRuns /\ MainOp = Lock(l) /\ owner[l] = "nobody"
    /\ owner' = [owner EXCEPT ![l] = "main"] /\ at' = at + 1
    /\ UNCHANGED <<if_flag, fn, handlerPc>>

(* A MutexGuard goes out of scope. *)
main_unlock(l) ==
    /\ MainRuns /\ MainOp = Unlock(l)
    /\ owner' = [owner EXCEPT ![l] = "nobody"] /\ at' = at + 1
    /\ UNCHANGED <<if_flag, fn, handlerPc>>

main_work(w) ==
    /\ MainRuns /\ MainOp = Do(w)
    /\ at' = at + 1
    /\ UNCHANGED <<if_flag, owner, fn, handlerPc>>

main_return ==
    /\ irq = NoInterrupt /\ at = Len(Body[fn]) + 1
    /\ fn' \in Successors[fn] /\ at' = 1
    /\ UNCHANGED <<if_flag, owner, handlerPc>>

-----------------------------------------------------------------------------
(* The handler of vector 44. *)

(* The gate clears IF; the interrupted code resumes only after iretq. *)
TakeInterrupt(e) ==
    /\ if_flag /\ irq = NoInterrupt
    /\ if_flag' = FALSE /\ irq' = e /\ hat' = 1
    /\ UNCHANGED <<owner, mainPc>>

handler_lock(l) ==
    /\ HandlerRuns /\ HandlerOp = Lock(l) /\ owner[l] = "nobody"
    /\ owner' = [owner EXCEPT ![l] = "handler"] /\ hat' = hat + 1
    /\ UNCHANGED <<if_flag, mainPc, irq>>

handler_unlock(l) ==
    /\ HandlerRuns /\ HandlerOp = Unlock(l)
    /\ owner' = [owner EXCEPT ![l] = "nobody"] /\ hat' = hat + 1
    /\ UNCHANGED <<if_flag, mainPc, irq>>

handler_work(w) ==
    /\ HandlerRuns /\ HandlerOp = Do(w)
    /\ hat' = hat + 1
    /\ UNCHANGED <<if_flag, owner, mainPc, irq>>

(* send_eoi, then iretq, which restores the flags of the interrupted code. *)
iretq ==
    /\ irq # NoInterrupt /\ hat = Len(Handler[irq]) + 1
    /\ if_flag' = TRUE /\ irq' = NoInterrupt /\ hat' = 1
    /\ UNCHANGED <<owner, mainPc>>

MainStep    == \/ cli \/ sti \/ main_return
               \/ \E l \in Locks : main_lock(l) \/ main_unlock(l)
               \/ \E w \in Work : main_work(w)
HandlerStep == \/ iretq
               \/ \E l \in Locks : handler_lock(l) \/ handler_unlock(l)
               \/ \E w \in Work : handler_work(w)

LockNext == MainStep \/ HandlerStep \/ \E e \in Interrupts : TakeInterrupt(e)
LockSpec == LockInit /\ [][LockNext]_lockVars

-----------------------------------------------------------------------------
SpinsOn(l) == HandlerRuns /\ HandlerOp = Lock(l) /\ owner[l] = "main"

LockTypeOK ==
    /\ if_flag \in BOOLEAN
    /\ owner \in [Locks -> {"nobody", "main", "handler"}]
    /\ fn \in Functions /\ at \in 1 .. Len(Body[fn]) + 1
    /\ irq \in Interrupts \cup {NoInterrupt} /\ hat \in Nat
    /\ irq # NoInterrupt => hat \in 1 .. Len(Handler[irq]) + 1

(* DOKUMENTASI-XHCI.md:255 and CARA-BIKIN-DRIVER.md:66: main clears IF      *)
(* before it locks, so that the handler never waits for a lock of the code  *)
(* it interrupted.                                                          *)
HandlerNeverSpins == \A l \in Locks : ~ SpinsOn(l)

(* The handler spins only on a lock that main took, with IF set, at one of   *)
(* the sites known to do so: the cli .. sti sections of enable_slot, the     *)
(* command and the transfer functions are safe against vector 44.            *)
SpinsOnlyAtKnownSites == \A l \in Locks : SpinsOn(l) => l \in OpenSites[fn]

(* Main never locks what it already holds, which would spin for ever: the    *)
(* guard of discover_and_init_hid_devices is dropped before the functions    *)
(* below lock XHCI_INSTANCE again, and arm_next_report finds KBD_STATE free. *)
MainNeverSpins == \A l \in Locks : MainRuns /\ MainOp = Lock(l) => owner[l] = "nobody"

(* Between two functions main holds no lock and has interrupts enabled, so   *)
(* hlt can be left and a completion can be delivered to whoever waits next;  *)
(* the handler, too, returns without a lock.                                 *)
NothingKept ==
    /\ at = Len(Body[fn]) + 1 /\ irq = NoInterrupt =>
          if_flag /\ \A l \in Locks : owner[l] = "nobody"
    /\ irq # NoInterrupt /\ hat = Len(Handler[irq]) + 1 =>
          \A l \in Locks : owner[l] # "handler"
=============================================================================
