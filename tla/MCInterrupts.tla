---------------------------- MODULE MCInterrupts ----------------------------
(***************************************************************************)
(* TLC instance of the two views of vector 44: EventRing, where the        *)
(* handler empties the ring against the controller, and Contexts, where it *)
(* interrupts main with its locks and its printing.  They share no         *)
(* variable; each behaviour here is about one of them, and the fairness of *)
(* a view is asked of the behaviours about it only.                        *)
(***************************************************************************)
EXTENDS Contexts, EventRing

VARIABLE about  \* the view this behaviour is about

allVars == <<vars, eventVars, about>>

AllInit ==
    /\ about \in {"contexts", "events"}
    /\ Init /\ EventInit
    /\ about = "contexts" => mode = "msix"

ContextStep == about = "contexts" /\ Next /\ UNCHANGED <<eventVars, about>>
EventStep   == about = "events" /\ EventNext /\ UNCHANGED <<vars, about>>

AllNext == ContextStep \/ EventStep

AllSpec ==
    /\ AllInit /\ [][AllNext]_allVars
    /\ WF_allVars(ContextStep /\ HandlerProgress)
    /\ WF_allVars(EventStep /\ HwRaise) /\ SF_allVars(EventStep /\ Deliver)
    /\ WF_allVars(EventStep /\ HandleEvent) /\ WF_allVars(EventStep /\ call_once)
    /\ WF_allVars(EventStep /\ sti_critical) /\ WF_allVars(EventStep /\ poll_loop)

=============================================================================
