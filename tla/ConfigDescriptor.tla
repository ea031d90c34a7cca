-------------------------- MODULE ConfigDescriptor --------------------------
(***************************************************************************)
(* The walk over a configuration descriptor in                             *)
(* get_configuration_descriptor_and_find_interrupt_endpoints.  The device  *)
(* sends a sequence of descriptors, each of which begins with its length   *)
(* and its type; the buffer holds the first actual_len bytes of them (256, *)
(* or fewer after a short packet), and indexing is checked.                *)
(***************************************************************************)
EXTENDS Integers, FiniteSets, SequencesExt

CONSTANTS Descriptors,    \* what a device may send, as strings of bytes
          MaxDescriptors  \* in one configuration

Byte == 0 .. 255

ASSUME DescriptorAssumption == MaxDescriptors \in Nat /\ Descriptors \subseteq Seq(Byte)

INTERFACE == 4
ENDPOINT  == 5

VARIABLES
    sent,   \* the descriptors of the device
    buf,    \* buf_slice
    i,      \* bytes walked over
    iface,  \* number, class and protocol of the current interface
    found,  \* interrupt IN endpoints
    walk    \* "walking", "done", "panic"

walkVars == <<sent, buf, i, iface, found, walk>>

NoInterface == <<0, 0, 0>>

WalkInit ==
    /\ sent \in UNION {[1 .. n -> Descriptors] : n \in 0 .. MaxDescriptors}
    /\ \E actual_len \in 0 .. Len(FlattenSeq(sent)) :
          buf = SubSeq(FlattenSeq(sent), 1, actual_len)
    /\ i = 0 /\ iface = NoInterface /\ found = <<>> /\ walk = "walking"

(* buf_slice[n]; DOMAIN buf begins at 1. *)
At(n)      == buf[n + 1]
Inside(n)  == n < Len(buf)
b_length   == At(i)
b_type     == At(i + 1)

(* Mutant: a descriptor that fills the buffer to its end is not looked at. *)
Complete_strict == i + 2 <= Len(buf) /\ b_length # 0 /\ i + b_length < Len(buf)

Complete == i + 2 <= Len(buf) /\ b_length # 0 /\ i + b_length <= Len(buf)

read_interface ==
    /\ walk = "walking" /\ Complete /\ b_type = INTERFACE
    /\ IF Inside(i + 7)
         THEN iface' = <<At(i + 2), At(i + 5), At(i + 7)>> /\ i' = i + b_length /\ UNCHANGED walk
         ELSE walk' = "panic" /\ UNCHANGED <<i, iface>>
    /\ UNCHANGED <<sent, buf, found>>

IsIn(address)           == address \div 128 = 1
IsInterrupt(attributes) == attributes % 4 = 3

read_endpoint ==
    /\ walk = "walking" /\ Complete /\ b_type = ENDPOINT
    /\ IF Inside(i + 6)
         THEN /\ found' = IF IsIn(At(i + 2)) /\ IsInterrupt(At(i + 3))
                            THEN Append(found, <<At(i + 2), iface>>) ELSE found
              /\ i' = i + b_length /\ UNCHANGED walk
         ELSE walk' = "panic" /\ UNCHANGED <<i, found>>
    /\ UNCHANGED <<sent, buf, iface>>

(* Configuration, HID and class descriptors are stepped over. *)
skip_descriptor ==
    /\ walk = "walking" /\ Complete /\ b_type \notin {INTERFACE, ENDPOINT}
    /\ i' = i + b_length
    /\ UNCHANGED <<sent, buf, iface, found, walk>>

(* An empty result is the error of a device without such an endpoint. *)
end_walk ==
    /\ walk = "walking" /\ ~ Complete /\ walk' = "done"
    /\ UNCHANGED <<sent, buf, i, iface, found>>

WalkNext == read_interface \/ read_endpoint \/ skip_descriptor \/ end_walk
WalkSpec == WalkInit /\ [][WalkNext]_walkVars

-----------------------------------------------------------------------------
(* The same, told of the descriptors instead of the bytes. *)

Wellformed(d)  == /\ Len(d) >= 2 /\ d[1] = Len(d)
                  /\ d[2] = INTERFACE => d[1] >= 8
                  /\ d[2] = ENDPOINT => d[1] >= 7
LengthTo(k)    == Len(FlattenSeq(SubSeq(sent, 1, k)))
Received       == {k \in DOMAIN sent : LengthTo(k) <= Len(buf)}
InterfaceOf(k) ==
    LET before == {j \in 1 .. k - 1 : sent[j][2] = INTERFACE}
        last   == CHOOSE j \in before : \A n \in before : n <= j
    IN  IF before = {} THEN NoInterface
        ELSE <<sent[last][3], sent[last][6], sent[last][8]>>
EndpointsReceived ==
    {k \in Received : sent[k][2] = ENDPOINT /\ IsIn(sent[k][3]) /\ IsInterrupt(sent[k][4])}

WholeWalkFound ==
    /\ Len(found) = Cardinality(EndpointsReceived)
    /\ \A k \in EndpointsReceived :
          found[Cardinality({j \in EndpointsReceived : j <= k})] = <<sent[k][3], InterfaceOf(k)>>

ShortAtTheEnd ==
    /\ b_type \in {INTERFACE, ENDPOINT} /\ i + 8 > Len(buf)
    /\ b_length < (IF b_type = INTERFACE THEN 8 ELSE 7)

(* On a configuration of well-formed descriptors the walk finds exactly the   *)
(* interrupt IN endpoints that arrived whole, in order, each with the         *)
(* interface it belongs to, wherever the buffer ends.  Whatever the device    *)
(* sends, it panics only over a descriptor at the very end of the buffer      *)
(* whose length is shorter than its fields.                                   *)
WalkFindsAll ==
    /\ walk = "done" /\ (\A k \in DOMAIN sent : Wellformed(sent[k])) => WholeWalkFound
    /\ walk = "panic" => ShortAtTheEnd
=============================================================================
