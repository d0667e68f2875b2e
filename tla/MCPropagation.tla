--------------------------- MODULE MCPropagation ---------------------------
(* Instances of Propagation for TLC: key and value shapes on both sides of  *)
(* every limit, and texts with each kind of byte the codec tells apart.     *)
(* Trace and baggage calls meet only in the carrier and the context, so a   *)
(* long script uses one of the two and a shorter one mixes them.            *)
EXTENDS Propagation

CONSTANT MaxMixed   \* bound: calls of a script that uses both

VARIABLE workload   \* which calls the script makes

MCInit == Init /\ workload \in {"trace", "baggage", "both"}

MCNext ==
  /\ UNCHANGED workload
  /\ \/ /\ workload = "trace"
        /\ TraceNext \/ CarrierNext({<<"trace">>}, {"traceparent", "tracestate"})
     \/ /\ workload = "baggage"
        /\ BaggageNext \/ CarrierNext({<<"baggage">>}, {"baggage"})
     \/ workload = "both" /\ calls < MaxMixed /\ Next

MCSpec == MCInit /\ [][MCNext]_<<vars, workload>>

Key(len, at, first, vendor, allowed) ==
  [len |-> len, at |-> at, first |-> first, vendor |-> vendor, allowed |-> allowed]
Value(len, last, bytes) == [len |-> len, last |-> last, bytes |-> bytes]

Plain  == Key(3, NoAt, "lower", "lower", TRUE)
Long   == Key(200, 186, "digit", "lower", TRUE)  \* a 13-byte vendor: the SDK takes it
Vendor == Key(16, 1, "digit", "lower", TRUE)     \* a 14-byte vendor: the SDK refuses it
Bad    == Key(17, 1, "digit", "lower", TRUE)     \* one byte too many
Digit  == Key(2, NoAt, "digit", "lower", TRUE)   \* only the SDK takes it
Visible == Value(2, "visible", "printable")

MCStateKeys   == {Plain, Long, Vendor, Bad, Digit}
MCStateValues == {Visible}
Pair(k) == [kind |-> "pair", key |-> k, value |-> Visible]
Padded(k) == [kind |-> "padded", key |-> k, value |-> Visible]
Blank == [kind |-> "blank"]
MCRawStates == { <<Pair(Plain), Blank, Padded(Long), Pair(Plain)>>,
                 <<Pair(Long), Pair(Plain), Pair(Plain), Blank>>,
                 <<Pair(Plain), Pair(Digit)>> }
MCLimits == {-1, 0, 6, 25, 209}

MCKeys     == {<<"a">>, <<"b">>}
MCValues   == {<<"tab", "a">>, <<"b">>, <<"a", " ", "+">>}
MCMetadata == {<<>>, <<"a", ";">>, <<"0", " ">>}
MCRawBaggage == { <<"0">>, <<"a", "=", "+", "b", ";", "a", ",", "%61", "=", "b">> }
=============================================================================
