------------------------------- MODULE Caller -------------------------------
(* The harness of the sequential components: one caller makes one call after *)
(* another on one object.  obj is the object as the code keeps it, ref what  *)
(* the object stands for, and ret what the last call returned beside what it *)
(* should have returned.  unit says which component the behaviour is about.  *)
VARIABLES unit, obj, ref, ret
callerVars == <<unit, obj, ref, ret>>

\* The functions to T from some of S.
PartialMaps(S, T) == UNION {[U -> T] : U \in SUBSET S}

NoReturn == [got |-> 0, want |-> 0]

\* The object is now o and stands for r; the call returned got, not want.
Does(o, r, got, want) ==
  obj' = o /\ ref' = r /\ ret' = [got |-> got, want |-> want] /\ UNCHANGED unit
=============================================================================
