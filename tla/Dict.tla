-------------------------------- MODULE Dict --------------------------------
(***************************************************************************)
(* What the two search trees promise: a dictionary.  As in the code, an    *)
(* insert of a key that is there keeps the old value, and a del or update  *)
(* of a key that is not there does nothing.                                *)
(***************************************************************************)

CONSTANTS Keys, Values, Absent

VARIABLE contents       \* the value of every key, or Absent

Init == contents = [k \in Keys |-> Absent]

Insert(k, v) == contents[k] = Absent /\ contents' = [contents EXCEPT ![k] = v]

Delete(k) == contents[k] # Absent /\ contents' = [contents EXCEPT ![k] = Absent]

Update(k, v) == contents[k] # Absent /\ contents' = [contents EXCEPT ![k] = v]

\* An update to the value that is there already is a stutter.
Next == \E k \in Keys :
    /\ contents'[k] # contents[k]
    /\ Delete(k) \/ \E v \in Values : Insert(k, v) \/ Update(k, v)

Spec == Init /\ [][Next]_contents

=============================================================================
