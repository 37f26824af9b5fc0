---------------------------- MODULE SessionDict ----------------------------
(***************************************************************************)
(* The dict of one session as the hooks of the smaller harnesses use it:   *)
(* keys come and go, a key that is not there reads as None.  How a `set`   *)
(* becomes one atomic step on the file is the subject of StateManager.     *)
(***************************************************************************)

CONSTANT None   (* what `get` answers for a key that is not in the dict     *)

Empty == [k \in {} |-> None]

Has(d, k) == k \in DOMAIN d
Get(d, k) == IF k \in DOMAIN d THEN d[k] ELSE None

Put(d, k, v) == [x \in DOMAIN d \cup {k} |-> IF x = k THEN v ELSE d[x]]
Drop(d, ks) == [x \in DOMAIN d \ ks |-> d[x]]
=============================================================================
