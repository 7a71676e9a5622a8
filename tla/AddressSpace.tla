----------------------------- MODULE AddressSpace -----------------------------
(***************************************************************************)
(* What a set of page tables promises: an address space is a map from      *)
(* virtual pages to entries, which changes only where a mapping is asked   *)
(* for.  The one exception is the word create() writes above a new stack:  *)
(* it may spoil one entry of one space.                                    *)
(***************************************************************************)
CONSTANTS Request,  \* the mappings that may be asked for: [va, e] records
          Stray     \* the entry that the word reads as

VARIABLE space      \* root of a table -> what its pages are mapped to

Init == space = [r \in {} |-> {}]

(* A new space maps nothing that was not asked for. *)
NewSpace(r) ==
    /\ r \notin DOMAIN space
    /\ \A v \in DOMAIN space'[r] : [va |-> v, e |-> space'[r][v]] \in Request
    /\ space' = [q \in DOMAIN space \cup {r} |->
                    IF q = r THEN space'[r] ELSE space[q]]

Changed(r) == {va \in DOMAIN space'[r] :
                  va \in DOMAIN space[r] => space'[r][va] # space[r][va]}

Enter(r, va) ==
    space' = [space EXCEPT ![r] =
                 [v \in DOMAIN @ \cup {va} |-> IF v = va THEN space'[r][v] ELSE @[v]]]

(* The last mapping asked for is the one that counts. *)
Map(r, va) == [va |-> va, e |-> space'[r][va]] \in Request /\ Enter(r, va)

(* The word replaces an entry, or adds one where nothing was mapped. *)
Spoil(r, va) == space'[r][va] = Stray /\ Enter(r, va)

Next ==
    \E r \in DOMAIN space' :
        \/ NewSpace(r)
        \/ /\ r \in DOMAIN space
           /\ \E va \in Changed(r) : Map(r, va) \/ Spoil(r, va)

Spec == Init /\ [][Next]_space
===============================================================================
