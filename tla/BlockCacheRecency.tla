------------------------- MODULE BlockCacheRecency --------------------------
(***************************************************************************)
(* BlockCache with a history variable that records, for each cached block,  *)
(* the other cached blocks looked up (with a hit) or added since it was     *)
(* itself last used.  It states what "least recently used" promises.        *)
(***************************************************************************)
EXTENDS BlockCache

VARIABLE since      \* start PC -> start PCs used after it

\* The blocks at S were used; blocks no longer cached are forgotten.
Used(S) ==
    since' = [q \in DOMAIN map' |->
                (IF q \in S THEN {} ELSE since[q] \cup S) \cap DOMAIN map']

RInit == Init /\ since = [q \in {} |-> {}]

RNext ==
    \/ \E pc \in PC : TryGet(pc) /\ Used({pc})
    \/ \E s \in Shape : Add(s) /\ Used({s.pc})
    \/ \E pc \in PC : Invalidate(pc) /\ Used({})
    \/ Clear /\ Used({})
    \/ \E a \in Addr, v \in Byte : WriteByte(a, v) /\ Used({})

RSpec == RInit /\ [][RNext]_<<vars, since>>

\* After Add the new block is cached, and an entry is given up for it only if
\* the cache was full and every entry kept has been used after that one.
GivesUpLeastRecent ==
    \A s \in Shape : Add(s) =>
        /\ s.pc \in DOMAIN map'
        /\ \A q \in DOMAIN map \ DOMAIN map' :
              /\ Cardinality(DOMAIN map) = Capacity
              /\ DOMAIN map' \subseteq since[q] \cup {s.pc}

\* BlockCache.Add evicts the entry that was not looked up or added for longest,
\* and only when the cache is full.
EvictsLeastRecentlyUsed == [][GivesUpLeastRecent]_<<vars, since>>
=============================================================================
