-------------------------------- MODULE Grind --------------------------------
(***************************************************************************)
(* The parallel proof-of-work search: grind_pow of crates/fiat_shamir over *)
(* find_first of crates/parallel. Blocks of nonces are searched one after  *)
(* the other; a block is a dispatch whose items are batches of nonces; the *)
(* workers publish hits into a shared minimum and read it with Relaxed     *)
(* loads, which may return any value it has had since the thread last      *)
(* looked. Which nonces clear the bits is up to the hash: any set.         *)
(*                                                                         *)
(* The pool is taken at its word (module Pool): claims tile the items in   *)
(* any lengths, and the dispatch returns when all claims have.             *)
(***************************************************************************)
EXTENDS Integers

CONSTANTS
    Workers,
    Batch,          \* BATCH, nonces hashed at once
    BlockItems,     \* block / BATCH, items of a dispatch
    MaxBlocks,      \* bound on the blocks searched
    Unset           \* usize::MAX, no hit yet

ASSUME GrindAssumption ==
    /\ Batch \in Nat \ {0} /\ BlockItems \in Nat \ {0} /\ MaxBlocks \in Nat \ {0}
    /\ Unset \in Nat /\ Unset >= BlockItems

Nonces == 0 .. Batch * BlockItems * MaxBlocks - 1
Indices == 0 .. BlockItems - 1

VARIABLES
    hits,       \* the nonces whose hash clears the bits
    start,      \* the first nonce of the block
    next,       \* the first item of the block that is not claimed
    at,         \* at[w]: the item of its claim that w tries next
    end,        \* end[w]: the end of its claim; it has none where at[w] = end[w]
    fresh,      \* fresh[w]: w has claimed a range and not yet looked at best
    best,       \* the shared minimum
    past,       \* the values best has had in this dispatch
    seen,       \* seen[w]: the last value of best that w has read
    nonce       \* the result, or -1

vars == <<hits, start, next, at, end, fresh, best, past, seen, nonce>>
search == <<next, at, end, fresh, best, past, seen>>

TypeOK ==
    /\ hits \subseteq Nonces
    /\ start \in {b * BlockItems * Batch : b \in 0 .. MaxBlocks - 1}
    /\ next \in 0 .. BlockItems
    /\ at \in [Workers -> 0 .. BlockItems]
    /\ end \in [Workers -> 0 .. BlockItems]
    /\ fresh \in [Workers -> BOOLEAN]
    /\ best \in Indices \cup {Unset}
    /\ past \subseteq Indices \cup {Unset}
    /\ seen \in [Workers -> Indices \cup {Unset}]
    /\ nonce \in Nonces \cup {-1}

Init ==
    /\ hits \in SUBSET Nonces
    /\ start = 0
    /\ next = 0
    /\ at = [w \in Workers |-> 0]
    /\ end = [w \in Workers |-> 0]
    /\ fresh = [w \in Workers |-> FALSE]
    /\ best = Unset
    /\ past = {Unset}
    /\ seen = [w \in Workers |-> Unset]
    /\ nonce = -1

-----------------------------------------------------------------------------
BatchNonces(i) == start + i * Batch .. start + (i + 1) * Batch - 1

\* The closure given to find_first: the batch holds a nonce that clears.
Pred(i) == BatchNonces(i) \cap hits # {}

Idle(w) == at[w] = end[w]

\* A range of any length is claimed.
ClaimRange(w) ==
    /\ nonce = -1 /\ Idle(w)
    /\ next' \in next + 1 .. BlockItems
    /\ at' = [at EXCEPT ![w] = next]
    /\ end' = [end EXCEPT ![w] = next']
    /\ fresh' = [fresh EXCEPT ![w] = TRUE]
    /\ UNCHANGED <<hits, start, best, past, seen, nonce>>

\* Variant: any hit at all stops the claim.
SkipOnAnyHit(w) ==
    /\ fresh[w]
    /\ fresh' = [fresh EXCEPT ![w] = FALSE]
    /\ \E value \in {b \in past : b <= seen[w]} :
        /\ seen' = [seen EXCEPT ![w] = value]
        /\ at' = [at EXCEPT ![w] = IF value # Unset THEN end[w] ELSE @]
    /\ UNCHANGED <<hits, start, next, end, best, past, nonce>>

\* The Relaxed load, once a claim: one that starts past a smaller hit is over.
SkipClaim(w) ==
    /\ fresh[w]
    /\ fresh' = [fresh EXCEPT ![w] = FALSE]
    /\ \E value \in {b \in past : b <= seen[w]} :
        /\ seen' = [seen EXCEPT ![w] = value]
        /\ at' = [at EXCEPT ![w] = IF @ >= value THEN end[w] ELSE @]
    /\ UNCHANGED <<hits, start, next, end, best, past, nonce>>

\* Variant: the hit is stored, not kept as a minimum.
StoreHit(w, i) == best' = i

\* best.fetch_min(i).
FetchMin(w, i) == best' = IF i < best THEN i ELSE best

\* The next item of the claim; a hit ends the claim.
Try(w) ==
    /\ ~Idle(w) /\ ~fresh[w]
    /\ IF Pred(at[w])
       THEN /\ FetchMin(w, at[w])
            /\ past' = past \cup {best'}
            /\ seen' = [seen EXCEPT ![w] = best']
            /\ at' = [at EXCEPT ![w] = end[w]]
       ELSE /\ at' = [at EXCEPT ![w] = @ + 1]
            /\ UNCHANGED <<best, past, seen>>
    /\ UNCHANGED <<hits, start, next, end, fresh, nonce>>

Returned == next = BlockItems /\ \A w \in Workers : Idle(w)

\* find_first returned an index: the first match of that batch is the nonce.
Found ==
    /\ nonce = -1 /\ Returned /\ best # Unset
    /\ \E m \in BatchNonces(best) \cap hits :
        /\ \A k \in BatchNonces(best) \cap hits : m <= k
        /\ nonce' = m
    /\ UNCHANGED <<hits, start, search>>

\* Variant: the claim counter is not reset.
NextBlockKept ==
    /\ nonce = -1 /\ Returned /\ best = Unset
    /\ start + BlockItems * Batch \in Nonces
    /\ start' = start + BlockItems * Batch
    /\ past' = {Unset}
    /\ seen' = [w \in Workers |-> Unset]
    /\ UNCHANGED <<hits, next, at, end, fresh, best, nonce>>

\* None: the next block.
NextBlock ==
    /\ nonce = -1 /\ Returned /\ best = Unset
    /\ start + BlockItems * Batch \in Nonces
    /\ start' = start + BlockItems * Batch
    /\ next' = 0
    /\ past' = {Unset}
    /\ seen' = [w \in Workers |-> Unset]
    /\ UNCHANGED <<hits, at, end, fresh, best, nonce>>

Next ==
    \/ \E w \in Workers : ClaimRange(w) \/ SkipClaim(w) \/ Try(w)
    \/ Found \/ NextBlock

Spec == Init /\ [][Next]_vars

\* The dispatcher drains too, so some thread always claims what is left, and
\* every thread finishes its claims.
FairSpec == Spec /\ WF_vars(Next)

-----------------------------------------------------------------------------
\* The doc of grind_pow: "find the smallest u64 nonce whose PoW hash clears",
\* which every prover must agree on for proofs to be reproducible.
SmallestNonce == nonce # -1 => nonce \in hits /\ \A h \in hits : nonce <= h

\* The search ends as soon as the blocks searched hold a hit.
SearchEnds == (hits # {}) ~> (nonce # -1)

=============================================================================
